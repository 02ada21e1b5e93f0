------------------------ MODULE AccountSessionProofs ------------------------
(***************************************************************************)
(* Proofs about AccountSession: its types, that no token leaves the        *)
(* stations that accept it, that a session once ended is not used again,   *)
(* that the one in use is remembered, and that an answer is used only      *)
(* where nothing changed since it was asked for.                           *)
(***************************************************************************)
EXTENDS AccountSession, FiniteSetTheorems, TLAPS

-----------------------------------------------------------------------------
(* Entries at positions *)

\* The positions of I up to i.
Upto(I, i) == {j \in I : j <= i}

\* Of n positions, for every k up to n one is the k-th.
LEMMA Ranked ==
  ASSUME NEW n \in Nat, NEW I \in SUBSET (1..n)
  PROVE  /\ IsFiniteSet(I) /\ Cardinality(I) \in 0..n
         /\ \A k \in 1..Cardinality(I) : \E i \in I : Cardinality(Upto(I, i)) = k
<1> DEFINE rank == [i \in I |-> Cardinality(Upto(I, i))]
<1>1. IsFiniteSet(1..n) /\ Cardinality(1..n) = n
  BY FS_Interval
<1>2. IsFiniteSet(I) /\ Cardinality(I) \in Nat /\ Cardinality(I) <= n
  BY <1>1, FS_Subset, FS_CardinalityType
<1> DEFINE c == Cardinality(I)
<1> HIDE DEF c
<1>3. IsFiniteSet(1..c) /\ Cardinality(1..c) = c
  BY <1>2, FS_Interval DEF c
<1>4. ASSUME NEW i \in I
      PROVE  /\ IsFiniteSet(Upto(I, i)) /\ Cardinality(Upto(I, i)) \in 1..c
  <2>1. Upto(I, i) \in SUBSET I /\ i \in Upto(I, i)
    BY DEF Upto
  <2>2. IsFiniteSet(Upto(I, i)) /\ Cardinality(Upto(I, i)) <= c
    BY <1>2, <2>1, FS_Subset DEF c
  <2>3. Cardinality(Upto(I, i)) \in Nat /\ Cardinality(Upto(I, i)) # 0
    BY <2>1, <2>2, FS_CardinalityType, FS_EmptySet
  <2>4. QED
    BY <1>2, <2>2, <2>3 DEF c
<1>5. ASSUME NEW i \in I, NEW j \in I, i < j
      PROVE  Cardinality(Upto(I, i)) # Cardinality(Upto(I, j))
  <2>1. i \in Nat /\ j \in Nat
    OBVIOUS
  <2>2. j \in Upto(I, j) /\ j \notin Upto(I, i)
    BY <1>5, <2>1 DEF Upto
  <2>3. ASSUME NEW x \in Upto(I, i)
        PROVE  x \in Upto(I, j)
    <3>1. x \in I /\ x \in Nat /\ x <= i
      BY DEF Upto
    <3>2. QED
      BY <1>5, <2>1, <3>1 DEF Upto
  <2>4. Upto(I, i) \in SUBSET Upto(I, j)
    BY <2>3
  <2>5. QED
    BY <1>4, <2>2, <2>4, FS_Subset
<1>6. rank \in Injection(I, 1..c)
  <2>1. rank \in [I -> 1..c]
    BY <1>4
  <2>2. \A i, j \in I : rank[i] = rank[j] => i = j
    <3>1. \A i, j \in I : i < j => rank[i] # rank[j]
      BY <1>5
    <3>2. \A i, j \in I : i < j \/ j < i \/ i = j
      OBVIOUS
    <3> HIDE DEF rank
    <3>3. QED
      BY <3>1, <3>2
  <2> HIDE DEF rank
  <2>3. QED
    BY <2>1, <2>2 DEF Injection, IsInjective
<1>7. rank \in Surjection(I, 1..c)
  <2> HIDE DEF rank
  <2>1. QED
    BY <1>3, <1>6, FS_Injection DEF c
<1>8. \A k \in 1..c : \E i \in I : rank[i] = k
  <2> HIDE DEF rank
  <2>1. QED
    BY <1>7 DEF Surjection
<1>9. QED
  BY <1>2, <1>8 DEF c

\* EntriesAt is a sequence of the elements at its positions, each from one of its own.
LEMMA EntriesAtTyped ==
  ASSUME NEW S, NEW es \in Seq(S), NEW I \in SUBSET DOMAIN es
  PROVE  LET e == EntriesAt(es, I)
         IN  /\ e \in Seq(S) /\ Len(e) = Cardinality(I) /\ Len(e) \in 0..Len(es)
             /\ DOMAIN e = 1..Cardinality(I)
             /\ \A k \in DOMAIN e : \E i \in I : e[k] = es[i]
             /\ \A k, l \in DOMAIN e : k # l =>
                  \E i, j \in I : i # j /\ e[k] = es[i] /\ e[l] = es[j]
<1> DEFINE c == Cardinality(I)
           pos == [k \in 1..c |-> CHOOSE i \in I : Cardinality(Upto(I, i)) = k]
           e == EntriesAt(es, I)
<1>1. Len(es) \in Nat /\ I \in SUBSET (1..Len(es)) /\ DOMAIN es = 1..Len(es)
  OBVIOUS
<1>2. c \in 0..Len(es) /\ \A k \in 1..c : \E i \in I : Cardinality(Upto(I, i)) = k
  BY <1>1, Ranked
<1>3. \A k \in 1..c : pos[k] \in I /\ Cardinality(Upto(I, pos[k])) = k
  BY <1>2
<1>4. e = [k \in 1..c |-> es[pos[k]]]
  BY DEF EntriesAt, Upto
<1> HIDE DEF pos, e, c
<1>5. \A k \in 1..c : es[pos[k]] \in S
  BY <1>1, <1>3
<1>6. e \in [1..c -> S] /\ c \in Nat
  BY <1>2, <1>4, <1>5
<1>7. e \in Seq(S) /\ Len(e) = c /\ DOMAIN e = 1..c
  BY <1>6
<1>8. \A k \in 1..c : e[k] = es[pos[k]]
  BY <1>4
<1>9. \A k, l \in 1..c : k # l => pos[k] # pos[l]
  BY <1>3
<1>10. \A k \in DOMAIN e : \E i \in I : e[k] = es[i]
  BY <1>3, <1>7, <1>8
<1>11. \A k, l \in DOMAIN e : k # l =>
         \E i, j \in I : i # j /\ e[k] = es[i] /\ e[l] = es[j]
  BY <1>3, <1>7, <1>8, <1>9
<1>12. QED
  BY <1>2, <1>7, <1>10, <1>11 DEF e, c

-----------------------------------------------------------------------------
(* The sessions remembered and the one in use *)

\* At most Limit sessions are remembered, one of each address.
Stores == {es \in Seq(Entry) : /\ Len(es) <= Limit
                               /\ \A i, j \in DOMAIN es : es[i].scope = es[j].scope => i = j}

\* Every session remembered is of an address that accepts it, and none is among bad.
Kept(es, bad) ==
  /\ es \in Stores
  /\ \A i \in DOMAIN es : /\ es[i].scope # Unscoped
                          /\ es[i].scope \in Homes[es[i].token] /\ es[i].token \notin bad

\* The same of the session that is used at b, which is remembered if it may be.
Sound(b, a, es, bad) ==
  /\ Kept(es, bad)
  /\ a \in Account /\ a.scope = b
  /\ a.token # None => b \in Homes[a.token] /\ a.token \notin bad
  /\ a.token \in Remembered =>
       \E i \in DOMAIN es : es[i] = [scope |-> a.scope, token |-> a.token]

LEMMA PartOfStore ==
  ASSUME NEW es \in Stores, NEW I \in SUBSET DOMAIN es
  PROVE  /\ EntriesAt(es, I) \in Stores
         /\ \A k \in DOMAIN EntriesAt(es, I) : \E i \in I : EntriesAt(es, I)[k] = es[i]
<1> DEFINE e == EntriesAt(es, I)
<1>1. es \in Seq(Entry) /\ Len(es) <= Limit /\ Len(es) \in Nat /\ Limit \in Nat
  BY AccountAssumption DEF Stores
<1>2. /\ e \in Seq(Entry) /\ Len(e) \in 0..Len(es)
      /\ \A k \in DOMAIN e : \E i \in I : e[k] = es[i]
      /\ \A k, l \in DOMAIN e : k # l => \E i, j \in I : i # j /\ e[k] = es[i] /\ e[l] = es[j]
  BY <1>1, EntriesAtTyped
<1> HIDE DEF e
<1>3. Len(e) <= Limit
  BY <1>1, <1>2
<1>4. \A k, l \in DOMAIN e : e[k].scope = e[l].scope => k = l
  BY <1>2 DEF Stores
<1>5. QED
  BY <1>2, <1>3, <1>4 DEF Stores, e

LEMMA OthersKept ==
  ASSUME NEW bad, NEW es, Kept(es, bad), NEW s
  PROVE  /\ Kept(Others(es, s), bad)
         /\ \A k \in DOMAIN Others(es, s) :
              Others(es, s)[k].scope # s /\ \E i \in DOMAIN es : Others(es, s)[k] = es[i]
<1> DEFINE I == {i \in DOMAIN es : es[i].scope # s}
<1>1. es \in Stores /\ I \in SUBSET DOMAIN es /\ Others(es, s) = EntriesAt(es, I)
  BY DEF Kept, Others
<1>2. \A i \in I : i \in DOMAIN es /\ es[i].scope # s
  OBVIOUS
<1> HIDE DEF I
<1>3. Others(es, s) \in Stores /\ \A k \in DOMAIN Others(es, s) : \E i \in I : Others(es, s)[k] = es[i]
  BY <1>1, PartOfStore
<1>4. QED
  BY <1>2, <1>3 DEF Kept

LEMMA ForgettingKept ==
  ASSUME NEW bad, NEW es, Kept(es, bad), NEW t
  PROVE  Kept(Forgetting(es, t), bad \cup {t})
<1> DEFINE I == {i \in DOMAIN es : es[i].token # t}
<1>1. es \in Stores /\ I \in SUBSET DOMAIN es /\ Forgetting(es, t) = EntriesAt(es, I)
  BY DEF Kept, Forgetting
<1>2. \A i \in I : i \in DOMAIN es /\ es[i].token # t
  OBVIOUS
<1> HIDE DEF I
<1>3. /\ Forgetting(es, t) \in Stores
      /\ \A k \in DOMAIN Forgetting(es, t) : \E i \in I : Forgetting(es, t)[k] = es[i]
  BY <1>1, PartOfStore
<1>4. QED
  BY <1>2, <1>3 DEF Kept

\* What is found for an address was remembered for it.
LEMMA FoundKept ==
  ASSUME NEW bad, NEW es, Kept(es, bad), NEW b, Found(es, b) # <<>>
  PROVE  LET e == Head(Found(es, b))
         IN  e \in Entry /\ e.scope = b /\ b \in Homes[e.token] /\ e.token \notin bad
<1> DEFINE Of(s) == {i \in DOMAIN es : es[i].scope = s}
<1>1. es \in Stores /\ es \in Seq(Entry) /\ \A s : EntriesOf(es, s) = EntriesAt(es, Of(s))
  BY DEF Kept, Stores, EntriesOf
<1>2. \A s : Of(s) \in SUBSET DOMAIN es /\ \A i \in Of(s) : i \in DOMAIN es /\ es[i].scope = s
  OBVIOUS
<1> HIDE DEF Of
<1>3. PICK s : Found(es, b) = EntriesOf(es, s) /\ s \in {b, Unscoped}
  BY DEF Found
<1> DEFINE f == Found(es, b)
<1>4. f \in Seq(Entry) /\ f # <<>> /\ \A k \in DOMAIN f : \E i \in Of(s) : f[k] = es[i]
  <2>1. f = EntriesAt(es, Of(s))
    BY <1>1, <1>3
  <2> HIDE DEF f
  <2>2. f \in Stores /\ \A k \in DOMAIN f : \E i \in Of(s) : f[k] = es[i]
    BY <1>1, <1>2, <2>1, PartOfStore
  <2>3. QED
    BY <2>2 DEF Stores, f
<1> HIDE DEF f
<1>5. 1 \in DOMAIN f /\ Head(f) = f[1]
  BY <1>4
<1>6. PICK i \in DOMAIN es : Head(f) = es[i] /\ es[i].scope = s
  BY <1>2, <1>4, <1>5
<1>7. es[i] \in Entry
  BY <1>1
<1>8. QED
  BY <1>3, <1>6, <1>7 DEF Kept, f

\* The newest entry is remembered, the others are those of before.
LEMMA StoredKept ==
  ASSUME NEW bad, NEW es, Kept(es, bad), NEW s \in Addresses, NEW t \in Tokens,
         s \in Homes[t], t \notin bad
  PROVE  /\ Kept(Stored(es, s, t), bad)
         /\ \E i \in DOMAIN Stored(es, s, t) : Stored(es, s, t)[i] = [scope |-> s, token |-> t]
<1> DEFINE o == Others(es, s)
           e == [scope |-> s, token |-> t]
           p == Append(o, e)
           q == Stored(es, s, t)
<1>1. /\ Kept(o, bad) /\ \A k \in DOMAIN o : o[k].scope # s
      /\ o \in Seq(Entry) /\ Len(o) <= Limit /\ e \in Entry
  <2>1. Kept(o, bad) /\ \A k \in DOMAIN o : o[k].scope # s
    BY OthersKept
  <2>2. o \in Stores
    BY <2>1 DEF Kept
  <2>3. e \in Entry
    BY DEF Entry
  <2> HIDE DEF o, e
  <2>4. QED
    BY <2>1, <2>2, <2>3 DEF Stores
<1>2. e.scope = s /\ e.token = t /\ s # Unscoped /\ Limit \in Nat \ {0}
  BY AccountAssumption
<1>3. q = Pruned(p)
  BY DEF Stored
<1> HIDE DEF o, e, q
<1>4. /\ p \in Seq(Entry) /\ Len(p) = Len(o) + 1 /\ Len(o) \in Nat
      /\ DOMAIN p = 1..Len(p) /\ DOMAIN o = 1..Len(o)
      /\ p[Len(p)] = e /\ \A k \in 1..Len(o) : p[k] = o[k]
  BY <1>1
<1> HIDE DEF p
<1>5. /\ \A k \in DOMAIN p : p[k].scope # Unscoped /\ p[k].scope \in Homes[p[k].token]
                             /\ p[k].token \notin bad
      /\ \A k, l \in DOMAIN p : p[k].scope = p[l].scope => k = l
  <2>1. \A k \in DOMAIN p : k \in DOMAIN o \/ (k = Len(p) /\ p[k] = e)
    BY <1>4
  <2>2. \A k \in DOMAIN o : p[k] = o[k]
    BY <1>4
  <2>3. QED
    BY <1>1, <1>2, <2>1, <2>2 DEF Kept, Stores
<1>6. CASE Len(p) <= Limit
  <2>1. q = p
    BY <1>3, <1>4, <1>6, AccountAssumption DEF Pruned
  <2>2. QED
    BY <1>4, <1>5, <1>6, <2>1 DEF Kept, Stores, q, e
<1>7. CASE Len(p) > Limit
  <2> DEFINE n == Len(p)
  <2>0. n = Limit + 1 /\ n \in Nat /\ Limit \in Nat /\ Limit > 0
    BY <1>1, <1>2, <1>4, <1>7
  <2>1. q = SubSeq(p, 2, n)
    <3>1. n - Limit + 1 = 2
      BY <2>0
    <3>2. q = SubSeq(p, n - Limit + 1, n)
      BY <1>3, <1>7 DEF Pruned
    <3>3. QED
      BY <3>1, <3>2
  <2> HIDE DEF n
  <2>2. q \in Seq(Entry) /\ Len(q) = Limit /\ DOMAIN q = 1..Limit /\ \A k \in 1..Limit : q[k] = p[k + 1]
    <3>1. DOMAIN p = 1..n
      BY <1>4 DEF n
    <3>2. SubSeq(p, 2, n) = [k \in 1..(n - 1) |-> p[k + 1]]
      BY <1>4, <2>0, <3>1
    <3>3. n - 1 = Limit
      BY <2>0
    <3>4. q = [k \in 1..Limit |-> p[k + 1]]
      BY <2>1, <3>2, <3>3
    <3>5. \A k \in 1..Limit : k + 1 \in DOMAIN p
      BY <2>0, <3>1
    <3>6. \A k \in 1..Limit : p[k + 1] \in Entry
      BY <1>4, <3>5
    <3>7. q \in [1..Limit -> Entry]
      BY <3>4, <3>6
    <3>8. \A k \in 1..Limit : q[k] = p[k + 1]
      BY <3>4
    <3>9. QED
      BY <2>0, <3>7, <3>8
  <2>3. \A k \in DOMAIN q : k + 1 \in DOMAIN p
    <3>1. DOMAIN p = 1..n
      BY <1>4 DEF n
    <3>2. QED
      BY <2>0, <2>2, <3>1
  <2>4. Limit \in DOMAIN q /\ q[Limit] = e
    <3>1. Limit \in 1..Limit /\ p[Limit + 1] = e
      BY <1>4, <2>0 DEF n
    <3>2. QED
      BY <2>2, <3>1
  <2>5. \A k, l \in DOMAIN q : q[k].scope = q[l].scope => k = l
    BY <1>2, <1>5, <2>2, <2>3
  <2>6. q \in Stores
    BY <1>2, <2>2, <2>5 DEF Stores
  <2>7. \A k \in DOMAIN q : q[k].scope # Unscoped /\ q[k].scope \in Homes[q[k].token]
                            /\ q[k].token \notin bad
    BY <1>5, <2>2, <2>3
  <2>8. QED
    BY <2>4, <2>6, <2>7 DEF Kept, q, e
<1>8. QED
  BY <1>2, <1>4, <1>6, <1>7

\* Fewer may be bad.
LEMMA SoundOfFewer ==
  ASSUME NEW bad, NEW less, less \subseteq bad, NEW b, NEW a, NEW es, Sound(b, a, es, bad)
  PROVE  Sound(b, a, es, less)
BY DEF Sound, Kept

\* set_current_session of a token that b accepts.
LEMMA UsingSound ==
  ASSUME NEW bad, NEW es, Kept(es, bad), NEW b \in Addresses, NEW t \in Tokens,
         b \in Homes[t], t \notin bad
  PROVE  LET r == Using(t, b, es) IN Sound(b, r.account, r.entries, bad)
<1> DEFINE r == Using(t, b, es)
<1>1. /\ r.account = [token |-> t, scope |-> b, from |-> b]
      /\ r.entries = IF t \in Remembered THEN Stored(es, b, t) ELSE Others(es, b)
  BY DEF Using
<1> HIDE DEF r
<1>2. /\ r.account \in Account /\ r.account.token = t /\ r.account.scope = b
  BY <1>1 DEF Account
<1>3. Kept(r.entries, bad)
  BY <1>1, StoredKept, OthersKept
<1>4. t \in Remembered => \E i \in DOMAIN r.entries : r.entries[i] = [scope |-> b, token |-> t]
  BY <1>1, StoredKept
<1>5. QED
  BY <1>2, <1>3, <1>4 DEF Sound, r

LEMMA BlankIsAccount ==
  ASSUME NEW s \in Addresses \cup {None}
  PROVE  /\ Blank(s) \in Account /\ Blank(s).token = None /\ Blank(s).scope = s
         /\ None \notin Tokens /\ None \notin Remembered
BY AccountAssumption DEF Blank, Account

\* init_from_storage, of a session at another address or of one that is sound.
LEMMA RestoredSound ==
  ASSUME NEW bad, NEW es, Kept(es, bad), NEW b \in Addresses, NEW a,
         a.scope = b => Sound(b, a, es, bad)
  PROVE  LET r == Restored(a, es, b) IN Sound(b, r.account, r.entries, bad)
<1> DEFINE r == Restored(a, es, b)
           f == Found(es, b)
<1>1. CASE a.scope = b
  <2>1. r.account = a /\ r.entries = es
    BY <1>1 DEF Restored
  <2>2. QED
    BY <1>1, <2>1
<1>2. CASE a.scope # b /\ f = <<>>
  <2>1. r.account = Blank(b) /\ r.entries = es
    BY <1>2 DEF Restored
  <2> HIDE DEF r, f
  <2>2. QED
    BY <2>1, BlankIsAccount DEF Sound, r
<1>3. CASE a.scope # b /\ f # <<>>
  <2> DEFINE e == Head(f)
  <2>1. e \in Entry /\ e.scope = b /\ b \in Homes[e.token] /\ e.token \notin bad
    BY <1>3, FoundKept
  <2>2. /\ r.account = [token |-> e.token, scope |-> b, from |-> b]
        /\ r.entries = Stored(Others(es, e.scope), b, e.token)
    BY <1>3 DEF Restored
  <2> HIDE DEF r, f, e
  <2>3. e.token \in Tokens
    BY <2>1 DEF Entry
  <2>4. Kept(Others(es, e.scope), bad)
    BY OthersKept
  <2>5. /\ Kept(r.entries, bad)
        /\ \E i \in DOMAIN r.entries : r.entries[i] = [scope |-> b, token |-> e.token]
    BY <2>1, <2>2, <2>3, <2>4, StoredKept
  <2>6. r.account \in Account /\ r.account.token = e.token /\ r.account.scope = b
    BY <2>2, <2>3 DEF Account
  <2>7. QED
    BY <2>1, <2>5, <2>6 DEF Sound, r
<1>4. QED
  BY <1>1, <1>2, <1>3

\* clear_current_session: no entry of the token that was used is left, for a token
\* that is not paired has no other home.
LEMMA ClearedSound ==
  ASSUME NEW bad, NEW b \in Addresses, NEW a, NEW es, Sound(b, a, es, bad)
  PROVE  LET c == Cleared(a, es)
         IN  /\ Sound(b, c.account, c.entries, bad \cup ({a.token} \cap Tokens))
             /\ c.account = Blank(b)
<1> DEFINE c == Cleared(a, es)
           o == Others(es, b)
           all == bad \cup ({a.token} \cap Tokens)
<1>1. /\ c.account = Blank(b)
      /\ c.entries = IF a.token \in Paired THEN Forgetting(o, a.token) ELSE o
  BY DEF Cleared, Sound
<1>2. /\ Kept(o, bad) /\ \A k \in DOMAIN o : o[k].scope # b
  BY OthersKept DEF Sound
<1> HIDE DEF c, o, all
<1>3. Kept(c.entries, all)
  <2>1. CASE a.token \in Paired
    <3>1. Kept(c.entries, bad \cup {a.token})
      BY <1>1, <1>2, <2>1, ForgettingKept
    <3>2. all \subseteq bad \cup {a.token}
      BY DEF all
    <3>3. QED
      BY <3>1, <3>2 DEF Kept
  <2>2. CASE a.token \notin Paired
    <3>1. c.entries = o
      BY <1>1, <2>2
    <3>2. ASSUME NEW k \in DOMAIN o
          PROVE  o[k].token \notin all
      <4>1. o[k].scope \in Homes[o[k].token] /\ o[k].scope # b /\ o[k].token \notin bad
        BY <1>2 DEF Kept
      <4>2. ASSUME o[k].token = a.token, a.token \in Tokens
            PROVE  FALSE
        <5>1. b \in Homes[a.token]
          BY <4>2, AccountAssumption DEF Sound
        <5>2. a.token \in Tokens \ Paired
          BY <2>2, <4>2
        <5>3. QED
          BY <4>1, <4>2, <5>1, <5>2, AccountAssumption
      <4>3. QED
        BY <4>1, <4>2 DEF all
    <3>3. QED
      BY <1>2, <3>1, <3>2 DEF Kept
  <2>3. QED
    BY <2>1, <2>2
<1>4. QED
  BY <1>1, <1>3, BlankIsAccount DEF Sound, c, all

\* fetch_session_status: the session is written again, whoever answered.
LEMMA AnsweredSound ==
  ASSUME NEW bad, NEW b \in Addresses, NEW a, NEW es, Sound(b, a, es, bad),
         NEW s \in Addresses, NEW k, NEW f,
         inFlight[k].base = s, account = a, entries = es, Answered(k, f)
  PROVE  Sound(b, account', entries', bad) /\ account'.token = a.token
<1>1. /\ account' = [a EXCEPT !.from = s]
      /\ entries' = IF a.token \in Remembered THEN Stored(es, b, a.token) ELSE es
  BY DEF Answered, Sound
<1>2. a \in Account /\ Kept(es, bad)
  BY DEF Sound
<1>3. account' \in Account /\ account'.token = a.token /\ account'.scope = b
  BY <1>1, <1>2 DEF Account, Sound
<1>4. CASE a.token \in Remembered
  <2>1. a.token \in Tokens /\ b \in Homes[a.token] /\ a.token \notin bad
    BY <1>4, AccountAssumption DEF Sound
  <2>2. entries' = Stored(es, b, a.token)
    BY <1>1, <1>4
  <2>3. /\ Kept(entries', bad)
        /\ \E i \in DOMAIN entries' : entries'[i] = [scope |-> b, token |-> a.token]
    BY <1>2, <2>1, <2>2, StoredKept
  <2>4. QED
    BY <1>3, <2>1, <2>3 DEF Sound
<1>5. CASE a.token \notin Remembered
  <2>1. entries' = es
    BY <1>1, <1>5
  <2>2. QED
    BY <1>2, <1>3, <1>5, <2>1 DEF Sound
<1>6. QED
  BY <1>4, <1>5

-----------------------------------------------------------------------------
(* The inductive invariant *)

\* A request r of task k where the page g is shown for station b: it goes where its
\* token is accepted, the dashboard's own ones go to the station of the dashboard,
\* those that look for a paired station carry a paired token no one has ended, and
\* a gesture over which anything moved is revised.
Flies(k, r, b, g, e) ==
  /\ r \in Request \cup {Quiet}
  /\ r.token # None => r.base \in Homes[r.token]
  /\ r # Quiet => /\ g # "connect"
                  /\ k \in ViewTasks => g \in {"open", "closed", "login"} /\ r.base = b
                  /\ k \in {"find", "sweep"} => r.token \in Paired \ e
                  /\ k = "owned" => (r.moved => r.revised)

Flights == /\ inFlight \in [AllTasks -> Request \cup {Quiet}]
           /\ \A k \in AllTasks : Flies(k, inFlight[k], base, gate, ended)

\* What may not be used: what no station has issued yet, and what was ended.
Bad == server.unused \cup ended

\* A token the stations have not issued is neither paired nor ended.
Ledger == /\ server \in [valid : SUBSET Tokens, unused : SUBSET Tokens]
          /\ ended \subseteq Tokens
          /\ server.unused \cap (Paired \cup ended) = {}

AInv == /\ base \in Addresses /\ gate \in Gates
        /\ Ledger
        /\ Sound(base, account, entries, Bad)
        /\ Flights

\* Tasks a step may leave under way: some of before, and the shell's own requests,
\* where their token is accepted.
May(f) ==
  /\ f \in [AllTasks -> Request \cup {Quiet}]
  /\ \A k \in AllTasks :
       \/ f[k] = Quiet \/ f[k] = inFlight[k]
       \/ /\ k \in ShellTasks
          /\ f[k].token # None => f[k].base \in Homes[f[k].token]
          /\ k = "find" => f[k].token \in Paired \ ended

\* The tasks of a step that are under way after it: f's, unless their page is gone.
LEMMA FlyingKeeps ==
  ASSUME AInv, NEW f, NEW invalidated \in BOOLEAN, Flying(f, invalidated), May(f),
         gate' # "connect",
         ended' = ended \/ \A k \in {"find", "sweep"} : f[k] = Quiet,
         gate' = gate => base' = base \/ \A k \in ViewTasks : f[k] = Quiet,
         invalidated \/ Here(base', account') = Here(base, account)
  PROVE  Flights'
<1>1. \A k \in AllTasks : inFlight[k] \in Request \cup {Quiet} /\ Flies(k, inFlight[k], base, gate, ended)
  BY DEF AInv, Flights
<1>2. \A k \in AllTasks : f[k] \in Request \cup {Quiet}
  BY DEF May
<1>3. Quiet.token = None
  BY DEF Quiet
<1>4. "owned" \in ViewTasks /\ "sweep" \in ViewTasks /\ "find" \notin ViewTasks
      /\ ViewTasks \cap ShellTasks = {} /\ AllTasks = ViewTasks \cup ShellTasks
  BY DEF ViewTasks, ShellTasks, AllTasks
<1> DEFINE new(k) == IF f[k] = Quiet \/ (k \in ViewTasks /\ gate' # gate) THEN Quiet
                     ELSE IF k # "owned" THEN f[k]
                     ELSE [f[k] EXCEPT !.revised = @ \/ invalidated,
                             !.moved = @ \/ Here(base', account') # Here(base, account)]
<1>5. inFlight' = [k \in AllTasks |-> new(k)]
  BY DEF Flying
<1>6. ASSUME NEW k \in AllTasks
      PROVE  Flies(k, new(k), base', gate', ended')
  <2>1. CASE f[k] = Quiet \/ (k \in ViewTasks /\ gate' # gate)
    <3>1. new(k) = Quiet
      BY <2>1
    <3> HIDE DEF new
    <3>2. QED
      BY <1>3, <3>1 DEF Flies
  <2>2. CASE f[k] # Quiet /\ (k \in ViewTasks => gate' = gate) /\ k # "owned"
    <3>1. new(k) = f[k]
      BY <2>2
    <3> HIDE DEF new
    <3>2. CASE f[k] = inFlight[k]
      <4>1. k \in ViewTasks => base' = base
        BY <2>2
      <4>2. k \in {"find", "sweep"} => ended' = ended
        BY <2>2
      <4>3. QED
        BY <1>1, <2>2, <3>1, <3>2, <4>1, <4>2 DEF Flies
    <3>3. CASE f[k] # inFlight[k]
      <4>1. /\ k \in ShellTasks
            /\ f[k].token # None => f[k].base \in Homes[f[k].token]
            /\ k = "find" => f[k].token \in Paired \ ended
        BY <2>2, <3>3 DEF May
      <4>2. k \notin ViewTasks /\ k # "sweep"
        BY <1>4, <4>1
      <4>3. k = "find" => ended' = ended
        BY <2>2
      <4>4. QED
        BY <1>2, <2>2, <3>1, <4>1, <4>2, <4>3 DEF Flies
    <3>4. QED
      BY <3>2, <3>3
  <2>3. CASE f[k] # Quiet /\ (k \in ViewTasks => gate' = gate) /\ k = "owned"
    <3> DEFINE r == inFlight[k]
               away == Here(base', account') # Here(base, account)
    <3>1. f[k] = r /\ r # Quiet /\ r \in Request /\ base' = base /\ gate' = gate
      <4>1. k \in ViewTasks /\ k \notin ShellTasks
        BY <1>4, <2>3
      <4>2. f[k] = r /\ gate' = gate
        BY <2>3, <4>1 DEF May
      <4>3. QED
        BY <1>1, <2>3, <4>1, <4>2
    <3>2. new(k) = [r EXCEPT !.revised = @ \/ invalidated, !.moved = @ \/ away]
      BY <2>3, <3>1
    <3>3. Flies(k, r, base, gate, ended)
      BY <1>1
    <3>4. away => invalidated
      OBVIOUS
    <3> HIDE DEF new, r, away
    <3>5. /\ r.base \in Addresses /\ r.token \in Tokens \cup {None}
          /\ r.revised \in BOOLEAN /\ r.moved \in BOOLEAN
          /\ r = [base |-> r.base, token |-> r.token, revised |-> r.revised, moved |-> r.moved]
      BY <3>1 DEF Request
    <3>6. new(k) = [base |-> r.base, token |-> r.token, revised |-> r.revised \/ invalidated,
                    moved |-> r.moved \/ away]
      BY <3>2, <3>5
    <3>7. new(k) \in Request /\ new(k).base = r.base /\ new(k).token = r.token
          /\ new(k).revised = (r.revised \/ invalidated) /\ new(k).moved = (r.moved \/ away)
      <4>1. (r.revised \/ invalidated) \in BOOLEAN /\ (r.moved \/ away) \in BOOLEAN
        OBVIOUS
      <4>2. QED
        BY <3>5, <3>6, <4>1 DEF Request
    <3>8. /\ gate # "connect" /\ gate \in {"open", "closed", "login"} /\ r.base = base
          /\ r.moved => r.revised
          /\ r.token # None => r.base \in Homes[r.token]
      BY <1>4, <2>3, <3>1, <3>3 DEF Flies
    <3>9. new(k).moved => new(k).revised
      BY <3>4, <3>7, <3>8
    <3>10. k \notin {"find", "sweep"}
      BY <2>3
    <3>11. QED
      BY <3>1, <3>7, <3>8, <3>9, <3>10 DEF Flies
  <2>4. QED
    BY <2>1, <2>2, <2>3
<1> HIDE DEF new
<1>7. \A k \in AllTasks : inFlight'[k] = new(k)
  BY <1>5
<1>8. \A k \in AllTasks : new(k) \in Request \cup {Quiet}
  BY <1>6 DEF Flies
<1>9. inFlight' \in [AllTasks -> Request \cup {Quiet}]
  BY <1>5, <1>8
<1>10. QED
  BY <1>6, <1>7, <1>9 DEF Flights

LEMMA MayRest ==
  ASSUME AInv, NEW ks
  PROVE  /\ May(Nothing) /\ May(inFlight) /\ May(Without(ks))
         /\ \A k \in AllTasks : Nothing[k] = Quiet
         /\ \A k \in AllTasks \cap ks : Without(ks)[k] = Quiet
<1>1. inFlight \in [AllTasks -> Request \cup {Quiet}]
  BY DEF AInv, Flights
<1>2. /\ Nothing \in [AllTasks -> Request \cup {Quiet}]
      /\ \A k \in AllTasks : Nothing[k] = Quiet
  BY DEF Nothing
<1>3. /\ Without(ks) \in [AllTasks -> Request \cup {Quiet}]
      /\ \A k \in AllTasks : Without(ks)[k] = IF k \in ks THEN Quiet ELSE inFlight[k]
  BY <1>1 DEF Without
<1>4. QED
  BY <1>1, <1>2, <1>3 DEF May

LEMMA MayAsk ==
  ASSUME NEW f, May(f), NEW b \in Addresses, NEW t \in Tokens \cup {None}, t # None => b \in Homes[t],
         NEW j \in ShellTasks, j = "find" => t \in Paired \ ended
  PROVE  /\ May([f EXCEPT ![j] = Asked(b, t)])
         /\ \A k \in AllTasks \ {j} : [f EXCEPT ![j] = Asked(b, t)][k] = f[k]
<1> DEFINE r == Asked(b, t)
           g == [f EXCEPT ![j] = r]
<1>1. r \in Request /\ r.base = b /\ r.token = t
  BY DEF Asked, Request
<1>2. f \in [AllTasks -> Request \cup {Quiet}] /\ j \in AllTasks
  BY DEF May, AllTasks
<1> HIDE DEF r
<1>3. g \in [AllTasks -> Request \cup {Quiet}] /\ g[j] = r /\ \A k \in AllTasks \ {j} : g[k] = f[k]
  BY <1>1, <1>2
<1> HIDE DEF g
<1>4. May(g)
  BY <1>1, <1>3 DEF May
<1>5. QED
  BY <1>3, <1>4 DEF g, r

\* A step that leaves f under way, where the session in use is sound afterwards.
LEMMA StepKeeps ==
  ASSUME AInv, base' \in Addresses, gate' \in Gates \ {"connect"}, Ledger',
         Sound(base', account', entries', Bad'),
         NEW f, NEW invalidated \in BOOLEAN, Flying(f, invalidated), May(f),
         ended' = ended \/ \A k \in {"find", "sweep"} : f[k] = Quiet,
         gate' = gate => base' = base \/ \A k \in ViewTasks : f[k] = Quiet,
         invalidated \/ Here(base', account') = Here(base, account)
  PROVE  AInv'
BY FlyingKeeps DEF AInv

LEMMA LedgerKept ==
  ASSUME AInv, UNCHANGED <<server, ended>>
  PROVE  Ledger' /\ Bad' = Bad
BY DEF AInv, Ledger, Bad

LEMMA SoundNow ==
  ASSUME AInv
  PROVE  /\ account \in Account /\ account.scope = base /\ account.token \in Tokens \cup {None}
         /\ account.token # None => base \in Homes[account.token]
         /\ account.token \notin ended
         /\ Kept(entries, Bad) /\ Sound(base, account, entries, Bad)
         /\ base \in Addresses /\ gate \in Gates
<1>1. account.token \in Tokens \cup {None}
  BY DEF AInv, Sound, Account
<1>2. None \notin ended
  BY AccountAssumption DEF AInv, Ledger
<1>3. QED
  BY <1>1, <1>2 DEF AInv, Sound, Bad

LEMMA FliesNow ==
  ASSUME AInv, NEW k \in AllTasks, Busy(k)
  PROVE  /\ inFlight[k] \in Request /\ inFlight[k].base \in Addresses
         /\ inFlight[k].token \in Tokens \cup {None}
         /\ gate # "connect"
         /\ inFlight[k].token # None => inFlight[k].base \in Homes[inFlight[k].token]
         /\ k \in ViewTasks => inFlight[k].base = base
         /\ k \in {"find", "sweep"} => inFlight[k].token \in Paired \ ended
<1>1. Flies(k, inFlight[k], base, gate, ended) /\ inFlight[k] # Quiet
  BY DEF AInv, Flights, Busy
<1>2. inFlight[k] \in Request
  BY <1>1 DEF Flies
<1>3. QED
  BY <1>1, <1>2 DEF Flies, Request

-----------------------------------------------------------------------------
(* The steps *)

\* The shell shown for a station restores the session remembered for it.
LEMMA ShowsKeeps ==
  ASSUME AInv, NEW b \in Addresses, NEW a, NEW es, Shows(b, a, es), Ledger', ended' = ended,
         Kept(es, Bad'), a.scope = b => Sound(b, a, es, Bad')
  PROVE  AInv'
<1> DEFINE r == Restored(a, es, b)
           t == r.account.token
           f == [Nothing EXCEPT !["gate"] = Asked(b, t)]
<1>1. Sound(b, r.account, r.entries, Bad')
  BY RestoredSound
<1>2. /\ base' = b /\ gate' = "checking" /\ account' = r.account /\ entries' = r.entries
      /\ Flying(f, TRUE)
  BY DEF Shows, Becomes
<1> HIDE DEF r
<1>3. t \in Tokens \cup {None} /\ (t # None => b \in Homes[t])
  BY <1>1 DEF Sound, Account
<1> HIDE DEF t
<1>4. May(f) /\ \A k \in ViewTasks \cup {"find", "sweep"} : f[k] = Quiet
  <2>1. /\ "gate" \in ShellTasks /\ "gate" # "find"
        /\ ViewTasks \cup {"find", "sweep"} \subseteq AllTasks \ {"gate"}
    BY DEF ShellTasks, ViewTasks, AllTasks
  <2>2. May(Nothing) /\ \A k \in AllTasks : Nothing[k] = Quiet
    BY MayRest
  <2>3. May(f) /\ \A k \in AllTasks \ {"gate"} : f[k] = Nothing[k]
    BY <1>3, <2>1, <2>2, MayAsk
  <2> HIDE DEF f
  <2>4. QED
    BY <2>1, <2>2, <2>3
<1> HIDE DEF f
<1>5. gate' \in Gates \ {"connect"}
  BY <1>2 DEF Gates
<1>6. QED
  BY <1>1, <1>2, <1>4, <1>5, StepKeeps

LEMMA SendKeeps ==
  ASSUME AInv, NEW k \in AllTasks \ {"find"}, Send(k), gate # "connect",
         k \in ViewTasks => gate \in {"open", "closed", "login"},
         k = "sweep" => account.token \in Paired
  PROVE  AInv'
<1> DEFINE r == Asked(base, account.token)
<1>1. /\ inFlight' = [inFlight EXCEPT ![k] = r]
      /\ UNCHANGED <<base, account, entries, gate, server, ended>>
  BY DEF Send
<1>2. /\ r \in Request /\ r.base = base /\ r.token = account.token /\ ~r.moved
  BY SoundNow DEF Asked, Request
<1> HIDE DEF r
<1>3. Flies(k, r, base, gate, ended)
  BY <1>2, SoundNow DEF Flies
<1>4. inFlight \in [AllTasks -> Request \cup {Quiet}]
  BY DEF AInv, Flights
<1>5. /\ inFlight' \in [AllTasks -> Request \cup {Quiet}]
      /\ \A j \in AllTasks : inFlight'[j] = IF j = k THEN r ELSE inFlight[j]
  BY <1>1, <1>2, <1>4
<1>6. \A j \in AllTasks : Flies(j, inFlight'[j], base, gate, ended)
  BY <1>3, <1>5 DEF AInv, Flights
<1>7. Flights'
  BY <1>1, <1>5, <1>6 DEF Flights
<1>8. QED
  BY <1>1, <1>7, LedgerKept DEF AInv

LEMMA LeaveForConnectKeeps ==
  ASSUME AInv, LeaveForConnect
  PROVE  AInv'
<1>1. /\ gate' = "connect" /\ inFlight' = Nothing /\ UNCHANGED <<base, account, entries, server, ended>>
  BY DEF LeaveForConnect
<1>2. Nothing \in [AllTasks -> Request \cup {Quiet}] /\ \A k \in AllTasks : Nothing[k] = Quiet
  BY DEF Nothing
<1>3. Quiet.token = None
  BY DEF Quiet
<1>4. Flights'
  BY <1>1, <1>2, <1>3 DEF Flights, Flies
<1>5. QED
  BY <1>1, <1>4, LedgerKept DEF AInv, Gates

LEMMA ResetDataKeeps ==
  ASSUME AInv, ResetData
  PROVE  AInv'
<1>1. /\ gate = "connect" /\ account' = Blank(account.scope) /\ entries' = <<>>
      /\ UNCHANGED <<base, gate, inFlight, server>>
      /\ ended' = ended \cup ({account.token} \cap Tokens) \cup {entries[i].token : i \in DOMAIN entries}
  BY DEF ResetData
<1>2. ended' \subseteq Tokens /\ server.unused \cap ended' = {}
  <2>1. entries \in Seq(Entry)
    BY SoundNow DEF Kept, Stores
  <2>2. \A i \in DOMAIN entries : entries[i].token \in Tokens
    <3>1. \A i \in DOMAIN entries : entries[i] \in Entry
      BY <2>1
    <3>2. QED
      BY <3>1 DEF Entry
  <2>3. \A i \in DOMAIN entries : entries[i].token \notin server.unused
    BY SoundNow DEF Kept, Bad
  <2>4. {account.token} \cap Tokens \cap server.unused = {}
    BY AccountAssumption DEF AInv, Sound, Bad
  <2>5. QED
    BY <1>1, <2>2, <2>3, <2>4 DEF AInv, Ledger
<1>3. Ledger'
  BY <1>1, <1>2 DEF AInv, Ledger
<1>4. Kept(<<>>, Bad')
  <2>1. <<>> \in Stores
    BY AccountAssumption DEF Stores
  <2>2. QED
    BY <2>1 DEF Kept
<1>5. Sound(base', account', entries', Bad')
  BY <1>1, <1>4, BlankIsAccount, SoundNow DEF Sound
<1>6. \A k \in AllTasks : inFlight[k] = Quiet
  BY <1>1, FliesNow DEF Busy
<1>7. Flights'
  BY <1>1, <1>6 DEF AInv, Flights, Flies
<1>8. QED
  BY <1>1, <1>3, <1>5, <1>7 DEF AInv

LEMMA ChooseStationKeeps ==
  ASSUME AInv, NEW b \in Addresses, ChooseStation(b)
  PROVE  AInv'
BY ShowsKeeps, SoundNow, LedgerKept DEF ChooseStation

LEMMA RestartKeeps ==
  ASSUME AInv, Restart
  PROVE  AInv'
<1>1. Shows(base, Blank(None), entries) /\ UNCHANGED <<server, ended>>
  BY DEF Restart
<1>2. Blank(None).scope # base
  BY SoundNow, AccountAssumption DEF Blank
<1>3. QED
  BY <1>1, <1>2, ShowsKeeps, SoundNow, LedgerKept

\* A status written by one of the shell's own requests.
LEMMA AnsweredKeeps ==
  ASSUME AInv, NEW k \in {"gate", "retry", "refresh"}, Busy(k), Answered(k, Without({k})),
         UNCHANGED <<base, server, ended>>, gate' \in Gates \ {"connect"}
  PROVE  AInv'
<1>1. k \in AllTasks
  BY DEF AllTasks, ShellTasks
<1>2. Sound(base, account', entries', Bad) /\ account'.token = account.token
  BY <1>1, FliesNow, SoundNow, AnsweredSound
<1>3. PICK differs \in BOOLEAN : Flying(Without({k}), differs)
  BY DEF Answered
<1>4. Here(base', account') = Here(base, account)
  BY <1>2 DEF Here
<1>5. QED
  BY <1>2, <1>3, <1>4, MayRest, StepKeeps, LedgerKept, SoundNow

\* A refusal clears the session in use, whoever's it is by now.
LEMMA ClearingKeeps ==
  ASSUME AInv, NEW ks, Becomes(Cleared(account, entries), Without(ks)),
         UNCHANGED <<base, server, ended>>, gate' \in Gates \ {"connect"}
  PROVE  AInv'
<1> DEFINE c == Cleared(account, entries)
<1>1. Sound(base, c.account, c.entries, Bad)
  <2> DEFINE all == Bad \cup ({account.token} \cap Tokens)
  <2>1. Sound(base, c.account, c.entries, all)
    BY SoundNow, ClearedSound
  <2>2. Bad \subseteq all
    OBVIOUS
  <2> HIDE DEF c, all
  <2>3. QED
    BY <2>1, <2>2, SoundOfFewer
<1>2. account' = c.account /\ entries' = c.entries /\ Flying(Without(ks), TRUE)
  BY DEF Becomes
<1> HIDE DEF c
<1>3. QED
  BY <1>1, <1>2, MayRest, StepKeeps, LedgerKept, SoundNow

\* A step that leaves the session alone.
LEMMA StayingKeeps ==
  ASSUME AInv, NEW f, Stays(f), May(f), UNCHANGED <<base, server, ended>>,
         gate' \in Gates \ {"connect"}
  PROVE  AInv'
<1>1. UNCHANGED <<account, entries>> /\ Flying(f, FALSE)
  BY DEF Stays
<1>2. Here(base', account') = Here(base, account)
  BY <1>1 DEF Here
<1>3. Sound(base', account', entries', Bad')
  BY <1>1, SoundNow, LedgerKept
<1>4. QED
  BY <1>1, <1>2, <1>3, StepKeeps, LedgerKept, SoundNow

LEMMA GateAnsweredKeeps ==
  ASSUME AInv, GateAnswered
  PROVE  AInv'
<1>1. Busy("gate") /\ UNCHANGED <<base, server, ended>> /\ Answered("gate", Without({"gate"}))
  BY DEF GateAnswered
<1>2. gate' \in Gates \ {"connect"}
  BY <1>1, FliesNow, SoundNow DEF GateAnswered, Gates, AllTasks, ShellTasks
<1>3. QED
  BY <1>1, <1>2, AnsweredKeeps

LEMMA GateFailsKeeps ==
  ASSUME AInv, GateFails
  PROVE  AInv'
<1> DEFINE asks == base = inFlight["gate"].base /\ account.token \in Paired
           rest == Without({"gate"})
           f == [rest EXCEPT !["find"] = IF asks THEN Asked(base, account.token) ELSE @]
<1>1. /\ Busy("gate") /\ UNCHANGED <<base, server, ended>> /\ Stays(f)
      /\ gate' = IF base = inFlight["gate"].base /\ ~asks THEN "failed" ELSE gate
  BY DEF GateFails
<1>2. "find" \in ShellTasks /\ "gate" \in AllTasks
  BY DEF ShellTasks, AllTasks
<1>3. gate' \in Gates \ {"connect"}
  BY <1>1, <1>2, FliesNow, SoundNow DEF Gates
<1>4. May(rest)
  BY MayRest
<1>5. May(f)
  <2>1. CASE asks
    <3>1. f = [rest EXCEPT !["find"] = Asked(base, account.token)]
      BY <2>1
    <3> HIDE DEF f, rest
    <3>2. account.token # None => account.token \in Paired \ ended
      BY <2>1, SoundNow
    <3>3. account.token # None
      BY <2>1, AccountAssumption
    <3>4. QED
      BY <1>2, <1>4, <3>1, <3>2, <3>3, MayAsk, SoundNow
  <2>2. CASE ~asks
    <3>1. f = [rest EXCEPT !["find"] = @]
      BY <2>2
    <3> HIDE DEF asks, rest
    <3>2. f = rest
      BY <1>4, <3>1 DEF May
    <3>3. QED
      BY <1>4, <3>2
  <2>3. QED
    BY <2>1, <2>2
<1> HIDE DEF f
<1>6. QED
  BY <1>1, <1>3, <1>5, StayingKeeps

LEMMA GateRefusedKeeps ==
  ASSUME AInv, GateRefused
  PROVE  AInv'
<1>1. /\ Busy("gate") /\ UNCHANGED <<base, server, ended>>
      /\ Becomes(Cleared(account, entries), Without({"gate"}))
  BY DEF GateRefused, Refused
<1>2. gate' \in Gates \ {"connect"}
  BY <1>1, FliesNow, SoundNow DEF GateRefused, Gates, AllTasks, ShellTasks
<1>3. QED
  BY <1>1, <1>2, ClearingKeeps

LEMMA FindsNothingKeeps ==
  ASSUME AInv, FindsNothing
  PROVE  AInv'
<1>1. Busy("find") /\ UNCHANGED <<base, server, ended>> /\ Stays(Without({"find"}))
  BY DEF FindsNothing
<1>2. gate' \in Gates \ {"connect"}
  BY <1>1, FliesNow, SoundNow DEF FindsNothing, Gates, AllTasks, ShellTasks
<1>3. QED
  BY <1>1, <1>2, MayRest, StayingKeeps

LEMMA RetryKeeps ==
  ASSUME AInv, Retry
  PROVE  AInv'
<1> DEFINE r == Asked(base, account.token)
           f == [inFlight EXCEPT !["retry"] = r]
           g == [f EXCEPT !["gate"] = r]
<1>1. gate' = "checking" /\ UNCHANGED <<base, server, ended>> /\ Stays(g)
  BY DEF Retry
<1>2. {"gate", "retry"} \subseteq ShellTasks
  BY DEF ShellTasks
<1>3. May(f)
  BY <1>2, MayRest, MayAsk, SoundNow
<1> HIDE DEF f
<1>4. May(g)
  BY <1>2, <1>3, MayAsk, SoundNow
<1> HIDE DEF g
<1>5. QED
  BY <1>1, <1>4, StayingKeeps DEF Gates

LEMMA RetryEndsKeeps ==
  ASSUME AInv, RetryEnds
  PROVE  AInv'
<1>1. Busy("retry") /\ UNCHANGED <<base, server, ended>>
  BY DEF RetryEnds
<1>2. CASE gate' \in {"open", "closed"} /\ Answered("retry", Without({"retry"}))
  BY <1>1, <1>2, AnsweredKeeps DEF Gates
<1>3. CASE gate' = "failed" /\ Stays(Without({"retry"}))
  BY <1>1, <1>3, MayRest, StayingKeeps DEF Gates
<1>4. CASE gate' = "failed" /\ Refused("retry", Without({"retry"}))
  BY <1>1, <1>4, ClearingKeeps DEF Refused, Gates
<1>5. QED
  BY <1>2, <1>3, <1>4 DEF RetryEnds

LEMMA RefreshEndsKeeps ==
  ASSUME AInv, RefreshEnds
  PROVE  AInv'
<1>1. Busy("refresh") /\ UNCHANGED <<base, server, ended>>
  BY DEF RefreshEnds
<1>2. gate \in Gates \ {"connect"}
  BY <1>1, FliesNow, SoundNow DEF AllTasks, ShellTasks
<1>3. CASE gate' \in {"open", "closed"} /\ Answered("refresh", Without({"refresh"}))
  BY <1>1, <1>3, AnsweredKeeps DEF Gates
<1>4. CASE UNCHANGED gate /\ Refused("refresh", Without({"refresh"}))
  BY <1>1, <1>2, <1>4, ClearingKeeps DEF Refused
<1>5. QED
  BY <1>3, <1>4 DEF RefreshEnds

LEMMA LoadEndsKeeps ==
  ASSUME AInv, LoadEnds
  PROVE  AInv'
<1>1. Busy("poll") /\ UNCHANGED <<base, gate, server, ended>>
  BY DEF LoadEnds
<1>2. gate \in Gates \ {"connect"}
  BY <1>1, FliesNow, SoundNow DEF AllTasks, ViewTasks
<1>3. CASE Stays(Without({"poll"}))
  BY <1>1, <1>2, <1>3, MayRest, StayingKeeps
<1>4. CASE Refused("poll", Without({"poll"}))
  BY <1>1, <1>2, <1>4, ClearingKeeps DEF Refused
<1>5. QED
  BY <1>3, <1>4 DEF LoadEnds

LEMMA SignInFailsKeeps ==
  ASSUME AInv, SignInFails
  PROVE  AInv'
<1>1. Busy("login") /\ UNCHANGED <<base, gate, server, ended>>
  BY DEF SignInFails
<1>2. gate \in Gates \ {"connect"}
  BY <1>1, FliesNow, SoundNow DEF AllTasks, ViewTasks
<1>3. CASE Stays(Without({"login"}))
  BY <1>1, <1>2, <1>3, MayRest, StayingKeeps
<1>4. CASE Becomes(Cleared(account, entries), Without({"login"}))
  BY <1>1, <1>2, <1>4, ClearingKeeps
<1>5. QED
  BY <1>3, <1>4 DEF SignInFails

LEMMA SweepFindsNothingKeeps ==
  ASSUME AInv, SweepFindsNothing
  PROVE  AInv'
<1>1. Busy("sweep") /\ UNCHANGED <<base, gate, server, ended>> /\ Stays(Without({"sweep"}))
  BY DEF SweepFindsNothing
<1>2. gate \in Gates \ {"connect"}
  BY <1>1, FliesNow, SoundNow DEF AllTasks, ViewTasks
<1>3. QED
  BY <1>1, <1>2, MayRest, StayingKeeps

\* A gesture that ends changes nothing else.
LEMMA OperateEndsKeeps ==
  ASSUME AInv, OperateEnds
  PROVE  AInv'
<1>1. /\ inFlight' = Without({"owned"}) /\ UNCHANGED <<base, account, entries, gate, server, ended>>
  BY DEF OperateEnds
<1>2. /\ inFlight' \in [AllTasks -> Request \cup {Quiet}]
      /\ \A k \in AllTasks : inFlight'[k] = Quiet \/ inFlight'[k] = inFlight[k]
  <2>1. inFlight \in [AllTasks -> Request \cup {Quiet}]
    BY DEF AInv, Flights
  <2>2. QED
    BY <1>1, <2>1 DEF Without
<1>3. Quiet.token = None
  BY DEF Quiet
<1>4. \A k \in AllTasks : Flies(k, inFlight'[k], base, gate, ended)
  BY <1>2, <1>3 DEF AInv, Flights, Flies
<1>5. Flights'
  BY <1>1, <1>2, <1>4 DEF Flights
<1>6. QED
  BY <1>1, <1>5, LedgerKept DEF AInv

\* The station of a paired token was found at b.
LEMMA MovesToKeeps ==
  ASSUME AInv, NEW b \in Addresses, NEW k \in {"find", "sweep"}, Busy(k),
         Finds(inFlight[k].token, b), NEW f, May(f), MovesTo(b, k, f),
         UNCHANGED <<server, ended>>, gate' \in Gates \ {"connect"},
         gate' = gate => b = base \/ \A j \in ViewTasks : f[j] = Quiet
  PROVE  AInv'
<1> DEFINE t == inFlight[k].token
           es == Restored(account, entries, b).entries
           r == Using(t, b, es)
<1>1. k \in AllTasks
  BY DEF AllTasks, ShellTasks, ViewTasks
<1>2. t \in Tokens /\ t \in Paired \ ended /\ b \in Homes[t]
  BY <1>1, FliesNow, AccountAssumption DEF Finds, Accepts
<1> HIDE DEF t
<1>3. t \notin Bad
  BY <1>2 DEF AInv, Ledger, Bad
<1>4. Kept(es, Bad)
  <2> DEFINE o == Restored(account, entries, b)
  <2>1. account.scope = b => Sound(b, account, entries, Bad)
    BY SoundNow
  <2>2. Sound(b, o.account, o.entries, Bad)
    BY <2>1, RestoredSound, SoundNow
  <2> HIDE DEF o
  <2>3. QED
    BY <2>2 DEF Sound, o
<1> HIDE DEF es
<1>5. Sound(b, r.account, r.entries, Bad)
  BY <1>2, <1>3, <1>4, UsingSound
<1>6. base' = b /\ account' = r.account /\ entries' = r.entries /\ Flying(f, TRUE)
  BY DEF MovesTo, Becomes, es, t
<1> HIDE DEF r
<1>7. QED
  BY <1>5, <1>6, StepKeeps, LedgerKept

LEMMA RecoversKeeps ==
  ASSUME AInv, NEW b \in Addresses, Recovers(b)
  PROVE  AInv'
<1> DEFINE t == inFlight["find"].token
           rest == Without({"find"})
           f == [rest EXCEPT !["gate"] = Asked(b, t)]
<1>1. Busy("find") /\ Finds(t, b) /\ UNCHANGED <<server, ended>>
  BY DEF Recovers
<1>2. CASE b = base
  <2>1. gate' = "open" /\ MovesTo(b, "find", rest)
    BY <1>2 DEF Recovers
  <2>2. May(rest)
    BY MayRest
  <2>3. QED
    BY <1>1, <1>2, <2>1, <2>2, MovesToKeeps DEF Gates
<1>3. CASE b # base
  <2>1. gate' = "checking" /\ MovesTo(b, "find", f)
    BY <1>3 DEF Recovers
  <2>2. /\ "gate" \in ShellTasks /\ "gate" # "find" /\ "find" \in AllTasks
        /\ ViewTasks \subseteq AllTasks \ {"gate", "find"}
    BY DEF ShellTasks, ViewTasks, AllTasks
  <2>3. t \in Tokens /\ b \in Homes[t]
    BY <1>1, <2>2, FliesNow, AccountAssumption DEF Finds, Accepts
  <2> HIDE DEF t
  <2>4. May(rest) /\ \A j \in ViewTasks : rest[j] = inFlight[j]
    <3>1. inFlight \in [AllTasks -> Request \cup {Quiet}]
      BY DEF AInv, Flights
    <3>2. QED
      BY <2>2, <3>1, MayRest DEF Without
  <2> HIDE DEF rest
  <2>5. May(f) /\ \A j \in ViewTasks : f[j] = inFlight[j]
    <3>1. May(f) /\ \A j \in AllTasks \ {"gate"} : f[j] = rest[j]
      BY <2>2, <2>3, <2>4, MayAsk
    <3> HIDE DEF f
    <3>2. QED
      BY <2>2, <2>4, <3>1
  <2> HIDE DEF f
  <2>6. gate = "checking" => \A j \in ViewTasks : inFlight[j] = Quiet
    BY <2>2 DEF AInv, Flights, Flies
  <2>7. QED
    BY <1>1, <2>1, <2>5, <2>6, MovesToKeeps DEF Gates, t
<1>4. QED
  BY <1>2, <1>3

LEMMA SweepEndsKeeps ==
  ASSUME AInv, NEW b \in Addresses, SweepEnds(b)
  PROVE  AInv'
<1> DEFINE t == inFlight["sweep"].token
           rest == Without(ViewTasks)
           f == [rest EXCEPT !["gate"] = Asked(b, t)]
<1>1. Busy("sweep") /\ Finds(t, b) /\ UNCHANGED <<server, ended>>
  BY DEF SweepEnds
<1>2. /\ "gate" \in ShellTasks /\ "gate" # "find" /\ "sweep" \in AllTasks
      /\ ViewTasks \subseteq AllTasks \ {"gate"}
  BY DEF ShellTasks, ViewTasks, AllTasks
<1>3. gate \in Gates \ {"connect"}
  BY <1>1, <1>2, FliesNow, SoundNow
<1>4. CASE b = base
  <2>1. gate' = gate /\ MovesTo(b, "sweep", Without({"sweep"}))
    BY <1>4 DEF SweepEnds
  <2>2. May(Without({"sweep"}))
    BY MayRest
  <2>3. QED
    BY <1>1, <1>3, <1>4, <2>1, <2>2, MovesToKeeps
<1>5. CASE b # base
  <2>1. gate' = "checking" /\ MovesTo(b, "sweep", f)
    BY <1>5 DEF SweepEnds
  <2>2. t \in Tokens /\ b \in Homes[t]
    BY <1>1, <1>2, FliesNow, AccountAssumption DEF Finds, Accepts
  <2> HIDE DEF t
  <2>3. May(rest) /\ \A j \in ViewTasks : rest[j] = Quiet
    BY <1>2, MayRest
  <2> HIDE DEF rest
  <2>4. May(f) /\ \A j \in ViewTasks : f[j] = Quiet
    <3>1. May(f) /\ \A j \in AllTasks \ {"gate"} : f[j] = rest[j]
      BY <1>2, <2>2, <2>3, MayAsk
    <3> HIDE DEF f
    <3>2. QED
      BY <1>2, <2>3, <3>1
  <2> HIDE DEF f
  <2>5. QED
    BY <1>1, <2>1, <2>4, MovesToKeeps DEF Gates, t
<1>6. QED
  BY <1>4, <1>5

\* A login is answered by the station it was sent to, and that is this one.
LEMMA SignedInKeeps ==
  ASSUME AInv, NEW t \in Tokens, SignedIn(t)
  PROVE  AInv'
<1> DEFINE b == inFlight["login"].base
           r == Using(t, b, entries)
<1>1. /\ Busy("login") /\ t \in server.unused /\ b \in Homes[t] /\ ended' = ended
      /\ server' = [valid |-> server.valid \cup {t}, unused |-> server.unused \ {t}]
  BY DEF SignedIn
<1>2. "login" \in AllTasks /\ "login" \in ViewTasks
  BY DEF AllTasks, ViewTasks
<1>3. b = base /\ b \in Addresses /\ gate \in Gates \ {"connect"}
  BY <1>1, <1>2, FliesNow, SoundNow
<1>4. Ledger'
  BY <1>1 DEF AInv, Ledger
<1>5. Bad' \subseteq Bad /\ t \notin Bad'
  BY <1>1 DEF AInv, Ledger, Bad
<1>6. Kept(entries, Bad')
  BY <1>5, SoundNow DEF Kept
<1>7. CASE gate = "login"
  <2>1. Shows(base, r.account, r.entries)
    BY <1>7 DEF SignedIn
  <2> HIDE DEF b
  <2>2. Sound(b, r.account, r.entries, Bad')
    BY <1>1, <1>3, <1>5, <1>6, UsingSound
  <2> HIDE DEF r
  <2>3. Kept(r.entries, Bad')
    BY <2>2 DEF Sound
  <2>4. QED
    BY <1>1, <1>3, <1>4, <2>1, <2>2, <2>3, ShowsKeeps
<1>8. CASE gate # "login"
  <2>1. UNCHANGED <<base, gate>> /\ Becomes(r, Without({"login", "sweep"}))
    BY <1>8 DEF SignedIn
  <2> HIDE DEF b
  <2>2. Sound(b, r.account, r.entries, Bad')
    BY <1>1, <1>3, <1>5, <1>6, UsingSound
  <2>3. account' = r.account /\ entries' = r.entries /\ Flying(Without({"login", "sweep"}), TRUE)
    BY <2>1 DEF Becomes
  <2> HIDE DEF r
  <2>4. Sound(base', account', entries', Bad')
    BY <1>3, <2>1, <2>2, <2>3
  <2>5. QED
    BY <1>1, <1>3, <1>4, <2>1, <2>3, <2>4, MayRest, StepKeeps
<1>9. QED
  BY <1>7, <1>8

LEMMA SignedOutKeeps ==
  ASSUME AInv, SignedOut
  PROVE  AInv'
<1> DEFINE c == Cleared(account, entries)
           all == Bad \cup ({account.token} \cap Tokens)
<1>1. /\ gate' = "login" /\ base' = base
      /\ ended' = ended \cup ({account.token} \cap Tokens)
      /\ account' = c.account /\ entries' = c.entries /\ Flying(Nothing, TRUE)
  BY DEF SignedOut, Becomes
<1>2. server'.unused = server.unused /\ server' \in [valid : SUBSET Tokens, unused : SUBSET Tokens]
  <2>1. server' \in {server, [server EXCEPT !.valid = @ \ {inFlight["logout"].token}]}
    BY DEF SignedOut
  <2>2. QED
    BY <2>1 DEF AInv, Ledger
<1>3. Sound(base, c.account, c.entries, all)
  BY SoundNow, ClearedSound
<1> HIDE DEF c
<1>4. Bad' = all
  BY <1>1, <1>2 DEF Bad
<1>5. Ledger'
  <2>1. account.token \notin server.unused
    BY AccountAssumption, SoundNow DEF AInv, Ledger, Sound, Bad
  <2>2. QED
    BY <1>1, <1>2, <2>1 DEF AInv, Ledger
<1>6. \A k \in ViewTasks \cup {"find", "sweep"} : Nothing[k] = Quiet
  BY MayRest DEF ViewTasks, ShellTasks, AllTasks
<1> HIDE DEF all
<1>7. QED
  BY <1>1, <1>3, <1>4, <1>5, <1>6, MayRest, StepKeeps, SoundNow DEF Gates

LEMMA ExpiresKeeps ==
  ASSUME AInv, NEW t \in Tokens, Expires(t)
  PROVE  AInv'
<1>1. /\ server' = [server EXCEPT !.valid = @ \ {t}]
      /\ UNCHANGED <<base, account, entries, gate, inFlight, ended>>
  BY DEF Expires
<1>2. server'.unused = server.unused /\ Ledger'
  BY <1>1 DEF AInv, Ledger
<1>3. Bad' = Bad /\ Flights'
  BY <1>1, <1>2 DEF AInv, Bad, Flights
<1>4. QED
  BY <1>1, <1>2, <1>3 DEF AInv

-----------------------------------------------------------------------------
(* The start *)

\* What an earlier process remembered, restored by this one: an entry of a station,
\* or one without a station, which the station of this process adopts.
LEMMA FirstSound ==
  ASSUME NEW bad \in SUBSET Tokens, NEW b \in Addresses, NEW es \in {<<>>} \cup {<<e>> : e \in Entry},
         \A i \in DOMAIN es :
            /\ es[i].token \notin bad
            /\ (IF es[i].scope = Unscoped THEN b ELSE es[i].scope) \in Homes[es[i].token]
  PROVE  LET r == Restored(Blank(None), es, b) IN Sound(b, r.account, r.entries, bad)
<1> DEFINE r == Restored(Blank(None), es, b)
<1>1. Blank(None).scope # b /\ Limit \in Nat \ {0} /\ Unscoped \notin Addresses
  BY AccountAssumption DEF Blank
<1>2. Kept(<<>>, bad)
  <2>1. <<>> \in Stores
    BY AccountAssumption DEF Stores
  <2>2. QED
    BY <2>1 DEF Kept
<1>3. CASE es = <<>>
  BY <1>1, <1>2, <1>3, RestoredSound
<1>4. ASSUME NEW e \in Entry, es = <<e>>
      PROVE  Sound(b, r.account, r.entries, bad)
  <2>1. es \in Seq(Entry) /\ Len(es) = 1 /\ DOMAIN es = {1} /\ es[1] = e
    BY <1>4
  <2>2. e.token \in Tokens /\ e.scope \in Addresses \cup {Unscoped}
    BY DEF Entry
  <2>3. es \in Stores
    <3>1. Len(es) <= Limit
      BY <1>1, <2>1
    <3>2. \A i, j \in DOMAIN es : i = j
      BY <2>1
    <3>3. QED
      BY <2>1, <3>1, <3>2 DEF Stores
  <2>4. e.token \notin bad /\ (IF e.scope = Unscoped THEN b ELSE e.scope) \in Homes[e.token]
    BY <2>1
  <2>5. CASE e.scope # Unscoped
    <3>1. Kept(es, bad)
      BY <2>1, <2>3, <2>4, <2>5 DEF Kept
    <3>2. QED
      BY <1>1, <3>1, RestoredSound
  <2>6. CASE e.scope = Unscoped
    <3>1. {i \in DOMAIN es : es[i].scope = b} = {} /\ {i \in DOMAIN es : es[i].scope = Unscoped} = {1}
          /\ {i \in DOMAIN es : es[i].scope # Unscoped} = {}
      BY <1>1, <2>1, <2>6
    <3>2. Cardinality({}) = 0 /\ Cardinality({1}) = 1
      BY FS_EmptySet, FS_Singleton
    <3>3. EntriesAt(es, {}) = <<>>
      <4>1. EntriesAt(es, {}) \in Seq(Entry) /\ Len(EntriesAt(es, {})) = 0
        BY <2>1, <3>2, EntriesAtTyped
      <4>2. QED
        BY <4>1
    <3>4. EntriesOf(es, b) = <<>> /\ Others(es, Unscoped) = <<>>
          /\ EntriesOf(es, Unscoped) = EntriesAt(es, {1})
      BY <3>1, <3>3 DEF EntriesOf, Others
    <3> DEFINE f == EntriesAt(es, {1})
    <3>5. f \in Seq(Entry) /\ Len(f) = 1 /\ \A k \in DOMAIN f : f[k] = e
      <4>1. f \in Seq(Entry) /\ Len(f) = 1 /\ \A k \in DOMAIN f : \E i \in {1} : f[k] = es[i]
        BY <2>1, <3>2, EntriesAtTyped
      <4>2. QED
        BY <2>1, <4>1
    <3> HIDE DEF f
    <3>6. f # <<>> /\ Head(f) = e
      BY <3>5
    <3>7. Found(es, b) = f
      BY <3>4 DEF Found, f
    <3>8. /\ r.account = [token |-> e.token, scope |-> b, from |-> b]
          /\ r.entries = Stored(<<>>, b, e.token)
      BY <1>1, <2>6, <3>4, <3>6, <3>7 DEF Restored
    <3> HIDE DEF r
    <3>9. b \in Homes[e.token]
      BY <2>4, <2>6
    <3>10. /\ Kept(r.entries, bad)
           /\ \E i \in DOMAIN r.entries : r.entries[i] = [scope |-> b, token |-> e.token]
      BY <1>2, <2>2, <2>4, <3>8, <3>9, StoredKept
    <3>11. r.account \in Account /\ r.account.token = e.token /\ r.account.scope = b
      BY <2>2, <3>8 DEF Account
    <3>12. QED
      BY <2>4, <3>9, <3>10, <3>11 DEF Sound
  <2>7. QED
    BY <2>5, <2>6
<1>5. QED
  BY <1>3, <1>4

LEMMA AccountStart ==
  ASSUME AccountInit
  PROVE  AInv
<1>1. /\ server \in [valid : SUBSET Tokens, unused : SUBSET (Tokens \ Paired)]
      /\ ended = {} /\ base \in Addresses
  BY DEF AccountInit
<1>2. PICK es \in {<<>>} \cup {<<e>> : e \in Entry} :
         /\ \A i \in DOMAIN es :
              /\ es[i].token \notin server.unused
              /\ (IF es[i].scope = Unscoped THEN base ELSE es[i].scope) \in Homes[es[i].token]
         /\ account = Restored(Blank(None), es, base).account
         /\ entries = Restored(Blank(None), es, base).entries
         /\ gate = "checking"
         /\ inFlight = [Nothing EXCEPT !["gate"] = Asked(base, account.token)]
  BY DEF AccountInit
<1>3. Bad = server.unused /\ Bad \in SUBSET Tokens
  BY <1>1 DEF Bad
<1>4. Sound(base, account, entries, Bad)
  BY <1>1, <1>2, <1>3, FirstSound
<1>5. Ledger
  BY <1>1 DEF Ledger
<1> DEFINE q == Asked(base, account.token)
<1>6. q \in Request /\ q.base = base /\ q.token = account.token
  BY <1>1, <1>4 DEF Asked, Request, Sound, Account
<1> HIDE DEF q
<1>7. /\ inFlight \in [AllTasks -> Request \cup {Quiet}]
      /\ \A k \in AllTasks : inFlight[k] = IF k = "gate" THEN q ELSE Quiet
  BY <1>2, <1>6 DEF Nothing, q
<1>8. Quiet.token = None
  BY DEF Quiet
<1>9. \A k \in AllTasks : Flies(k, inFlight[k], base, gate, ended)
  <2>1. ASSUME NEW k \in AllTasks, k = "gate"
        PROVE  Flies(k, q, base, gate, ended)
    BY <1>2, <1>4, <1>6, <2>1 DEF Flies, Sound, ViewTasks
  <2>2. ASSUME NEW k \in AllTasks
        PROVE  Flies(k, Quiet, base, gate, ended)
    BY <1>8 DEF Flies
  <2>3. QED
    BY <1>7, <2>1, <2>2
<1>10. QED
  BY <1>1, <1>2, <1>4, <1>5, <1>7, <1>9 DEF AInv, Flights, Gates

LEMMA AccountStep ==
  ASSUME AInv, [AccountNext]_accountVars
  PROVE  AInv'
<1>1. CASE UNCHANGED accountVars
  <2>1. UNCHANGED <<base, account, entries, gate, inFlight, server, ended>>
    BY <1>1 DEF accountVars
  <2>2. Ledger' /\ Bad' = Bad /\ Flights'
    BY <2>1 DEF AInv, Ledger, Bad, Flights
  <2>3. QED
    BY <2>1, <2>2 DEF AInv
<1>2. CASE LeaveForConnect \/ Restart \/ ResetData
  BY <1>2, LeaveForConnectKeeps, RestartKeeps, ResetDataKeeps
<1>3. CASE GateAnswered \/ GateFails \/ GateRefused \/ FindsNothing \/ Retry \/ RetryEnds
  BY <1>3, GateAnsweredKeeps, GateFailsKeeps, GateRefusedKeeps, FindsNothingKeeps,
     RetryKeeps, RetryEndsKeeps
<1>4. CASE Refresh \/ Load \/ Operate \/ Sweep \/ SignIn \/ SignOut
  <2>1. /\ {"refresh", "poll", "owned", "sweep", "login", "logout"} \subseteq AllTasks \ {"find"}
        /\ "refresh" \notin ViewTasks
    BY DEF AllTasks, ShellTasks, ViewTasks
  <2>2. CASE Refresh
    BY <2>1, <2>2, SendKeeps DEF Refresh, InShell
  <2>3. CASE Load
    BY <2>1, <2>3, SendKeeps DEF Load, Mounted
  <2>4. CASE Operate
    BY <2>1, <2>4, SendKeeps DEF Operate
  <2>5. CASE Sweep
    BY <2>1, <2>5, SendKeeps DEF Sweep, Mounted
  <2>6. CASE SignIn
    BY <2>1, <2>6, SendKeeps DEF SignIn
  <2>7. CASE SignOut
    BY <2>1, <2>7, SendKeeps DEF SignOut
  <2>8. QED
    BY <1>4, <2>2, <2>3, <2>4, <2>5, <2>6, <2>7
<1>5. CASE RefreshEnds \/ LoadEnds \/ OperateEnds \/ SweepFindsNothing
  BY <1>5, RefreshEndsKeeps, LoadEndsKeeps, OperateEndsKeeps, SweepFindsNothingKeeps
<1>6. CASE SignInFails \/ SignedOut
  BY <1>6, SignInFailsKeeps, SignedOutKeeps
<1>7. ASSUME NEW b \in Addresses, ChooseStation(b) \/ Recovers(b) \/ SweepEnds(b)
      PROVE  AInv'
  BY <1>7, ChooseStationKeeps, RecoversKeeps, SweepEndsKeeps
<1>8. ASSUME NEW t \in Tokens, SignedIn(t) \/ Expires(t)
      PROVE  AInv'
  BY <1>8, SignedInKeeps, ExpiresKeeps
<1>9. QED
  BY <1>1, <1>2, <1>3, <1>4, <1>5, <1>6, <1>7, <1>8 DEF AccountNext

-----------------------------------------------------------------------------
(* The theorems *)

\* In every state of the app the session in use and the remembered ones are sound
\* and every request under way is one its page and its token allow.
THEOREM AccountInvariance == AccountSpec => []AInv
BY AccountStart, AccountStep, PTL DEF AccountSpec

\* Every variable keeps its type, the store its limit and each address one entry.
THEOREM AccountTypes == AccountSpec => []AccountTypeOK
<1>1. AInv => AccountTypeOK
  <2>1. ASSUME AInv
        PROVE  AccountTypeOK
    <3>1. entries \in Stores /\ account \in Account /\ base \in Addresses /\ gate \in Gates
      BY <2>1, SoundNow DEF Kept
    <3>2. inFlight \in [AllTasks -> Request \cup {Quiet}]
      BY <2>1 DEF AInv, Flights
    <3>3. Ledger
      BY <2>1 DEF AInv
    <3>4. QED
      BY <3>1, <3>2, <3>3 DEF AccountTypeOK, Stores, Ledger
  <2>2. QED
    BY <2>1
<1>2. QED
  BY <1>1, AccountInvariance, PTL

\* No token is sent to a station that does not accept it, nor remembered for one:
\* what is restored, adopted, recovered or answered late keeps to its stations.
THEOREM TokensStayHome == AccountSpec => []TokenStaysHome
<1>1. AInv => TokenStaysHome
  <2>1. ASSUME AInv
        PROVE  TokenStaysHome
    <3>1. \A k \in AllTasks : inFlight[k].token # None => inFlight[k].base \in Homes[inFlight[k].token]
      BY <2>1 DEF AInv, Flights, Flies
    <3>2. \A i \in DOMAIN entries : entries[i].scope \in Homes[entries[i].token]
      BY <2>1, SoundNow DEF Kept
    <3>3. QED
      BY <3>1, <3>2 DEF TokenStaysHome
  <2>2. QED
    BY <2>1
<1>2. QED
  BY <1>1, AccountInvariance, PTL

\* A token that was signed out or erased is neither in use nor remembered again.
THEOREM SignedOutForGood == AccountSpec => []SignOutLasts
<1>1. AInv => SignOutLasts
  <2>1. ASSUME AInv
        PROVE  SignOutLasts
    <3>1. account.token \notin ended /\ \A i \in DOMAIN entries : entries[i].token \notin Bad
      BY <2>1, SoundNow DEF Kept
    <3>2. QED
      BY <3>1 DEF SignOutLasts, Bad
  <2>2. QED
    BY <2>1
<1>2. QED
  BY <1>1, AccountInvariance, PTL

\* A session that may be remembered and is in use is the remembered one of its
\* address, after every write of the store and every handover.
THEOREM SessionIsRemembered == AccountSpec => []RememberedIsCurrent
<1>1. AInv => RememberedIsCurrent
  BY DEF AInv, Sound, RememberedIsCurrent
<1>2. QED
  BY <1>1, AccountInvariance, PTL

\* An answer that a gesture still takes was asked for by this login at this station,
\* with no other in between.
THEOREM OwnedAnswersAreOurs == AccountSpec => []OwnedAnswerIsOurs
<1>1. AInv => OwnedAnswerIsOurs
  <2>1. ASSUME AInv, Busy("owned"), Mine(inFlight["owned"])
        PROVE  ~inFlight["owned"].moved
    <3>1. "owned" \in AllTasks
      BY DEF AllTasks, ViewTasks
    <3>2. inFlight["owned"].moved => inFlight["owned"].revised
      BY <2>1, <3>1 DEF AInv, Flights, Flies, Busy
    <3>3. QED
      BY <2>1, <3>2 DEF Mine
  <2>2. QED
    BY <2>1 DEF OwnedAnswerIsOurs
<1>2. QED
  BY <1>1, AccountInvariance, PTL

=============================================================================
