--------------------------- MODULE AccountSession ---------------------------
(***************************************************************************)
(* Whose session the app uses and on which station (auth.rs, the shell's   *)
(* Dashboard and login card in app.rs, paired-station recovery): one       *)
(* session in memory, one remembered per station address, and requests     *)
(* that are answered after the operator, the station or the page changed.  *)
(*                                                                         *)
(* A change of the base URL and the rerender of the shell it causes are    *)
(* one step: the runtime renders before it polls another task.             *)
(***************************************************************************)
EXTENDS Naturals, FiniteSets, SequencesExt

CONSTANTS
  Addresses,   \* base URLs of stations, each its own host scope
  Tokens,
  Homes,       \* the addresses that accept each token
  Paired,      \* installation tokens ("paired1."), good at every peer
  Remembered,  \* tokens stored with remember_me
  Unscoped,    \* the scope of an entry written by an earlier version
  None,        \* no token, no scope, no answer
  Limit,       \* AUTH_STORAGE_LIMIT
  MaxInFlight  \* bound: how many requests are under way at once

VARIABLES
  base,        \* the configured station
  account,     \* the token in use, its host scope, and whose answer the status is
  entries,     \* the remembered sessions, oldest first
  gate,        \* what the shell shows
  inFlight,    \* the requests under way, by the task that awaits them
  server,      \* the tokens the stations accept, and those not yet issued
  ended        \* the tokens the operator signed out or erased

accountVars == <<base, account, entries, gate, inFlight, server, ended>>

ShellTasks == {"gate", "retry", "refresh", "find"}      \* scope of Dashboard
ViewTasks == {"poll", "owned", "login", "logout", "sweep"}  \* scope of its child
AllTasks == ShellTasks \cup ViewTasks

\* The tasks that check nothing when they are answered.
Plain == {"gate", "retry", "refresh", "poll"}

Quiet == [token |-> None]
Request == [base : Addresses, token : Tokens \cup {None}, revised : BOOLEAN,
            moved : BOOLEAN]
Entry == [scope : Addresses \cup {Unscoped}, token : Tokens]
Account == [token : Tokens \cup {None}, scope : Addresses \cup {None},
            from : Addresses \cup {None}]

ASSUME AccountAssumption ==
  /\ Homes \in [Tokens -> SUBSET Addresses]
  /\ Paired \subseteq Tokens /\ Remembered \subseteq Tokens
  /\ \A t \in Tokens \ Paired : \A a, b \in Homes[t] : a = b
  /\ None \notin Tokens \cup Addresses /\ Unscoped \notin Addresses
  /\ Limit \in Nat \ {0} /\ MaxInFlight \in Nat

-----------------------------------------------------------------------------
(* Remembered sessions *)

\* The entries at the positions I, in their order.  (A filter whose every element
\* has a definition of its own, for the proofs.)
EntriesAt(es, I) ==
  [k \in 1..Cardinality(I) |-> es[CHOOSE i \in I : Cardinality({j \in I : j <= i}) = k]]

EntriesOf(es, s) == EntriesAt(es, {i \in DOMAIN es : es[i].scope = s})
Others(es, s) == EntriesAt(es, {i \in DOMAIN es : es[i].scope # s})
Forgetting(es, t) == EntriesAt(es, {i \in DOMAIN es : es[i].token # t})

\* Mutant: the newest entry is dropped.
PrunedNewest(es) == IF Len(es) > Limit THEN SubSeq(es, 1, Limit) ELSE es

\* prune_store
Pruned(es) == IF Len(es) > Limit THEN SubSeq(es, Len(es) - Limit + 1, Len(es)) ELSE es

\* write_storage_session: the newest entry, and the oldest ones dropped.
Stored(es, s, t) == Pruned(Append(Others(es, s), [scope |-> s, token |-> t]))

Blank(s) == [token |-> None, scope |-> s, from |-> None]

\* Mutant: the session last remembered, wherever it is from.
FoundAny(es, s) == IF EntriesOf(es, s) # <<>> THEN EntriesOf(es, s) ELSE Reverse(es)

\* The entry of a scope, or one without a scope, which the scope then adopts.
Found(es, s) ==
  IF EntriesOf(es, s) # <<>> THEN EntriesOf(es, s) ELSE EntriesOf(es, Unscoped)

\* init_from_storage: nothing when the scope is the one in use.
Restored(a, es, b) ==
  IF a.scope = b THEN [account |-> a, entries |-> es]
  ELSE LET f == Found(es, b)
       IN  IF f = <<>> THEN [account |-> Blank(b), entries |-> es]
           ELSE [account |-> [token |-> Head(f).token, scope |-> b, from |-> b],
                 entries |-> Stored(Others(es, Head(f).scope), b, Head(f).token)]

\* set_current_session
Using(t, s, es) ==
  [account |-> [token |-> t, scope |-> s, from |-> s],
   entries |-> IF t \in Remembered THEN Stored(es, s, t) ELSE Others(es, s)]

\* Mutant: a signed-out installation token stays remembered for its peers.
ClearedHere(a, es) == [account |-> Blank(a.scope), entries |-> Others(es, a.scope)]

\* clear_current_session: a paired token is forgotten under every address.
Cleared(a, es) ==
  [account |-> Blank(a.scope),
   entries |-> LET here == Others(es, a.scope)
               IN  IF a.token \in Paired THEN Forgetting(here, a.token)
                   ELSE here]

-----------------------------------------------------------------------------
(* Requests under way *)

Here(b, a) == <<b, a.token>>
Busy(k) == inFlight[k] # Quiet
Free(k) == ~Busy(k) /\ Cardinality({j \in AllTasks : Busy(j)}) < MaxInFlight
Nothing == [k \in AllTasks |-> Quiet]
Asked(b, t) == [base |-> b, token |-> t, revised |-> FALSE, moved |-> FALSE]
Without(ks) == [k \in AllTasks |-> IF k \in ks THEN Quiet ELSE inFlight[k]]

\* Another page takes the tasks of the one before with it.  For the request of a
\* gesture: has REQUEST_REVISION been invalidated, and (history) have station or
\* token changed since it was sent?
Flying(f, invalidated) ==
  inFlight' = [k \in AllTasks |->
    IF f[k] = Quiet \/ (k \in ViewTasks /\ gate' # gate) THEN Quiet
    ELSE IF k # "owned" THEN f[k]
    ELSE [f[k] EXCEPT !.revised = @ \/ invalidated,
                      !.moved = @ \/ Here(base', account') # Here(base, account)]]

\* Mutant: the session is replaced and the revision is not.
BecomesQuietly(r, f) ==
  account' = r.account /\ entries' = r.entries /\ Flying(f, FALSE)

\* Every change of the session invalidates the revision.
Becomes(r, f) == account' = r.account /\ entries' = r.entries /\ Flying(f, TRUE)

Stays(f) == UNCHANGED <<account, entries>> /\ Flying(f, FALSE)

Send(k) == /\ Free(k)
           /\ inFlight' = [inFlight EXCEPT ![k] = Asked(base, account.token)]
           /\ UNCHANGED <<base, account, entries, gate, server, ended>>

InShell == gate \notin {"connect", "login"}
Mounted == gate \in {"open", "closed"}
Gates == {"connect", "login", "checking", "open", "closed", "failed"}

Accepts(b, t) == t \in server.valid /\ b \in Homes[t]

-----------------------------------------------------------------------------
(* Start, pages *)

\* The shell is shown for station b: its session is restored and the origin is
\* asked for its status, whatever tasks were kept.
Shows(b, a, es) ==
  LET r == Restored(a, es, b)
  IN  /\ base' = b
      /\ gate' = "checking"
      /\ Becomes(r, [Nothing EXCEPT !["gate"] = Asked(b, r.account.token)])

\* A process starts on the stored address.  What it finds was remembered by an
\* earlier one: a session of each address, or one without an address.
AccountInit ==
  /\ server \in [valid : SUBSET Tokens, unused : SUBSET (Tokens \ Paired)]
  /\ server.valid \cap server.unused = {}
  /\ ended = {}
  /\ base \in Addresses
  /\ \E es \in {<<>>} \cup {<<e>> : e \in Entry} :
       /\ \A i \in DOMAIN es :
            /\ es[i].token \notin server.unused
            /\ (IF es[i].scope = Unscoped THEN base ELSE es[i].scope) \in Homes[es[i].token]
       /\ LET r == Restored(Blank(None), es, base)
          IN  /\ account = r.account
              /\ entries = r.entries
              /\ gate = "checking"
              /\ inFlight = [Nothing EXCEPT !["gate"] = Asked(base, r.account.token)]

\* The connect page, where a station is chosen; every task of the shell ends.
LeaveForConnect ==
  /\ gate # "connect"
  /\ gate' = "connect"
  /\ inFlight' = Nothing
  /\ UNCHANGED <<base, account, entries, server, ended>>

ChooseStation(b) ==
  /\ gate = "connect"
  /\ Shows(b, account, entries)
  /\ UNCHANGED <<server, ended>>

Restart ==
  /\ Shows(base, Blank(None), entries)
  /\ UNCHANGED <<server, ended>>

\* Reset app data, on the settings page: what is erased has been given up.
ResetData ==
  /\ gate = "connect"
  /\ account' = Blank(account.scope)
  /\ entries' = <<>>
  /\ ended' = ended \cup ({account.token} \cap Tokens) \cup {entries[i].token : i \in DOMAIN entries}
  /\ UNCHANGED <<base, gate, inFlight, server>>

-----------------------------------------------------------------------------
(* The status of the session *)

\* fetch_session_status writes the answer before its callers look at anything.
\* It invalidates the revision when the grants differ from those before.
Answered(k, f) ==
  /\ account' = [account EXCEPT !.from = inFlight[k].base]
  /\ entries' = IF account.token \in Remembered
                THEN Stored(entries, account.scope, account.token) ELSE entries
  /\ \E differs \in BOOLEAN : Flying(f, differs)

\* A 401, for a token the station does not accept or for none: the session that
\* is current by now is cleared.
Refused(k, f) ==
  /\ ~Accepts(inFlight[k].base, inFlight[k].token)
  /\ Becomes(Cleared(account, entries), f)

GateAnswered ==
  /\ Busy("gate")
  /\ IF inFlight["gate"].base = base THEN gate' \in {"open", "closed"} ELSE UNCHANGED gate
  /\ UNCHANGED <<base, server, ended>>
  /\ Answered("gate", Without({"gate"}))

\* No answer: an installation-paired station is looked for, if the token in use
\* is such a one and the station has not been changed.
GateFails ==
  /\ Busy("gate")
  /\ UNCHANGED <<base, server, ended>>
  /\ LET asks == base = inFlight["gate"].base /\ account.token \in Paired
     IN  /\ gate' = IF base = inFlight["gate"].base /\ ~asks THEN "failed" ELSE gate
         /\ Stays([Without({"gate"}) EXCEPT !["find"] =
                      IF asks THEN Asked(base, account.token) ELSE @])

GateRefused ==
  /\ Busy("gate")
  /\ gate' = IF base = inFlight["gate"].base THEN "failed" ELSE gate
  /\ UNCHANGED <<base, server, ended>>
  /\ Refused("gate", Without({"gate"}))

\* native_station::find: an address that proves it is a peer and lets the token
\* view data.
Finds(t, b) == t \in Paired /\ Accepts(b, t)

\* The station of a request's token is at b: scope, session and address follow.
MovesTo(b, k, f) ==
  /\ base' = b
  /\ Becomes(Using(inFlight[k].token, b, Restored(account, entries, b).entries), f)

\* recover_paired_station found the station at b.
Recovers(b) ==
  /\ Busy("find") /\ Finds(inFlight["find"].token, b)
  /\ base = inFlight["find"].base
  /\ IF b = base
     THEN /\ gate' = "open"
          /\ MovesTo(b, "find", Without({"find"}))
     ELSE /\ gate' = "checking"
          /\ MovesTo(b, "find", [Without({"find"}) EXCEPT
                                   !["gate"] = Asked(b, inFlight["find"].token)])
  /\ UNCHANGED <<server, ended>>

\* Nothing was found, or the operator is at another station by now.
FindsNothing ==
  /\ Busy("find")
  /\ gate' = IF base = inFlight["find"].base THEN "failed" ELSE gate
  /\ UNCHANGED <<base, server, ended>>
  /\ Stays(Without({"find"}))

\* The retry button asks once more, and so does the effect it sets off.
Retry ==
  /\ gate = "failed" /\ Free("gate") /\ ~Busy("retry")
  /\ gate' = "checking"
  /\ UNCHANGED <<base, server, ended>>
  /\ Stays([inFlight EXCEPT !["retry"] = Asked(base, account.token),
                            !["gate"] = Asked(base, account.token)])

\* Neither the retry nor the refresh asks whether the station is still the one.
RetryEnds ==
  /\ Busy("retry")
  /\ UNCHANGED <<base, server, ended>>
  /\ \/ gate' \in {"open", "closed"} /\ Answered("retry", Without({"retry"}))
     \/ gate' = "failed" /\ Stays(Without({"retry"}))
     \/ gate' = "failed" /\ Refused("retry", Without({"retry"}))

Refresh == InShell /\ Send("refresh")

RefreshEnds ==
  /\ Busy("refresh")
  /\ UNCHANGED <<base, server, ended>>
  /\ \/ gate' \in {"open", "closed"} /\ Answered("refresh", Without({"refresh"}))
     \/ UNCHANGED gate /\ Refused("refresh", Without({"refresh"}))

-----------------------------------------------------------------------------
(* The dashboard's own requests *)

\* A request of the data tabs, the history of a reseed among them.
Load == Mounted /\ Send("poll")

LoadEnds ==
  /\ Busy("poll")
  /\ UNCHANGED <<base, gate, server, ended>>
  /\ Stays(Without({"poll"})) \/ Refused("poll", Without({"poll"}))

\* A gesture whose owner is captured: an export, a settings change.
Operate == gate = "open" /\ Send("owned")

\* ExportOwner::is_current: the station, and the identity of the request.
Mine(r) == r.base = base /\ ~r.revised

\* The answer of an owned request is used or thrown away; it clears nothing.
OperateEnds ==
  /\ Busy("owned")
  /\ inFlight' = Without({"owned"})
  /\ UNCHANGED <<base, account, entries, gate, server, ended>>

\* The supervisor of a lost socket looks for the station elsewhere.
Sweep == Mounted /\ account.token \in Paired /\ Send("sweep")

\* Any reconnect retires the supervisor, so a sweep that ends was not superseded.
\* It reconnects, and another address takes the dashboard away.
SweepEnds(b) ==
  /\ Busy("sweep") /\ Finds(inFlight["sweep"].token, b)
  /\ gate' = IF b = base THEN gate ELSE "checking"
  /\ MovesTo(b, "sweep", IF b = base THEN Without({"sweep"})
                         ELSE [Without(ViewTasks) EXCEPT
                                 !["gate"] = Asked(b, inFlight["sweep"].token)])
  /\ UNCHANGED <<server, ended>>

SweepFindsNothing ==
  /\ Busy("sweep")
  /\ UNCHANGED <<base, gate, server, ended>>
  /\ Stays(Without({"sweep"}))

-----------------------------------------------------------------------------
(* Signing in and out *)

\* The login page, or the card over a dashboard whose access ended.
SignIn == gate \in {"closed", "login"} /\ Send("login")

\* A login restarts the connection and with it the supervisor, and leads to the
\* dashboard: mounted anew from the login page, the same one under the card.
SignedIn(t) ==
  LET b == inFlight["login"].base
      r == Using(t, b, entries)
  IN  /\ Busy("login") /\ t \in server.unused /\ b \in Homes[t]
      /\ server' = [valid |-> server.valid \cup {t}, unused |-> server.unused \ {t}]
      /\ UNCHANGED ended
      /\ IF gate = "login" THEN Shows(base, r.account, r.entries)
         ELSE UNCHANGED <<base, gate>> /\ Becomes(r, Without({"login", "sweep"}))

\* A wrong password is a 401 as well.
SignInFails ==
  /\ Busy("login")
  /\ UNCHANGED <<base, gate, server, ended>>
  /\ Stays(Without({"login"})) \/ Becomes(Cleared(account, entries), Without({"login"}))

SignOut == gate = "open" /\ account.token # None /\ Send("logout")

\* The station is told first; then, whatever it said, the session is forgotten.
SignedOut ==
  /\ Busy("logout")
  /\ gate' = "login"
  /\ UNCHANGED base
  /\ ended' = ended \cup ({account.token} \cap Tokens)
  /\ server' \in {server, [server EXCEPT !.valid = @ \ {inFlight["logout"].token}]}
  /\ Becomes(Cleared(account, entries), Nothing)

\* A session expires, or is revoked, at the station.
Expires(t) ==
  /\ t \in server.valid
  /\ server' = [server EXCEPT !.valid = @ \ {t}]
  /\ UNCHANGED <<base, account, entries, gate, inFlight, ended>>

-----------------------------------------------------------------------------

AccountNext ==
  \/ LeaveForConnect \/ Restart \/ ResetData
  \/ GateAnswered \/ GateFails \/ GateRefused \/ FindsNothing \/ Retry \/ RetryEnds
  \/ Refresh \/ RefreshEnds
  \/ Load \/ LoadEnds \/ Operate \/ OperateEnds
  \/ Sweep \/ SweepFindsNothing
  \/ SignIn \/ SignInFails \/ SignOut \/ SignedOut
  \/ \E b \in Addresses : ChooseStation(b) \/ Recovers(b) \/ SweepEnds(b)
  \/ \E t \in Tokens : SignedIn(t) \/ Expires(t)

AccountSpec == AccountInit /\ [][AccountNext]_accountVars

-----------------------------------------------------------------------------
(* Properties *)

\* Every variable holds a value of its kind, each address is remembered once,
\* and the store keeps to its limit.
AccountTypeOK ==
  /\ base \in Addresses
  /\ account \in Account
  /\ entries \in Seq(Entry) /\ Len(entries) <= Limit
  /\ \A i, j \in DOMAIN entries : entries[i].scope = entries[j].scope => i = j
  /\ gate \in Gates
  /\ inFlight \in [AllTasks -> Request \cup {Quiet}]
  /\ server \in [valid : SUBSET Tokens, unused : SUBSET Tokens]
  /\ ended \subseteq Tokens

\* A token is never sent to a station that did not issue it or prove itself a
\* peer, whatever was discovered, restored, adopted or answered late.
TokenStaysHome ==
  /\ \A k \in AllTasks : LET r == inFlight[k] IN r.token # None => r.base \in Homes[r.token]
  /\ \A i \in DOMAIN entries : entries[i].scope # Unscoped => entries[i].scope \in Homes[entries[i].token]

\* What the operator signed out or erased is neither used nor remembered again,
\* under any address and by any task that still held it.
SignOutLasts ==
  \A t \in ended : account.token # t /\ \A i \in DOMAIN entries : entries[i].token # t

\* The session in use is the remembered one of its address, so a restart finds
\* it: restores, status writes, pruning and handovers keep the two together.
RememberedIsCurrent ==
  (account.token \in Remembered) =>
    \E i \in DOMAIN entries : entries[i] = [scope |-> account.scope, token |-> account.token]

\* An answer a gesture takes belongs to the station and login it was sent for,
\* with no other in between, not even one that has gone again.
OwnedAnswerIsOurs == (Busy("owned") /\ Mine(inFlight["owned"])) => ~inFlight["owned"].moved

\* "A stale export response must never clear a newer account's session": a
\* refusal of one token does not end the session of another.
RefusalEndsItsOwn ==
  [][\A k \in Plain : Busy(k) /\ ~Busy(k)' /\ account'.token = None /\ gate' # "login"
        => account.token \in {None, inFlight[k].token}]_accountVars

=============================================================================
