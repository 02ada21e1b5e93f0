---------------------------- MODULE NativeStorage ----------------------------
(***************************************************************************)
(* The settings file of native builds (native_storage/file.rs and the      *)
(* native half of persist.rs): every call takes the process's mutex and an *)
(* exclusive OS lock on a sidecar file, reads the whole map, and replaces  *)
(* the file through a temporary one that is written, synced and renamed.   *)
(* Several processes may run; any of them can be killed between two system *)
(* calls, a system call can fail, and the machine can lose power.          *)
(***************************************************************************)
EXTENDS Naturals

CONSTANTS
  Tasks,       \* the threads that call the store
  Processes,
  ProcessOf,   \* the process of each task
  Keys,
  Values,
  None,        \* no value under a key
  Absent,      \* no file
  Malformed,   \* content that is not the expected JSON, a torn write included
  Nobody,      \* the holder of a free lock
  Requests,    \* the calls that are made
  MaxCalls,    \* bounds: how many calls, kills and power failures happen
  MaxKills,
  MaxOutages

VARIABLES
  file,     \* the content a reader finds
  kept,     \* the contents the medium may hold: what the directory named when
            \* it was last synced, and each replacement since
  mutex,    \* STORE_LOCK of each process: the task that holds it
  lock,     \* the task that holds the OS lock on the sidecar
  task,     \* where each task is in its call, and the content it loaded
  spent     \* how many calls, kills and power failures have happened

storageVars == <<file, kept, mutex, lock, task, spent>>

\* The mapping: what readers find, what a power failure leaves, and how far
\* each call is.  A read is answered by its load, a change is made by the rename
\* and answered when the directory has been synced.
CallOf(w) ==
  CASE w.pc = "idle"   -> [pc |-> "idle"]
    [] w.pc = "done"   -> [pc |-> "returned", req |-> w.req, seen |-> w.loaded]
    [] w.pc = "parent" -> [pc |-> "applied", req |-> w.req, seen |-> w.loaded]
    [] OTHER           -> [pc |-> "asked", req |-> w.req]

Store == INSTANCE PreferenceStore WITH
           shown <- file, kept <- kept,
           call <- [t \in Tasks |-> CallOf(task[t])]

IdleTask == [pc |-> "idle"]
At(pc, r) == [pc |-> pc, req |-> r]
Loaded(pc, r, c) == [pc |-> pc, req |-> r, loaded |-> c]

ASSUME StorageAssumption ==
  /\ ProcessOf \in [Tasks -> Processes]
  /\ Nobody \notin Tasks
  /\ Requests \subseteq Store!Request
  /\ MaxCalls \in Nat /\ MaxKills \in Nat /\ MaxOutages \in Nat
  /\ Absent # Malformed
  /\ {Absent, Malformed} \cap [Keys -> Values \cup {None}] = {}

\* The file of an earlier version or of nobody may be there, or none.
StorageInit ==
  /\ file \in Store!Content
  /\ kept = {file}
  /\ mutex = [p \in Processes |-> Nobody]
  /\ lock = Nobody
  /\ task = [t \in Tasks |-> IdleTask]
  /\ spent = [calls |-> 0, kills |-> 0, outages |-> 0]

-----------------------------------------------------------------------------
(* A call, system call by system call *)

Goes(t, w) == task' = [task EXCEPT ![t] = w]

\* The guards are dropped when the call returns, with or without an error.
Releases(ts) ==
  /\ mutex' = [p \in Processes |-> IF mutex[p] \in ts THEN Nobody ELSE mutex[p]]
  /\ lock' = IF lock \in ts THEN Nobody ELSE lock

\* Mutant: a call that ends does not give the sidecar's lock back.
EndsHolding(t) == Goes(t, IdleTask) /\ UNCHANGED lock /\
                  mutex' = [mutex EXCEPT ![ProcessOf[t]] = Nobody]

Ends(t) == Goes(t, IdleTask) /\ Releases({t})

Call(t, r) ==
  /\ task[t] = IdleTask
  /\ spent.calls < MaxCalls
  /\ spent' = [spent EXCEPT !.calls = @ + 1]
  /\ Goes(t, At("mutex", r))
  /\ UNCHANGED <<file, kept, mutex, lock>>

TakeMutex(t) ==
  /\ task[t].pc = "mutex" /\ mutex[ProcessOf[t]] = Nobody
  /\ mutex' = [mutex EXCEPT ![ProcessOf[t]] = t]
  /\ Goes(t, At("lock", task[t].req))
  /\ UNCHANGED <<file, kept, lock, spent>>

\* Mutant: the file is not locked against other processes.
TakeNoLock(t) ==
  /\ task[t].pc = "lock"
  /\ lock' = t
  /\ Goes(t, At("load", task[t].req))
  /\ UNCHANGED <<file, kept, mutex, spent>>

\* transaction_lock waits until no open handle holds the lock.
TakeLock(t) ==
  /\ task[t].pc = "lock" /\ lock = Nobody
  /\ lock' = t
  /\ Goes(t, At("load", task[t].req))
  /\ UNCHANGED <<file, kept, mutex, spent>>

\* load_map: malformed content fails the call and is left as it is.  clear_all
\* does not read; it unlinks, and finds a file that is gone already removed.
Load(t) ==
  LET r == task[t].req
  IN  /\ task[t].pc = "load" /\ r.kind # "clear"
      /\ IF file = Malformed THEN Ends(t)
         ELSE /\ Goes(t, Loaded(IF r.kind = "read" THEN "done" ELSE "temp", r, file))
              /\ UNCHANGED <<mutex, lock>>
      /\ UNCHANGED <<file, kept, spent>>

Unlink(t) ==
  LET r == task[t].req
  IN  /\ task[t].pc = "load" /\ r.kind = "clear"
      /\ file' = Absent
      /\ kept' = kept \cup {Absent}
      /\ Goes(t, Loaded(IF file = Absent THEN "done" ELSE "parent", r, file))
      /\ UNCHANGED <<mutex, lock, spent>>

\* The temporary file is created, written and, as a step of its own, synced.
WriteTemp(t) ==
  /\ task[t].pc = "temp"
  /\ Goes(t, [task[t] EXCEPT !.pc = "sync"])
  /\ UNCHANGED <<file, kept, mutex, lock, spent>>

SyncTemp(t) ==
  /\ task[t].pc = "sync"
  /\ Goes(t, [task[t] EXCEPT !.pc = "rename"])
  /\ UNCHANGED <<file, kept, mutex, lock, spent>>

\* Mutant: the rename does not wait for the data of the temporary file.
RenameEarly(t) ==
  /\ task[t].pc \in {"sync", "rename"}
  /\ file' = Store!Result(task[t].loaded, task[t].req)
  /\ kept' = kept \cup {IF task[t].pc = "sync" THEN Malformed ELSE file'}
  /\ Goes(t, [task[t] EXCEPT !.pc = "parent"])
  /\ UNCHANGED <<mutex, lock, spent>>

Rename(t) ==
  /\ task[t].pc = "rename"
  /\ file' = Store!Result(task[t].loaded, task[t].req)
  /\ kept' = kept \cup {file'}
  /\ Goes(t, [task[t] EXCEPT !.pc = "parent"])
  /\ UNCHANGED <<mutex, lock, spent>>

\* Mutant: the call returns before the directory is synced.
SkipParent(t) ==
  /\ task[t].pc = "parent"
  /\ Goes(t, [task[t] EXCEPT !.pc = "done"])
  /\ UNCHANGED <<file, kept, mutex, lock, spent>>

\* sync_parent, after which the directory names the new file, or none.
SyncParent(t) ==
  /\ task[t].pc = "parent"
  /\ kept' = {file}
  /\ Goes(t, [task[t] EXCEPT !.pc = "done"])
  /\ UNCHANGED <<file, mutex, lock, spent>>

ReturnOk(t) ==
  /\ task[t].pc = "done"
  /\ Ends(t)
  /\ UNCHANGED <<file, kept, spent>>

\* A system call fails: the guards are dropped, the temporary file is removed.
Fails(t) ==
  /\ task[t].pc \in {"lock", "load", "temp", "sync", "rename", "parent"}
  /\ Ends(t)
  /\ UNCHANGED <<file, kept, spent>>

-----------------------------------------------------------------------------
(* Faults *)

\* The OS closes a dead process's handles, and with them its lock.
Kill(p) ==
  LET ts == {t \in Tasks : ProcessOf[t] = p}
  IN  /\ spent.kills < MaxKills
      /\ spent' = [spent EXCEPT !.kills = @ + 1]
      /\ task' = [t \in Tasks |-> IF t \in ts THEN IdleTask ELSE task[t]]
      /\ Releases(ts)
      /\ UNCHANGED <<file, kept>>

\* What was renamed or removed and not synced may or may not have reached the
\* medium.
Outage ==
  /\ spent.outages < MaxOutages
  /\ spent' = [spent EXCEPT !.outages = @ + 1]
  /\ file' \in kept
  /\ kept' = {file'}
  /\ task' = [t \in Tasks |-> IdleTask]
  /\ Releases(Tasks)

-----------------------------------------------------------------------------

Step(t) ==
  \/ TakeMutex(t) \/ TakeLock(t) \/ Load(t) \/ Unlink(t) \/ WriteTemp(t)
  \/ SyncTemp(t) \/ Rename(t) \/ SyncParent(t) \/ ReturnOk(t)

StorageNext ==
  \/ \E t \in Tasks : Step(t) \/ Fails(t)
  \/ \E t \in Tasks, r \in Requests : Call(t, r)
  \/ \E p \in Processes : Kill(p)
  \/ Outage

StorageSpec == StorageInit /\ [][StorageNext]_storageVars

FairStorage == StorageSpec /\ \A t \in Tasks : WF_storageVars(Step(t))

-----------------------------------------------------------------------------
(* Properties *)

\* Every variable holds a value of its kind, and a lock has no holder outside a
\* call: it is given back on every way out, a killed process included.
StorageTypeOK ==
  /\ file \in Store!Content
  /\ kept \in SUBSET Store!Content
  /\ mutex \in [Processes -> Tasks \cup {Nobody}]
  /\ lock \in Tasks \cup {Nobody}
  /\ task \in [Tasks ->
       {IdleTask} \cup [pc : {"mutex", "lock", "load"}, req : Requests]
         \cup [pc : {"temp", "sync", "rename", "parent", "done"}, req : Requests,
               loaded : Store!Content]]
  /\ spent \in [calls : Nat, kills : Nat, outages : Nat]
  /\ \A t \in Tasks : t \in {lock} \cup {mutex[p] : p \in Processes}
                       => task[t].pc \notin {"idle", "mutex"}

\* "Crash-safe replacement of native settings/session files": the store behaves
\* as one map on which each call works at once, however the calls of several
\* processes interleave and wherever a process dies, a system call fails or the
\* power goes.
StoreSpec == Store!PrefSpec

\* The mutex and the OS lock are always taken in the same order and given back
\* on every way out, so no call waits for ever.
CallEnds == \A t \in Tasks : (task[t] # IdleTask) ~> (task[t] = IdleTask)

=============================================================================
