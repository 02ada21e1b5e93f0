------------------------- MODULE NativeStorageProofs -------------------------
(***************************************************************************)
(* Proofs about NativeStorage: its types, that one task at a time works on *)
(* the file, and that it implements PreferenceStore for any number of      *)
(* tasks and processes, whatever fails and whenever the power goes.        *)
(***************************************************************************)
EXTENDS NativeStorage, TLAPS

-----------------------------------------------------------------------------
(* The invariant *)

Holding == {"load", "temp", "sync", "rename", "parent", "done"}

TaskType ==
  {IdleTask} \cup [pc : {"mutex", "lock", "load"}, req : Requests]
  \cup [pc : {"temp", "sync", "rename", "parent", "done"}, req : Requests,
        loaded : Store!Content]

\* Past the lock a task holds it, so no two are there at once.
Exclusive == \A t \in Tasks : task[t].pc \in Holding => lock = t

\* Until it renames, a writer's copy is what the file holds.
Fresh ==
  \A t \in Tasks : task[t].pc \in {"temp", "sync", "rename"} =>
    /\ task[t].loaded = file /\ file # Malformed
    /\ task[t].req.kind = "write"

StorageInv == StorageTypeOK /\ Exclusive /\ Fresh /\ file \in kept

-----------------------------------------------------------------------------
(* The map and the moves of a task *)

\* What a call leaves is content again.
LEMMA ResultContent ==
  ASSUME NEW c \in Store!Content, NEW r \in Store!Request, c # Malformed
  PROVE  Store!Result(c, r) \in Store!Content
<1>1. r.value \in Values \cup {None} /\ r.kind \in {"read", "write", "clear"}
  BY DEF Store!Request
<1>2. Store!MapOf(c) \in Store!Map
  BY DEF Store!Content, Store!MapOf, Store!EmptyMap, Store!Map
<1>3. [k \in Keys |-> IF k \in r.keys THEN r.value ELSE Store!MapOf(c)[k]] \in Store!Map
  BY <1>1, <1>2 DEF Store!Map
<1>4. QED
  BY <1>1, <1>3 DEF Store!Result, Store!Content

\* What each stage of a call carries.
LEMMA TaskKinds ==
  ASSUME NEW w \in TaskType
  PROVE  /\ w.pc \in {"idle", "mutex", "lock"} \cup Holding
         /\ w.pc = "idle" <=> w = IdleTask
         /\ w.pc # "idle" => w.req \in Requests /\ w.req \in Store!Request
         /\ w.pc \in {"mutex", "lock", "load"} => w = [pc |-> w.pc, req |-> w.req]
         /\ w.pc \in {"temp", "sync", "rename", "parent", "done"} =>
              /\ w.loaded \in Store!Content
              /\ w = [pc |-> w.pc, req |-> w.req, loaded |-> w.loaded]
BY StorageAssumption DEF TaskType, IdleTask, Holding

\* A stage that carries a copy is again a stage of a call.
LEMMA Stages ==
  ASSUME NEW r \in Requests
  PROVE  /\ \A pc \in {"mutex", "lock", "load"} : [pc |-> pc, req |-> r] \in TaskType
         /\ \A pc \in {"temp", "sync", "rename", "parent", "done"}, c \in Store!Content :
              [pc |-> pc, req |-> r, loaded |-> c] \in TaskType
         /\ IdleTask \in TaskType
BY DEF TaskType

\* What the invariant says of types, taken apart.
LEMMA Kinds ==
  ASSUME StorageInv
  PROVE  /\ file \in Store!Content /\ kept \in SUBSET Store!Content /\ file \in kept
         /\ mutex \in [Processes -> Tasks \cup {Nobody}] /\ lock \in Tasks \cup {Nobody}
         /\ task \in [Tasks -> TaskType]
         /\ spent \in [calls : Nat, kills : Nat, outages : Nat]
         /\ \A t \in Tasks : lock = t \/ (\E p \in Processes : mutex[p] = t)
                              => task[t].pc \notin {"idle", "mutex"}
BY DEF StorageInv, StorageTypeOK, TaskType

\* One task moves on.
LEMMA Moved ==
  ASSUME StorageInv, NEW t \in Tasks, NEW w \in TaskType, Goes(t, w)
  PROVE  /\ task' \in [Tasks -> TaskType] /\ task'[t] = w
         /\ \A s \in Tasks : s # t => task'[s] = task[s]
BY Kinds DEF Goes

-----------------------------------------------------------------------------
(* Every step keeps the invariant *)

\* Tasks that end, or die with their process, give back what they held.
LEMMA EndKeeps ==
  ASSUME StorageInv, NEW ts \in SUBSET Tasks, Releases(ts),
         task' = [t \in Tasks |-> IF t \in ts THEN IdleTask ELSE task[t]],
         file' \in Store!Content, kept' \in SUBSET Store!Content, file' \in kept',
         file' = file \/ ts = Tasks, spent' \in [calls : Nat, kills : Nat, outages : Nat]
  PROVE  StorageInv'
<1>1. /\ mutex \in [Processes -> Tasks \cup {Nobody}] /\ lock \in Tasks \cup {Nobody}
      /\ task \in [Tasks -> TaskType] /\ IdleTask \in TaskType
      /\ \A t \in Tasks : lock = t \/ (\E p \in Processes : mutex[p] = t)
                           => task[t].pc \notin {"idle", "mutex"}
  BY Kinds DEF TaskType
<1>2. /\ task' \in [Tasks -> TaskType] /\ mutex' \in [Processes -> Tasks \cup {Nobody}]
      /\ lock' \in Tasks \cup {Nobody}
  BY <1>1 DEF Releases
<1>3. /\ \A t \in ts : task'[t] = IdleTask /\ task'[t].pc = "idle"
      /\ \A t \in Tasks \ ts : task'[t] = task[t]
  BY DEF IdleTask
<1>4. \A t \in Tasks : lock' = t \/ (\E p \in Processes : mutex'[p] = t)
                        => task'[t].pc \notin {"idle", "mutex"}
  <2>1. Nobody \notin Tasks
    BY StorageAssumption
  <2>2. \A t \in Tasks : lock' = t => lock = t /\ t \notin ts
    BY <2>1 DEF Releases
  <2>3. \A t \in Tasks, p \in Processes : mutex'[p] = t => mutex[p] = t /\ t \notin ts
    BY <2>1 DEF Releases
  <2>4. QED
    BY <1>1, <1>3, <2>2, <2>3
<1>5. StorageTypeOK'
  BY <1>2, <1>4 DEF StorageTypeOK, TaskType
<1>6. Exclusive'
  BY <1>3 DEF StorageInv, Exclusive, Holding, Releases
<1>7. Fresh'
  BY <1>3 DEF StorageInv, Fresh
<1>8. QED
  BY <1>5, <1>6, <1>7 DEF StorageInv

\* A call returns, with or without an error.
LEMMA EndsKeeps ==
  ASSUME StorageInv, NEW t \in Tasks, Ends(t), UNCHANGED <<file, kept, spent>>
  PROVE  StorageInv'
<1>1. task' = [s \in Tasks |-> IF s \in {t} THEN IdleTask ELSE task[s]]
  BY Kinds DEF Ends, Goes
<1>2. QED
  BY <1>1, Kinds, EndKeeps DEF Ends

\* A task that moves on within its call, and gives nothing back.
LEMMA MoveKeeps ==
  ASSUME StorageInv, NEW t \in Tasks, NEW w \in TaskType, Goes(t, w),
         mutex' \in [Processes -> Tasks \cup {Nobody}], lock' \in Tasks \cup {Nobody},
         \A s \in Tasks : lock' = s \/ (\E p \in Processes : mutex'[p] = s)
                         => task'[s].pc \notin {"idle", "mutex"},
         \/ lock' = lock \/ lock = Nobody,
         w.pc \in Holding => lock' = t,
         file' \in Store!Content, kept' \in SUBSET Store!Content, file' \in kept',
         file' = file \/ lock = t,
         w.pc \in {"temp", "sync", "rename"} =>
           w.loaded = file' /\ file' # Malformed /\ w.req.kind = "write",
         spent' \in [calls : Nat, kills : Nat, outages : Nat]
  PROVE  StorageInv'
<1>1. /\ task' \in [Tasks -> TaskType] /\ task'[t] = w
      /\ \A s \in Tasks : s # t => task'[s] = task[s]
  BY Moved
<1>2. \A s \in Tasks : task[s].pc \in Holding => lock = s /\ lock # Nobody
  BY StorageAssumption DEF StorageInv, Exclusive
<1>3. StorageTypeOK'
  BY <1>1 DEF StorageTypeOK, TaskType
<1>4. Exclusive'
  BY <1>1, <1>2 DEF Exclusive
<1>5. Fresh'
  BY <1>1, <1>2 DEF StorageInv, Fresh, Holding
<1>6. QED
  BY <1>3, <1>4, <1>5 DEF StorageInv

\* The mutex and the lock are taken by a task that is in its call.
LEMMA TakeKeeps ==
  ASSUME StorageInv, NEW t \in Tasks,
         \/ \E r \in Requests : Call(t, r)
         \/ TakeMutex(t) \/ TakeLock(t)
  PROVE  StorageInv'
<1>1. /\ file \in Store!Content /\ kept \in SUBSET Store!Content /\ file \in kept
      /\ mutex \in [Processes -> Tasks \cup {Nobody}] /\ lock \in Tasks \cup {Nobody}
      /\ task[t] \in TaskType /\ spent \in [calls : Nat, kills : Nat, outages : Nat]
      /\ \A s \in Tasks : lock = s \/ (\E p \in Processes : mutex[p] = s)
                           => task[s].pc \notin {"idle", "mutex"}
  BY Kinds
<1>2. ASSUME NEW r \in Requests, Call(t, r)
      PROVE  StorageInv'
  <2> DEFINE w == At("mutex", r)
  <2>1. /\ task[t].pc = "idle" /\ Goes(t, w) /\ UNCHANGED <<file, kept, mutex, lock>>
        /\ spent' = [spent EXCEPT !.calls = @ + 1]
    BY <1>2 DEF Call, IdleTask
  <2>2. w \in TaskType /\ w.pc = "mutex"
    BY Stages DEF At
  <2> HIDE DEF w
  <2>3. /\ task'[t] = w /\ \A s \in Tasks : s # t => task'[s] = task[s]
    BY <2>1, <2>2, Moved
  <2>4. spent' \in [calls : Nat, kills : Nat, outages : Nat]
    BY <1>1, <2>1
  <2>5. \A s \in Tasks : lock' = s \/ (\E p \in Processes : mutex'[p] = s)
                          => task'[s].pc \notin {"idle", "mutex"}
    BY <1>1, <2>1, <2>3
  <2>6. w.pc \notin Holding
    BY <2>2 DEF Holding
  <2>7. QED
    BY <1>1, <2>1, <2>2, <2>4, <2>5, <2>6, MoveKeeps
<1>3. CASE TakeMutex(t)
  <2> DEFINE w == At("lock", task[t].req)
  <2>1. /\ task[t].pc = "mutex" /\ Goes(t, w) /\ UNCHANGED <<file, kept, lock, spent>>
        /\ mutex' = [mutex EXCEPT ![ProcessOf[t]] = t]
    BY <1>3 DEF TakeMutex
  <2>2. w \in TaskType /\ w.pc = "lock"
    BY <1>1, <2>1, TaskKinds, Stages DEF At
  <2> HIDE DEF w
  <2>3. /\ task'[t] = w /\ \A s \in Tasks : s # t => task'[s] = task[s]
    BY <2>1, <2>2, Moved
  <2>4. /\ mutex' \in [Processes -> Tasks \cup {Nobody}]
        /\ \A p \in Processes : mutex'[p] \in {mutex[p], t}
    BY <1>1, <2>1
  <2>5. \A s \in Tasks : lock' = s \/ (\E p \in Processes : mutex'[p] = s)
                          => task'[s].pc \notin {"idle", "mutex"}
    BY <1>1, <2>1, <2>2, <2>3, <2>4
  <2>6. w.pc \notin Holding
    BY <2>2 DEF Holding
  <2>7. QED
    BY <1>1, <2>1, <2>2, <2>4, <2>5, <2>6, MoveKeeps
<1>4. CASE TakeLock(t)
  <2> DEFINE w == At("load", task[t].req)
  <2>1. /\ task[t].pc = "lock" /\ lock = Nobody /\ lock' = t /\ Goes(t, w)
        /\ UNCHANGED <<file, kept, mutex, spent>>
    BY <1>4 DEF TakeLock
  <2>2. w \in TaskType /\ w.pc = "load"
    BY <1>1, <2>1, TaskKinds, Stages DEF At
  <2> HIDE DEF w
  <2>3. /\ task'[t] = w /\ \A s \in Tasks : s # t => task'[s] = task[s]
    BY <2>1, <2>2, Moved
  <2>4. \A s \in Tasks : lock' = s \/ (\E p \in Processes : mutex'[p] = s)
                          => task'[s].pc \notin {"idle", "mutex"}
    BY <1>1, <2>1, <2>2, <2>3
  <2>5. QED
    BY <1>1, <2>1, <2>2, <2>4, MoveKeeps
<1>5. QED
  BY <1>2, <1>3, <1>4

\* A holder of the lock that works on keeps it.
LEMMA WorkKeeps ==
  ASSUME StorageInv, NEW t \in Tasks, NEW w \in TaskType, Goes(t, w),
         task[t].pc \in Holding, w.pc \in Holding, UNCHANGED <<mutex, lock, spent>>,
         file' \in Store!Content, kept' \in SUBSET Store!Content, file' \in kept',
         w.pc \in {"temp", "sync", "rename"} =>
           w.loaded = file' /\ file' # Malformed /\ w.req.kind = "write"
  PROVE  StorageInv'
<1>1. lock = t
  BY DEF StorageInv, Exclusive
<1>2. /\ task'[t] = w /\ \A s \in Tasks : s # t => task'[s] = task[s]
  BY Moved
<1>3. \A s \in Tasks : lock' = s \/ (\E p \in Processes : mutex'[p] = s)
                        => task'[s].pc \notin {"idle", "mutex"}
  BY <1>2, Kinds DEF Holding
<1>4. QED
  BY <1>1, <1>3, Kinds, MoveKeeps

\* The system calls on the files.
LEMMA FileKeeps ==
  ASSUME StorageInv, NEW t \in Tasks,
         \/ Load(t) \/ Unlink(t) \/ WriteTemp(t) \/ SyncTemp(t) \/ Rename(t) \/ SyncParent(t)
         \/ ReturnOk(t) \/ Fails(t)
  PROVE  StorageInv'
<1> DEFINE r == task[t].req
<1>1. /\ file \in Store!Content /\ kept \in SUBSET Store!Content /\ file \in kept
      /\ task[t] \in TaskType
  BY Kinds
<1>2. task[t].pc # "idle" => r \in Requests /\ r \in Store!Request
  BY <1>1, TaskKinds
<1>3. task[t].pc \in {"temp", "sync", "rename"} =>
        task[t].loaded = file /\ file # Malformed /\ r.kind = "write"
  BY DEF StorageInv, Fresh
<1>4. ASSUME NEW pc \in {"sync", "rename", "parent", "done"},
             task[t].pc \in {"temp", "sync", "rename", "parent"}
      PROVE  /\ [task[t] EXCEPT !.pc = pc] \in TaskType /\ [task[t] EXCEPT !.pc = pc].pc = pc
             /\ [task[t] EXCEPT !.pc = pc].loaded = task[t].loaded
             /\ [task[t] EXCEPT !.pc = pc].req = r
  <2> DEFINE w == [pc |-> pc, req |-> r, loaded |-> task[t].loaded]
  <2>1. [task[t] EXCEPT !.pc = pc] = w
    BY <1>1, <1>4, TaskKinds
  <2>2. w \in TaskType
    BY <1>1, <1>2, <1>4, TaskKinds, Stages
  <2>3. QED
    BY <2>1, <2>2
<1>5. CASE Load(t)
  <2>1. CASE file = Malformed
    BY <1>5, <2>1, EndsKeeps DEF Load
  <2>2. CASE file # Malformed
    <3> DEFINE pc == IF r.kind = "read" THEN "done" ELSE "temp"
               w == Loaded(pc, r, file)
    <3>1. /\ task[t].pc = "load" /\ r.kind # "clear" /\ Goes(t, w)
          /\ UNCHANGED <<mutex, lock, file, kept, spent>>
      BY <1>5, <2>2 DEF Load
    <3>2. /\ w \in TaskType /\ w.pc = pc /\ w.loaded = file /\ w.req = r
      BY <1>1, <1>2, <3>1, Stages DEF Loaded
    <3>3. pc = "temp" => r.kind = "write"
      BY <1>2, <3>1 DEF Store!Request
    <3> HIDE DEF w
    <3>4. pc \in Holding /\ task[t].pc \in Holding /\ pc \notin {"sync", "rename"}
      BY <3>1 DEF Holding
    <3> HIDE DEF pc
    <3>5. QED
      BY <1>1, <2>2, <3>1, <3>2, <3>3, <3>4, WorkKeeps
  <2>3. QED
    BY <2>1, <2>2
<1>6. CASE Unlink(t)
  <2> DEFINE pc == IF file = Absent THEN "done" ELSE "parent"
             w == Loaded(pc, r, file)
  <2>1. /\ task[t].pc = "load" /\ file' = Absent /\ kept' = kept \cup {Absent} /\ Goes(t, w)
        /\ UNCHANGED <<mutex, lock, spent>>
    BY <1>6 DEF Unlink
  <2>2. w \in TaskType /\ w.pc = pc
    BY <1>1, <1>2, <2>1, Stages DEF Loaded
  <2>3. file' \in Store!Content /\ kept' \in SUBSET Store!Content /\ file' \in kept'
    BY <1>1, <2>1 DEF Store!Content
  <2>4. pc \in Holding /\ task[t].pc \in Holding /\ pc \notin {"temp", "sync", "rename"}
    BY <2>1 DEF Holding
  <2> HIDE DEF w, pc
  <2>5. QED
    BY <2>1, <2>2, <2>3, <2>4, WorkKeeps
<1>7. CASE WriteTemp(t)
  <2> DEFINE w == [task[t] EXCEPT !.pc = "sync"]
  <2>1. task[t].pc = "temp" /\ Goes(t, w) /\ UNCHANGED <<file, kept, mutex, lock, spent>>
    BY <1>7 DEF WriteTemp
  <2>2. w \in TaskType /\ w.pc = "sync" /\ w.loaded = task[t].loaded /\ w.req = r
    BY <1>4, <2>1
  <2> HIDE DEF w
  <2>3. QED
    BY <1>1, <1>3, <2>1, <2>2, WorkKeeps DEF Holding
<1>8. CASE SyncTemp(t)
  <2> DEFINE w == [task[t] EXCEPT !.pc = "rename"]
  <2>1. task[t].pc = "sync" /\ Goes(t, w) /\ UNCHANGED <<file, kept, mutex, lock, spent>>
    BY <1>8 DEF SyncTemp
  <2>2. w \in TaskType /\ w.pc = "rename" /\ w.loaded = task[t].loaded /\ w.req = r
    BY <1>4, <2>1
  <2> HIDE DEF w
  <2>3. QED
    BY <1>1, <1>3, <2>1, <2>2, WorkKeeps DEF Holding
<1>9. CASE Rename(t)
  <2> DEFINE w == [task[t] EXCEPT !.pc = "parent"]
             c == Store!Result(task[t].loaded, r)
  <2>1. /\ task[t].pc = "rename" /\ Goes(t, w) /\ UNCHANGED <<mutex, lock, spent>>
        /\ file' = c /\ kept' = kept \cup {file'}
    BY <1>9 DEF Rename
  <2>2. w \in TaskType /\ w.pc = "parent"
    BY <1>4, <2>1
  <2>3. c \in Store!Content
    BY <1>1, <1>2, <1>3, <2>1, ResultContent
  <2> HIDE DEF w, c
  <2>4. QED
    BY <1>1, <2>1, <2>2, <2>3, WorkKeeps DEF Holding
<1>10. CASE SyncParent(t)
  <2> DEFINE w == [task[t] EXCEPT !.pc = "done"]
  <2>1. /\ task[t].pc = "parent" /\ Goes(t, w) /\ UNCHANGED <<file, mutex, lock, spent>>
        /\ kept' = {file}
    BY <1>10 DEF SyncParent
  <2>2. w \in TaskType /\ w.pc = "done"
    BY <1>4, <2>1
  <2> HIDE DEF w
  <2>3. QED
    BY <1>1, <2>1, <2>2, WorkKeeps DEF Holding
<1>11. CASE ReturnOk(t) \/ Fails(t)
  BY <1>11, EndsKeeps DEF ReturnOk, Fails
<1>12. QED
  BY <1>5, <1>6, <1>7, <1>8, <1>9, <1>10, <1>11

\* A process is killed, or the power fails.
LEMMA FaultKeeps ==
  ASSUME StorageInv, Outage \/ \E p \in Processes : Kill(p)
  PROVE  StorageInv'
<1>1. /\ file \in Store!Content /\ kept \in SUBSET Store!Content /\ file \in kept
      /\ spent \in [calls : Nat, kills : Nat, outages : Nat]
  BY Kinds
<1>2. ASSUME NEW p \in Processes, Kill(p)
      PROVE  StorageInv'
  <2> DEFINE ts == {t \in Tasks : ProcessOf[t] = p}
  <2>1. /\ spent' = [spent EXCEPT !.kills = @ + 1] /\ Releases(ts) /\ UNCHANGED <<file, kept>>
        /\ task' = [t \in Tasks |-> IF t \in ts THEN IdleTask ELSE task[t]]
    BY <1>2 DEF Kill
  <2>2. spent' \in [calls : Nat, kills : Nat, outages : Nat] /\ ts \in SUBSET Tasks
    BY <1>1, <2>1
  <2> HIDE DEF ts
  <2>3. QED
    BY <1>1, <2>1, <2>2, EndKeeps
<1>3. CASE Outage
  <2>1. /\ spent' = [spent EXCEPT !.outages = @ + 1] /\ Releases(Tasks)
        /\ file' \in kept /\ kept' = {file'} /\ task' = [t \in Tasks |-> IdleTask]
    BY <1>3 DEF Outage
  <2>2. spent' \in [calls : Nat, kills : Nat, outages : Nat]
    BY <1>1, <2>1
  <2>3. task' = [t \in Tasks |-> IF t \in Tasks THEN IdleTask ELSE task[t]]
    BY <2>1
  <2>4. file' \in Store!Content /\ kept' \in SUBSET Store!Content /\ file' \in kept'
    BY <1>1, <2>1
  <2>5. Tasks \in SUBSET Tasks
    OBVIOUS
  <2>6. QED
    BY <2>1, <2>2, <2>3, <2>4, <2>5, EndKeeps
<1>4. QED
  BY <1>2, <1>3

\* The file may be anything at first; nobody is in a call.
LEMMA StorageStart == StorageInit => StorageInv
<1> SUFFICES ASSUME StorageInit PROVE StorageInv
  OBVIOUS
<1>1. /\ file \in Store!Content /\ kept = {file} /\ lock = Nobody
      /\ mutex = [p \in Processes |-> Nobody] /\ task = [t \in Tasks |-> IdleTask]
      /\ spent = [calls |-> 0, kills |-> 0, outages |-> 0]
  BY DEF StorageInit
<1>2. IdleTask \in TaskType /\ IdleTask.pc = "idle"
  BY DEF TaskType, IdleTask
<1>3. StorageTypeOK
  BY <1>1, <1>2, StorageAssumption DEF StorageTypeOK, TaskType
<1>4. Exclusive /\ Fresh
  BY <1>1, <1>2 DEF Exclusive, Fresh, Holding
<1>5. QED
  BY <1>1, <1>3, <1>4 DEF StorageInv

\* Every step keeps the invariant.
LEMMA StorageStep == StorageInv /\ [StorageNext]_storageVars => StorageInv'
<1> SUFFICES ASSUME StorageInv, [StorageNext]_storageVars PROVE StorageInv'
  OBVIOUS
<1>1. CASE UNCHANGED storageVars
  BY <1>1 DEF storageVars, StorageInv, StorageTypeOK, Exclusive, Fresh
<1>2. ASSUME NEW t \in Tasks, Step(t) \/ Fails(t) PROVE StorageInv'
  BY <1>2, TakeKeeps, FileKeeps DEF Step
<1>3. ASSUME NEW t \in Tasks, NEW r \in Requests, Call(t, r) PROVE StorageInv'
  BY <1>3, TakeKeeps
<1>4. CASE Outage \/ \E p \in Processes : Kill(p)
  BY <1>4, FaultKeeps
<1>5. QED
  BY <1>1, <1>2, <1>3, <1>4 DEF StorageNext

-----------------------------------------------------------------------------
(* The detailed store implements the abstract one *)

Calls == [t \in Tasks |-> CallOf(task[t])]

\* One task moves on: its call is mapped anew, the others stay where they are.
LEMMA CallMoved ==
  ASSUME StorageInv, NEW t \in Tasks, NEW w \in TaskType, Goes(t, w)
  PROVE  Calls' = [Calls EXCEPT ![t] = CallOf(w)]
<1>1. /\ task' \in [Tasks -> TaskType] /\ task'[t] = w
      /\ \A s \in Tasks : s # t => task'[s] = task[s]
  BY Moved
<1>2. Calls' = [s \in Tasks |-> CallOf(task'[s])]
  BY DEF Calls, CallOf
<1>3. QED
  BY <1>1, <1>2 DEF Calls

\* A call that is over is mapped to an idle one.
LEMMA CallsOver ==
  ASSUME NEW ts \in SUBSET Tasks,
         task' = [t \in Tasks |-> IF t \in ts THEN IdleTask ELSE task[t]]
  PROVE  Calls' = [t \in Tasks |-> IF t \in ts THEN Store!Idle ELSE Calls[t]]
<1>1. Calls' = [s \in Tasks |-> CallOf(task'[s])]
  BY DEF Calls, CallOf
<1>2. CallOf(IdleTask) = Store!Idle
  BY DEF CallOf, IdleTask, Store!Idle
<1>3. \A s \in Tasks : CallOf(task'[s]) = IF s \in ts THEN Store!Idle ELSE Calls[s]
  BY <1>2 DEF Calls
<1>4. QED
  BY <1>1, <1>3

\* What each stage of a call is mapped to.
LEMMA CallMap ==
  ASSUME NEW w \in TaskType
  PROVE  /\ w.pc = "idle" => CallOf(w) = Store!Idle
         /\ w.pc \in {"mutex", "lock", "load", "temp", "sync", "rename"} =>
              CallOf(w) = Store!Asked(w.req)
         /\ w.pc = "parent" => CallOf(w) = Store!Applied(w.req, w.loaded)
         /\ w.pc = "done" => CallOf(w) = Store!Returned(w.req, w.loaded)
BY DEF CallOf, Store!Idle, Store!Asked, Store!Applied, Store!Returned

\* A call that ends is an end of the abstract call, whichever way it goes.
LEMMA EndsMap ==
  ASSUME StorageInv, NEW t \in Tasks, Ends(t), UNCHANGED <<file, kept>>
  PROVE  Store!PrefNext
<1>1. task' = [s \in Tasks |-> IF s \in {t} THEN IdleTask ELSE task[s]]
  BY Kinds DEF Ends, Goes
<1>2. Calls' = [s \in Tasks |-> IF s \in {t} THEN Store!Idle ELSE Calls[s]]
  BY <1>1, CallsOver
<1>3. Store!End({t})
  BY <1>2 DEF Store!End, Calls
<1>4. QED
  BY <1>3 DEF Store!PrefNext

\* Before the lock is had, and between the load and the rename, nothing is seen
\* of a call.
LEMMA HiddenMap ==
  ASSUME StorageInv, NEW t \in Tasks, NEW w \in TaskType, Goes(t, w), UNCHANGED <<file, kept>>,
         task[t].pc \in {"mutex", "lock", "load", "temp", "sync", "rename"},
         w.pc \in {"mutex", "lock", "load", "temp", "sync", "rename"}, w.req = task[t].req
  PROVE  UNCHANGED Store!prefVars
<1>1. Calls' = [Calls EXCEPT ![t] = CallOf(w)]
  BY CallMoved
<1>2. task[t] \in TaskType
  BY Kinds
<1>3. CallOf(w) = Calls[t]
  BY <1>2, CallMap DEF Calls
<1>4. Calls' = Calls
  BY <1>1, <1>3 DEF Calls
<1>5. QED
  BY <1>4 DEF Store!prefVars, Calls

\* The abstract actions, in terms of Calls.
LEMMA AbstractSteps ==
  ASSUME NEW t \in Tasks, NEW r, NEW c
  PROVE  /\ /\ Calls[t] = Store!Asked(r) /\ Calls' = [Calls EXCEPT ![t] = Store!Returned(r, file)]
            /\ (r.kind = "read" /\ file # Malformed) \/ (r.kind = "clear" /\ file = Absent)
            /\ UNCHANGED <<file, kept>>
            => Store!Answer(t)
         /\ /\ Calls[t] = Store!Asked(r) /\ Calls' = [Calls EXCEPT ![t] = Store!Applied(r, file)]
            /\ r.kind # "read" /\ (r.kind = "clear" \/ file # Malformed)
            /\ file' = Store!Result(file, r) /\ kept' = kept \cup {file'}
            => Store!Apply(t)
         /\ /\ Calls[t] = Store!Applied(r, c) /\ Calls' = [Calls EXCEPT ![t] = Store!Returned(r, c)]
            /\ file' = file /\ kept' = {file}
            => Store!Return(t)
<1>1. /\ Store!Asked(r).pc = "asked" /\ Store!Asked(r).req = r
      /\ Store!Applied(r, c).pc = "applied" /\ Store!Applied(r, c).req = r
      /\ Store!Applied(r, c).seen = c
  BY DEF Store!Asked, Store!Applied
<1>2. ASSUME Calls[t] = Store!Asked(r), Calls' = [Calls EXCEPT ![t] = Store!Returned(r, file)],
             (r.kind = "read" /\ file # Malformed) \/ (r.kind = "clear" /\ file = Absent),
             UNCHANGED <<file, kept>>
      PROVE  Store!Answer(t)
  <2>1. Calls[t].pc = "asked" /\ Calls[t].req = r
    BY <1>1, <1>2
  <2>2. /\ Calls[t].pc = "asked"
        /\ \/ Calls[t].req.kind = "read" /\ file # Malformed
           \/ Calls[t].req.kind = "clear" /\ file = Absent
        /\ Calls' = [Calls EXCEPT ![t] = Store!Returned(Calls[t].req, file)]
        /\ UNCHANGED <<file, kept>>
    BY <1>2, <2>1
  <2>3. QED
    BY <2>2, Zenon DEF Store!Answer, Calls
<1>3. ASSUME Calls[t] = Store!Asked(r), Calls' = [Calls EXCEPT ![t] = Store!Applied(r, file)],
             r.kind # "read", r.kind = "clear" \/ file # Malformed,
             file' = Store!Result(file, r), kept' = kept \cup {file'}
      PROVE  Store!Apply(t)
  <2>1. Calls[t].pc = "asked" /\ Calls[t].req = r
    BY <1>1, <1>3
  <2>2. /\ Calls[t].pc = "asked" /\ Calls[t].req.kind # "read"
        /\ Calls[t].req.kind = "clear" \/ file # Malformed
        /\ file' = Store!Result(file, Calls[t].req) /\ kept' = kept \cup {file'}
        /\ Calls' = [Calls EXCEPT ![t] = Store!Applied(Calls[t].req, file)]
    BY <1>3, <2>1
  <2>3. QED
    BY <2>2, Zenon DEF Store!Apply, Calls
<1>4. ASSUME Calls[t] = Store!Applied(r, c), Calls' = [Calls EXCEPT ![t] = Store!Returned(r, c)],
             file' = file, kept' = {file}
      PROVE  Store!Return(t)
  <2>1. Calls[t].pc = "applied" /\ Calls[t].req = r /\ Calls[t].seen = c
    BY <1>1, <1>4
  <2>2. /\ Calls[t].pc = "applied" /\ UNCHANGED file /\ kept' = {file}
        /\ Calls' = [Calls EXCEPT ![t] = Store!Returned(Calls[t].req, Calls[t].seen)]
    BY <1>4, <2>1
  <2>3. QED
    BY <2>2, Zenon DEF Store!Return, Calls
<1>5. QED
  BY <1>2, <1>3, <1>4

\* The load answers a read; the load of a file that is not JSON ends the call.
LEMMA LoadMap ==
  ASSUME StorageInv, NEW t \in Tasks, Load(t)
  PROVE  [Store!PrefNext]_(Store!prefVars)
<1> DEFINE r == task[t].req
<1>1. /\ task[t] \in TaskType /\ file \in Store!Content /\ task[t].pc = "load" /\ r \in Requests
      /\ r.kind # "clear" /\ UNCHANGED <<file, kept>>
  BY Kinds, TaskKinds DEF Load
<1>2. CASE file = Malformed
  BY <1>2, EndsMap DEF Load
<1>3. CASE file # Malformed /\ r.kind = "read"
  <2> DEFINE w == Loaded("done", r, file)
  <2>1. Goes(t, w)
    BY <1>3 DEF Load
  <2>2. w \in TaskType /\ w.pc = "done" /\ w.req = r /\ w.loaded = file
    BY <1>1, Stages DEF Loaded
  <2> HIDE DEF w
  <2>3. Calls' = [Calls EXCEPT ![t] = Store!Returned(r, file)]
    BY <2>1, <2>2, CallMoved, CallMap
  <2>4. Calls[t] = Store!Asked(r)
    BY <1>1, CallMap DEF Calls
  <2>5. Store!Answer(t)
    BY <1>1, <1>3, <2>3, <2>4, AbstractSteps
  <2>6. QED
    BY <2>5 DEF Store!PrefNext
<1>4. CASE file # Malformed /\ r.kind # "read"
  <2> DEFINE w == Loaded("temp", r, file)
  <2>1. Goes(t, w)
    BY <1>4 DEF Load
  <2>2. w \in TaskType /\ w.pc = "temp" /\ w.req = r
    BY <1>1, Stages DEF Loaded
  <2> HIDE DEF w
  <2>3. QED
    BY <1>1, <2>1, <2>2, HiddenMap
<1>5. QED
  BY <1>2, <1>3, <1>4

\* The unlink is the change, or the answer when the file was gone.
LEMMA UnlinkMap ==
  ASSUME StorageInv, NEW t \in Tasks, Unlink(t)
  PROVE  Store!PrefNext
<1> DEFINE r == task[t].req
           pc == IF file = Absent THEN "done" ELSE "parent"
           w == Loaded(pc, r, file)
<1>1. /\ task[t] \in TaskType /\ file \in Store!Content /\ file \in kept
      /\ task[t].pc = "load" /\ r \in Requests
      /\ r.kind = "clear" /\ file' = Absent /\ kept' = kept \cup {Absent} /\ Goes(t, w)
  BY Kinds, TaskKinds DEF Unlink
<1>2. w \in TaskType /\ w.pc = pc /\ w.req = r /\ w.loaded = file
  BY <1>1, Stages DEF Loaded
<1> HIDE DEF w
<1>3. Calls' = [Calls EXCEPT ![t] = CallOf(w)] /\ Calls[t] = Store!Asked(r)
  BY <1>1, <1>2, CallMoved, CallMap DEF Calls
<1>4. CASE file = Absent
  <2>1. CallOf(w) = Store!Returned(r, file) /\ kept' = kept
    BY <1>1, <1>2, <1>4, CallMap
  <2>2. Store!Answer(t)
    BY <1>1, <1>3, <1>4, <2>1, AbstractSteps
  <2>3. QED
    BY <2>2 DEF Store!PrefNext
<1>5. CASE file # Absent
  <2>1. CallOf(w) = Store!Applied(r, file)
    BY <1>2, <1>5, CallMap
  <2>2. Store!Result(file, r) = Absent
    BY <1>1 DEF Store!Result
  <2>3. Store!Apply(t)
    BY <1>1, <1>3, <2>1, <2>2, AbstractSteps
  <2>4. QED
    BY <2>3 DEF Store!PrefNext
<1>6. QED
  BY <1>4, <1>5

\* The rename is the change, on the content it found: nobody has written since.
LEMMA RenameMap ==
  ASSUME StorageInv, NEW t \in Tasks, Rename(t)
  PROVE  Store!PrefNext
<1> DEFINE r == task[t].req
           w == [task[t] EXCEPT !.pc = "parent"]
<1>1. /\ task[t] \in TaskType /\ task[t].pc = "rename" /\ r \in Requests
      /\ task[t].loaded = file /\ file # Malformed /\ file \in Store!Content
      /\ r.kind = "write" /\ Goes(t, w)
      /\ file' = Store!Result(file, r) /\ kept' = kept \cup {file'}
  BY Kinds, TaskKinds DEF Rename, StorageInv, Fresh
<1>2. w = [pc |-> "parent", req |-> r, loaded |-> file]
  BY <1>1, TaskKinds
<1>3. w \in TaskType /\ w.pc = "parent" /\ w.req = r /\ w.loaded = file
  BY <1>1, <1>2, Stages
<1> HIDE DEF w
<1>4. /\ Calls' = [Calls EXCEPT ![t] = Store!Applied(r, file)]
      /\ Calls[t] = Store!Asked(r)
  BY <1>1, <1>3, CallMoved, CallMap DEF Calls
<1>5. Store!Apply(t)
  BY <1>1, <1>4, AbstractSteps
<1>6. QED
  BY <1>5 DEF Store!PrefNext

\* The sync of the directory makes the change last.
LEMMA SyncMap ==
  ASSUME StorageInv, NEW t \in Tasks, SyncParent(t)
  PROVE  Store!PrefNext
<1> DEFINE r == task[t].req
           c == task[t].loaded
           w == [task[t] EXCEPT !.pc = "done"]
<1>1. /\ task[t] \in TaskType /\ task[t].pc = "parent" /\ r \in Requests /\ c \in Store!Content
      /\ Goes(t, w) /\ file' = file /\ kept' = {file}
  BY Kinds, TaskKinds DEF SyncParent
<1>2. w = [pc |-> "done", req |-> r, loaded |-> c]
  BY <1>1, TaskKinds
<1>3. w \in TaskType /\ w.pc = "done" /\ w.req = r /\ w.loaded = c
  BY <1>1, <1>2, Stages
<1> HIDE DEF w
<1>4. /\ Calls' = [Calls EXCEPT ![t] = Store!Returned(r, c)]
      /\ Calls[t] = Store!Applied(r, c)
  BY <1>1, <1>3, CallMoved, CallMap DEF Calls
<1>5. Store!Return(t)
  BY <1>1, <1>4, AbstractSteps
<1>6. QED
  BY <1>5 DEF Store!PrefNext

\* A kill ends calls; a power failure undoes at most what has not lasted.
LEMMA FaultMap ==
  ASSUME StorageInv, Outage \/ \E p \in Processes : Kill(p)
  PROVE  Store!PrefNext
<1>1. ASSUME NEW p \in Processes, Kill(p)
      PROVE  Store!PrefNext
  <2> DEFINE ts == {t \in Tasks : ProcessOf[t] = p}
  <2>1. /\ ts \in SUBSET Tasks /\ UNCHANGED <<file, kept>>
        /\ task' = [t \in Tasks |-> IF t \in ts THEN IdleTask ELSE task[t]]
    BY <1>1 DEF Kill
  <2> HIDE DEF ts
  <2>2. Calls' = [s \in Tasks |-> IF s \in ts THEN Store!Idle ELSE Calls[s]]
    BY <2>1, CallsOver
  <2>3. Store!End(ts)
    BY <2>1, <2>2 DEF Store!End, Calls
  <2>4. QED
    BY <2>1, <2>3 DEF Store!PrefNext
<1>2. CASE Outage
  <2>1. /\ file' \in kept /\ kept' = {file'} /\ Tasks \in SUBSET Tasks
        /\ task' = [t \in Tasks |-> IF t \in Tasks THEN IdleTask ELSE task[t]]
    BY <1>2 DEF Outage
  <2>2. Calls' = [s \in Tasks |-> IF s \in Tasks THEN Store!Idle ELSE Calls[s]]
    BY <2>1, CallsOver
  <2>3. Store!PowerFailure
    BY <2>1, <2>2 DEF Store!PowerFailure, Calls
  <2>4. QED
    BY <2>3 DEF Store!PrefNext
<1>3. QED
  BY <1>1, <1>2

\* Every step of the store is a step of the abstract one, or shows nothing.
LEMMA StepMap ==
  StorageInv /\ [StorageNext]_storageVars => [Store!PrefNext]_(Store!prefVars)
<1> SUFFICES ASSUME StorageInv, [StorageNext]_storageVars
             PROVE  [Store!PrefNext]_(Store!prefVars)
  OBVIOUS
<1>1. CASE UNCHANGED storageVars
  BY <1>1 DEF storageVars, Store!prefVars, CallOf
<1>2. ASSUME NEW t \in Tasks, NEW r \in Requests, Call(t, r)
      PROVE  Store!PrefNext
  <2> DEFINE w == At("mutex", r)
  <2>1. /\ task[t] = IdleTask /\ Goes(t, w) /\ UNCHANGED <<file, kept>>
        /\ r \in Store!Request
    BY <1>2, StorageAssumption DEF Call
  <2>2. w \in TaskType /\ w.pc = "mutex" /\ w.req = r
    BY Stages DEF At
  <2> HIDE DEF w
  <2>3. Calls' = [Calls EXCEPT ![t] = Store!Asked(r)]
    BY <2>1, <2>2, CallMoved, CallMap
  <2>4. task[t] \in TaskType /\ task[t].pc = "idle"
    BY <2>1, Kinds DEF IdleTask
  <2>5. Calls[t] = Store!Idle
    BY <2>4, CallMap DEF Calls
  <2>6. Store!Ask(t)
    BY <2>1, <2>3, <2>5, Zenon DEF Store!Ask, Calls
  <2>7. QED
    BY <2>6 DEF Store!PrefNext
<1>3. ASSUME NEW t \in Tasks, TakeMutex(t) \/ TakeLock(t) \/ WriteTemp(t) \/ SyncTemp(t)
      PROVE  UNCHANGED Store!prefVars
  <2>1. task[t] \in TaskType
    BY Kinds
  <2>2. CASE TakeMutex(t)
    <3> DEFINE w == At("lock", task[t].req)
    <3>1. task[t].pc = "mutex" /\ Goes(t, w) /\ UNCHANGED <<file, kept>>
      BY <2>2 DEF TakeMutex
    <3>2. w \in TaskType /\ w.pc = "lock" /\ w.req = task[t].req
      BY <2>1, <3>1, TaskKinds, Stages DEF At
    <3> HIDE DEF w
    <3>3. QED
      BY <3>1, <3>2, HiddenMap
  <2>3. CASE TakeLock(t)
    <3> DEFINE w == At("load", task[t].req)
    <3>1. task[t].pc = "lock" /\ Goes(t, w) /\ UNCHANGED <<file, kept>>
      BY <2>3 DEF TakeLock
    <3>2. w \in TaskType /\ w.pc = "load" /\ w.req = task[t].req
      BY <2>1, <3>1, TaskKinds, Stages DEF At
    <3> HIDE DEF w
    <3>3. QED
      BY <3>1, <3>2, HiddenMap
  <2>4. ASSUME NEW pc \in {"sync", "rename"}, task[t].pc \in {"temp", "sync"},
               Goes(t, [task[t] EXCEPT !.pc = pc]), UNCHANGED <<file, kept>>
        PROVE  UNCHANGED Store!prefVars
    <3> DEFINE w == [task[t] EXCEPT !.pc = pc]
           r == task[t].req
           c == task[t].loaded
    <3>1. w = [pc |-> pc, req |-> r, loaded |-> c] /\ r \in Requests /\ c \in Store!Content
      BY <2>1, <2>4, TaskKinds
    <3> HIDE DEF r, c
    <3>2. [pc |-> pc, req |-> r, loaded |-> c] \in TaskType
      BY <3>1, Stages
    <3>3. w \in TaskType /\ w.pc = pc /\ w.req = r
      BY <3>1, <3>2
    <3>4. w.req = task[t].req
      BY <3>3 DEF r
    <3> HIDE DEF w
    <3>5. QED
      BY <2>4, <3>3, <3>4, HiddenMap DEF w
  <2>5. QED
    BY <1>3, <2>2, <2>3, <2>4 DEF WriteTemp, SyncTemp
<1>4. ASSUME NEW t \in Tasks, ReturnOk(t) \/ Fails(t)
      PROVE  Store!PrefNext
  BY <1>4, EndsMap DEF ReturnOk, Fails
<1>5. QED
  BY <1>1, <1>2, <1>3, <1>4, LoadMap, UnlinkMap, RenameMap, SyncMap, FaultMap
     DEF StorageNext, Step

\* Nobody is in a call at first, on either level.
LEMMA StartMap == StorageInit => Store!PrefInit
BY DEF StorageInit, Store!PrefInit, CallOf, IdleTask, Store!Idle

-----------------------------------------------------------------------------

\* The inductive invariant of the store.
THEOREM StorageInvariance == StorageSpec => []StorageInv
<1>1. QED
  BY StorageStart, StorageStep, PTL DEF StorageSpec

\* Every variable keeps its kind, and no lock outlives the call that took it.
THEOREM StorageTypes == StorageSpec => []StorageTypeOK
<1>1. StorageInv => StorageTypeOK
  BY DEF StorageInv
<1>2. QED
  BY <1>1, StorageInvariance, PTL

\* transaction_lock: two tasks, of one process or of two, are never both at work
\* on the settings file.
THEOREM OneAtWork ==
  StorageSpec => [](\A s, t \in Tasks :
                      task[s].pc \in Holding /\ task[t].pc \in Holding => s = t)
<1>1. StorageInv => \A s, t \in Tasks :
                      task[s].pc \in Holding /\ task[t].pc \in Holding => s = t
  BY DEF StorageInv, Exclusive
<1>2. QED
  BY <1>1, StorageInvariance, PTL

\* The settings file, with its lock, temporary file, rename and syncs, implements
\* a map that each call changes at once and that lasts when the call returns.
THEOREM StoreImplemented == StorageSpec => StoreSpec
<1>1. StorageSpec => []StorageInv
  BY StorageInvariance
<1>2. StorageInit => Store!PrefInit
  BY StartMap
<1>3. StorageInv /\ [StorageNext]_storageVars => [Store!PrefNext]_(Store!prefVars)
  BY StepMap
<1>4. QED
  BY <1>1, <1>2, <1>3, PTL DEF StorageSpec, StoreSpec, Store!PrefSpec

-----------------------------------------------------------------------------
(***************************************************************************)
(* No deadlock.                                                            *)
(*                                                                         *)
(* A call may wait twice: for its process's mutex, and for the lock beside *)
(* the file while it holds the mutex.  Who holds the lock waits for        *)
(* nothing, so whoever waits, some call can go on.                         *)
(***************************************************************************)

Waits(t) ==
  \/ task[t].pc = "mutex" /\ mutex[ProcessOf[t]] # Nobody
  \/ task[t].pc = "lock" /\ lock # Nobody

\* As long as a call is under way, one is that waits for no other.
SomeCallGoesOn ==
  (\E t \in Tasks : task[t] # IdleTask) => \E t \in Tasks : task[t] # IdleTask /\ ~ Waits(t)

HolderWorks == lock \in Tasks => task[lock].pc \in Holding

\* A task moves on, alone, and takes or keeps the lock only to work.
LEMMA MoveWorks ==
  ASSUME StorageInv, HolderWorks, NEW t \in Tasks, NEW w, Goes(t, w),
         lock' = lock \/ lock' = t,
         lock' = t => w.pc \in Holding
  PROVE  HolderWorks'
<1>1. task'[t] = w /\ \A s \in Tasks : s # t => task'[s] = task[s]
  BY Kinds DEF Goes
<1>2. CASE lock' = t
  BY <1>1, <1>2 DEF HolderWorks
<1>3. CASE lock' # t
  <2>1. lock' = lock
    BY <1>3
  <2>2. QED
    BY <1>1, <1>3, <2>1 DEF HolderWorks
<1>4. QED
  BY <1>2, <1>3

\* Tasks that end hold the lock no more.
LEMMA ReleaseWorks ==
  ASSUME HolderWorks, NEW ts \in SUBSET Tasks, Releases(ts),
         \A s \in Tasks \ ts : task'[s] = task[s]
  PROVE  HolderWorks'
<1> SUFFICES ASSUME lock' \in Tasks
             PROVE  task'[lock'].pc \in Holding
  BY DEF HolderWorks
<1>1. lock' = lock /\ lock \notin ts
  BY StorageAssumption DEF Releases
<1>2. QED
  BY <1>1 DEF HolderWorks

LEMMA EndWorks ==
  ASSUME StorageInv, HolderWorks, NEW t \in Tasks, Ends(t)
  PROVE  HolderWorks'
<1>1. \A s \in Tasks \ {t} : task'[s] = task[s]
  BY Kinds DEF Ends, Goes
<1>2. QED
  BY <1>1, ReleaseWorks DEF Ends

LEMMA StepWorks == StorageInv /\ HolderWorks /\ [StorageNext]_storageVars => HolderWorks'
<1> SUFFICES ASSUME StorageInv, HolderWorks, [StorageNext]_storageVars
             PROVE  HolderWorks'
  OBVIOUS
<1>1. ASSUME NEW t \in Tasks, NEW r \in Requests, Call(t, r)
      PROVE  HolderWorks'
  <2>1. lock # t /\ lock' = lock /\ Goes(t, At("mutex", r))
    BY <1>1, Kinds DEF Call, IdleTask
  <2>2. QED
    BY <2>1, MoveWorks
<1>2. ASSUME NEW t \in Tasks, TakeMutex(t)
      PROVE  HolderWorks'
  <2>1. lock # t /\ lock' = lock /\ Goes(t, At("lock", task[t].req))
    BY <1>2, Kinds DEF TakeMutex
  <2>2. QED
    BY <2>1, MoveWorks
<1>3. ASSUME NEW t \in Tasks, TakeLock(t)
      PROVE  HolderWorks'
  <2>1. lock' = t /\ Goes(t, At("load", task[t].req)) /\ At("load", task[t].req).pc \in Holding
    BY <1>3 DEF TakeLock, At, Holding
  <2>2. QED
    BY <2>1, MoveWorks
<1>4. ASSUME NEW t \in Tasks,
             Load(t) \/ Unlink(t) \/ WriteTemp(t) \/ SyncTemp(t) \/ Rename(t) \/ SyncParent(t)
      PROVE  HolderWorks'
  <2>1. CASE Ends(t)
    BY <2>1, EndWorks
  <2>2. CASE ~ Ends(t)
    <3>1. lock' = lock
      BY <1>4, <2>2 DEF Load, Unlink, WriteTemp, SyncTemp, Rename, SyncParent
    <3>2. PICK w : Goes(t, w) /\ w.pc \in Holding
      <4>1. CASE Load(t) \/ Unlink(t)
        <5>1. PICK pc \in Holding : Goes(t, Loaded(pc, task[t].req, file))
          BY <2>2, <4>1 DEF Load, Unlink, Holding
        <5>2. Loaded(pc, task[t].req, file).pc = pc
          BY DEF Loaded
        <5>3. QED
          BY <5>1, <5>2
      <4>2. CASE WriteTemp(t) \/ SyncTemp(t) \/ Rename(t) \/ SyncParent(t)
        <5>1. PICK pc \in {"sync", "rename", "parent", "done"} :
                Goes(t, [task[t] EXCEPT !.pc = pc]) /\ task[t].pc \in Holding
          BY <4>2 DEF WriteTemp, SyncTemp, Rename, SyncParent, Holding
        <5>2. task[t] \in TaskType
          BY Kinds
        <5>3. [task[t] EXCEPT !.pc = pc].pc = pc
          BY <5>1, <5>2, TaskKinds DEF Holding
        <5>4. QED
          BY <5>1, <5>3 DEF Holding
      <4>3. QED
        BY <1>4, <4>1, <4>2
    <3>3. QED
      BY <3>1, <3>2, MoveWorks
  <2>3. QED
    BY <2>1, <2>2
<1>5. ASSUME NEW t \in Tasks, ReturnOk(t) \/ Fails(t)
      PROVE  HolderWorks'
  BY <1>5, EndWorks DEF ReturnOk, Fails
<1>6. ASSUME NEW p \in Processes, Kill(p)
      PROVE  HolderWorks'
  <2> DEFINE ts == {t \in Tasks : ProcessOf[t] = p}
  <2>1. Releases(ts) /\ \A s \in Tasks \ ts : task'[s] = task[s]
    BY <1>6 DEF Kill
  <2>2. ts \in SUBSET Tasks
    OBVIOUS
  <2> HIDE DEF ts
  <2>3. QED
    BY <2>1, <2>2, ReleaseWorks
<1>7. CASE Outage
  BY <1>7, ReleaseWorks DEF Outage
<1>8. CASE UNCHANGED storageVars
  BY <1>8 DEF storageVars, HolderWorks
<1>9. QED
  BY <1>1, <1>2, <1>3, <1>4, <1>5, <1>6, <1>7, <1>8 DEF StorageNext, Step

\* transaction_lock under STORE_LOCK: as long as a call is under way some call can go on,
\* however many processes there are, whatever fails and whoever is killed.  This is the
\* part of CallEnds that is no liveness.
THEOREM NoDeadlock == StorageSpec => []SomeCallGoesOn
<1>1. StorageInit => HolderWorks
  BY StorageAssumption DEF StorageInit, HolderWorks
<1>2. StorageInv /\ HolderWorks => SomeCallGoesOn
  <2> SUFFICES ASSUME StorageInv, HolderWorks, NEW t \in Tasks, task[t] # IdleTask
               PROVE  \E s \in Tasks : task[s] # IdleTask /\ ~ Waits(s)
    BY DEF SomeCallGoesOn
  <2>0. /\ \A s \in Tasks : task[s].pc \in {"idle", "mutex", "lock"} \cup Holding
        /\ \A s \in Tasks : task[s].pc = "idle" <=> task[s] = IdleTask
    BY Kinds, TaskKinds
  <2>1. CASE lock # Nobody
    <3>1. lock \in Tasks /\ task[lock].pc \in Holding
      BY <2>1, Kinds DEF HolderWorks
    <3>2. QED
      BY <2>0, <3>1 DEF Holding, Waits
  <2>2. CASE lock = Nobody /\ task[t].pc = "mutex" /\ mutex[ProcessOf[t]] # Nobody
    <3> DEFINE s == mutex[ProcessOf[t]]
    <3>1. ProcessOf[t] \in Processes
      BY StorageAssumption
    <3>2. s \in Tasks /\ task[s].pc \notin {"idle", "mutex"}
      BY <2>2, <3>1, Kinds
    <3>3. QED
      BY <2>0, <2>2, <3>2 DEF Holding, Waits
  <2>3. CASE lock = Nobody /\ (task[t].pc = "mutex" => mutex[ProcessOf[t]] = Nobody)
    BY <2>0, <2>3 DEF Waits
  <2>4. QED
    BY <2>1, <2>2, <2>3
<1>3. QED
  BY <1>1, <1>2, StepWorks, StorageInvariance, PTL DEF StorageSpec

=============================================================================
