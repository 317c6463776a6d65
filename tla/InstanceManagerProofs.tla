------------------------ MODULE InstanceManagerProofs ------------------------
(***************************************************************************)
(* Proofs about the registry of instances, for any number of tasks, ids,   *)
(* owners and registrations: every registration that ends is reported to   *)
(* one caller, and a prune clears what it found.                           *)
(***************************************************************************)
EXTENDS InstanceManager, CollectionLemmas

-----------------------------------------------------------------------------
(* The inductive invariant *)

\* What a prune found stale was a registration that had been made.
FoundWasRegistered ==
  \A t \in Tasks : task[t].op = "prune" =>
    \A id \in DOMAIN task[t].found : task[t].found[id] <= registered[id]

ManagerInv ==
  /\ TypeOK /\ EveryRemovalReportedOnce
  /\ FoundWasRegistered /\ PruneClearsWhatItFound

\* What a task's record can be.
LEMMA DoingCases ==
  ASSUME NEW d \in Doing
  PROVE  \/ d = Idle /\ d.op = "idle"
         \/ /\ d.op = "prune" /\ d.todo \in SUBSET Ids /\ d.found \in Maps(Ids, 0..MaxRegistrations)
            /\ d \in [op : {"prune"}, todo : SUBSET Ids, found : Maps(Ids, 0..MaxRegistrations)]
         \/ /\ d.op = "import" /\ d.at \in {"get", "register", "run"} /\ d.todo \in SUBSET DOMAIN Stored
            /\ d \in [op : {"import"}, at : {"get", "register", "run"}, todo : SUBSET DOMAIN Stored]
BY DEF Doing, Idle

LEMMA IdleIsDoing == Idle \in Doing /\ Idle.op = "idle"
BY DEF Doing, Idle

\* The next record of an import is one of those left.
LEMMA NextRecordLemma ==
  ASSUME NEW t \in Tasks, TypeOK, task[t].op = "import", task[t].todo # {}
  PROVE  NextRecord(t) \in task[t].todo /\ NextRecord(t) \in Ids
<1>1. task[t].todo \in SUBSET DOMAIN Stored
  BY DoingCases DEF TypeOK
<1>2. task[t].todo \in SUBSET Nat
  BY <1>1, ManagerAssumption
<1>3. QED
  BY <1>1, <1>2, MinLemma, ManagerAssumption DEF NextRecord

LEMMA InitManager == Init => ManagerInv
<1> SUFFICES ASSUME Init PROVE ManagerInv
  OBVIOUS
<1>1. inner \in [DOMAIN inner -> Handles] /\ DOMAIN inner = {}
  BY DEF Init, EmptyMap
<1>2. \A t \in Tasks : task[t] = Idle
  BY DEF Init
<1>3. TypeOK
  BY <1>1, <1>2, IdleIsDoing, ManagerAssumption DEF Init, TypeOK
<1>4. EveryRemovalReportedOnce
  BY <1>1 DEF Init, EveryRemovalReportedOnce
<1>5. FoundWasRegistered /\ PruneClearsWhatItFound
  BY <1>2, IdleIsDoing DEF FoundWasRegistered, PruneClearsWhatItFound
<1>6. QED
  BY <1>3, <1>4, <1>5 DEF ManagerInv

-----------------------------------------------------------------------------
(* Steps on the registry *)

\* What a step must keep of a task: its record's shape and what it says.
TaskOK(t) ==
  /\ task[t] \in Doing
  /\ task[t].op = "prune" =>
       /\ task[t].todo \subseteq DOMAIN task[t].found
       /\ \A id \in DOMAIN task[t].found :
            /\ task[t].found[id] <= registered[id]
            /\ id \notin task[t].todo /\ id \in DOMAIN inner => registered[id] > task[t].found[id]
  /\ task[t].op = "import" /\ task[t].at # "get" => task[t].todo # {}

\* What the registry's tables are, apart from the tasks.
RegistryOK ==
  /\ inner \in Maps(Ids, Handles)
  /\ result \in [Tasks -> {"none", "ok", "AlreadyExists", "InvalidTransition", "NotFound"}]
  /\ up \subseteq Procs
  /\ registered \in [Ids -> 0..MaxRegistrations]
  /\ removals \in [Ids -> 0..MaxRegistrations]
  /\ EveryRemovalReportedOnce

LEMMA InvParts ==
  ManagerInv <=> RegistryOK /\ task \in [Tasks -> Doing] /\ \A t \in Tasks : TaskOK(t)
<1>1. inner \in Maps(Ids, Handles) <=> inner \in [DOMAIN inner -> Handles] /\ DOMAIN inner \subseteq Ids
  BY MapsDef
<1>2. QED
  BY <1>1 DEF ManagerInv, RegistryOK, TaskOK, TypeOK, FoundWasRegistered, PruneClearsWhatItFound

\* An id is registered ever more often, and comes into the registry by a registration.
Evolves ==
  \A id \in Ids : /\ registered'[id] >= registered[id]
                  /\ id \in DOMAIN inner' \ DOMAIN inner => registered'[id] > registered[id]

\* A step is safe if it keeps the registry's tables and the tasks it touches.
LEMMA StepLemma ==
  ASSUME ManagerInv, RegistryOK', Evolves, task' \in [Tasks -> Doing],
         \A t \in Tasks : task'[t] = task[t] \/ TaskOK(t)'
  PROVE  ManagerInv'
<1>1. ASSUME NEW t \in Tasks, task'[t] = task[t] PROVE TaskOK(t)'
  <2>1. TaskOK(t) /\ task[t] \in Doing /\ RegistryOK
    BY InvParts
  <2>2. CASE task[t].op = "prune"
    <3> DEFINE found == task[t].found
    <3>1. found \in Maps(Ids, 0..MaxRegistrations)
      BY <2>1, <2>2, DoingCases
    <3>2. DOMAIN found \subseteq Ids /\ \A id \in DOMAIN found : found[id] \in 0..MaxRegistrations
      <4> HIDE DEF found
      <4> QED BY <3>1, MapsEntries
    <3>3. \A id \in DOMAIN found :
            registered[id] \in Nat /\ registered'[id] \in Nat /\ found[id] \in Nat
      <4>1. \A id \in Ids : registered[id] \in Nat /\ registered'[id] \in Nat
        BY <2>1, ManagerAssumption DEF RegistryOK
      <4>2. 0..MaxRegistrations \subseteq Nat
        BY ManagerAssumption
      <4> HIDE DEF found
      <4>3. QED
        BY <3>2, <4>1, <4>2
    <3>4. \A id \in DOMAIN found :
            /\ found[id] <= registered[id]
            /\ id \notin task[t].todo /\ id \in DOMAIN inner => registered[id] > found[id]
      BY <2>1, <2>2 DEF TaskOK
    <3>5. \A id \in DOMAIN found :
            /\ found[id] <= registered'[id]
            /\ id \notin task[t].todo /\ id \in DOMAIN inner' => registered'[id] > found[id]
      <4> TAKE id \in DOMAIN found
      <4>1. /\ registered'[id] >= registered[id]
            /\ id \in DOMAIN inner' \ DOMAIN inner => registered'[id] > registered[id]
        BY <3>2 DEF Evolves
      <4> HIDE DEF found
      <4>2. QED
        BY <3>3, <3>4, <4>1
    <3>6. QED
      BY <1>1, <2>1, <2>2, <3>5 DEF TaskOK
  <2>3. CASE task[t].op # "prune"
    BY <1>1, <2>1, <2>3 DEF TaskOK
  <2>4. QED
    BY <2>2, <2>3
<1>2. \A t \in Tasks : TaskOK(t)'
  BY <1>1
<1>3. RegistryOK' /\ task' \in [Tasks -> Doing] /\ (\A t \in Tasks : TaskOK(t)') => ManagerInv'
  <2>1. inner' \in Maps(Ids, Handles)
          <=> inner' \in [DOMAIN inner' -> Handles] /\ DOMAIN inner' \subseteq Ids
    BY MapsDef
  <2>2. QED
    BY <2>1 DEF ManagerInv, RegistryOK, TaskOK, TypeOK, FoundWasRegistered, PruneClearsWhatItFound
<1>4. QED
  BY <1>2, <1>3

\* A new registration.
LEMMA AddEntryLemma ==
  ASSUME RegistryOK, NEW id \in Ids, NEW handle \in Handles, AddEntry(id, handle),
         UNCHANGED <<up, removals>>,
         result' \in [Tasks -> {"none", "ok", "AlreadyExists", "InvalidTransition", "NotFound"}]
  PROVE  RegistryOK' /\ Evolves
<1>1. inner' \in Maps(Ids, Handles) /\ DOMAIN inner' = DOMAIN inner \cup {id}
  BY InsertType, InsertLemma DEF AddEntry, RegistryOK
<1>2. /\ registered' = [registered EXCEPT ![id] = @ + 1] /\ id \notin DOMAIN inner
      /\ registered[id] < MaxRegistrations
      /\ registered \in [Ids -> 0..MaxRegistrations] /\ MaxRegistrations \in Nat
  BY ManagerAssumption DEF AddEntry, RegistryOK
<1>3. registered' \in [Ids -> 0..MaxRegistrations]
  BY <1>2
<1>4. /\ registered'[id] = registered[id] + 1
      /\ \A i \in Ids : i # id => registered'[i] = registered[i]
  BY <1>2
<1>5. removals \in [Ids -> 0..MaxRegistrations]
  BY DEF RegistryOK
<1>6. EveryRemovalReportedOnce'
  BY <1>1, <1>2, <1>4, <1>5 DEF EveryRemovalReportedOnce, RegistryOK
<1>7. QED
  BY <1>1, <1>2, <1>3, <1>4, <1>6 DEF RegistryOK, Evolves

\* A removal, whether the id is there or not.
LEMMA RemoveEntryLemma ==
  ASSUME RegistryOK, NEW id \in Ids, RemoveEntry(id), UNCHANGED <<result, up, registered>>
  PROVE  RegistryOK' /\ Evolves
<1>1. inner' \in Maps(Ids, Handles) /\ DOMAIN inner' = DOMAIN inner \ {id}
  BY WithoutType, WithoutLemma DEF RemoveEntry, RegistryOK
<1>2. registered \in [Ids -> 0..MaxRegistrations] /\ removals \in [Ids -> 0..MaxRegistrations]
  BY DEF RegistryOK
<1>3. id \in DOMAIN inner => registered[id] - removals[id] = 1
  BY DEF RegistryOK, EveryRemovalReportedOnce
<1>4. removals' \in [Ids -> 0..MaxRegistrations]
  BY <1>2, <1>3, ManagerAssumption DEF RemoveEntry
<1>5. /\ removals'[id] = removals[id] + (IF id \in DOMAIN inner THEN 1 ELSE 0)
      /\ \A i \in Ids : i # id => removals'[i] = removals[i]
  BY <1>2 DEF RemoveEntry
<1>6. EveryRemovalReportedOnce'
  BY <1>1, <1>2, <1>5, ManagerAssumption DEF EveryRemovalReportedOnce, RegistryOK
<1>7. QED
  BY <1>1, <1>2, <1>4, <1>6 DEF RegistryOK, Evolves

\* A change of an entry's handle.
LEMMA ChangeEntryLemma ==
  ASSUME RegistryOK, NEW id \in DOMAIN inner, inner' \in [DOMAIN inner -> Handles],
         UNCHANGED <<up, registered, removals>>,
         result' \in [Tasks -> {"none", "ok", "AlreadyExists", "InvalidTransition", "NotFound"}]
  PROVE  RegistryOK' /\ Evolves
<1>1. inner' \in Maps(Ids, Handles) /\ DOMAIN inner' = DOMAIN inner
  BY MapsDef DEF RegistryOK
<1>2. registered \in [Ids -> 0..MaxRegistrations]
  BY DEF RegistryOK
<1>3. QED
  BY <1>1, <1>2, ManagerAssumption DEF RegistryOK, EveryRemovalReportedOnce, Evolves

-----------------------------------------------------------------------------
(* The methods that take the lock once *)

LEMMA Unfolded ==
  ASSUME ManagerInv
  PROVE  /\ RegistryOK /\ TypeOK /\ task \in [Tasks -> Doing] /\ \A t \in Tasks : TaskOK(t)
         /\ DOMAIN inner \subseteq Ids /\ inner \in [DOMAIN inner -> Handles]
         /\ \A id \in Ids : registered[id] \in Nat
  BY InvParts, ManagerAssumption DEF ManagerInv, TypeOK

LEMMA RegisterKeeps ==
  ASSUME ManagerInv, NEW t \in Tasks, NEW id \in Ids, NEW pid \in Procs \cup {None},
         Register(t, id, pid)
  PROVE  ManagerInv'
<1>1. [state |-> "pending", pid |-> pid, control_port |-> None] \in Handles
  BY DEF Handles, States
<1>2. RegistryOK' /\ Evolves
  BY <1>1, Unfolded, AddEntryLemma DEF Register, RegistryOK
<1>3. QED
  BY <1>2, Unfolded, StepLemma DEF Register

LEMMA SetKeeps ==
  ASSUME ManagerInv, NEW t \in Tasks, NEW id \in Ids,
         \/ \E next \in States : SetState(t, id, next)
         \/ \E w \in Procs : SetControlPort(t, id, w) \/ SetPid(t, id, w)
  PROVE  ManagerInv'
<1>1. /\ id \in DOMAIN inner /\ UNCHANGED <<task, result, up, registered, removals>>
      /\ \/ \E next \in States : inner' = [inner EXCEPT ![id].state = next]
         \/ \E w \in Procs : inner' = [inner EXCEPT ![id].control_port = w]
         \/ \E w \in Procs : inner' = [inner EXCEPT ![id].pid = w]
  BY DEF SetState, SetControlPort, SetPid
<1>2. inner' \in [DOMAIN inner -> Handles]
  BY <1>1, Unfolded DEF Handles
<1>3. RegistryOK' /\ Evolves
  BY <1>1, <1>2, Unfolded, ChangeEntryLemma DEF RegistryOK
<1>4. QED
  BY <1>1, <1>3, Unfolded, StepLemma

LEMMA RemoveKeeps ==
  ASSUME ManagerInv, NEW t \in Tasks, NEW id \in Ids, RemoveInstance(t, id)
  PROVE  ManagerInv'
<1>1. RegistryOK' /\ Evolves
  BY Unfolded, RemoveEntryLemma DEF RemoveInstance
<1>2. QED
  BY <1>1, Unfolded, StepLemma DEF RemoveInstance

LEMMA ExitsKeeps == ASSUME ManagerInv, NEW w \in up, ProcessExits(w) PROVE ManagerInv'
<1>1. RegistryOK' /\ Evolves
  BY Unfolded DEF ProcessExits, RegistryOK, EveryRemovalReportedOnce, Evolves
<1>2. QED
  BY <1>1, Unfolded, StepLemma DEF ProcessExits

-----------------------------------------------------------------------------
(* prune_stale *)

\* A step that leaves the registry alone and lets one task go on.
LEMMA TaskStep ==
  ASSUME ManagerInv, NEW t \in Tasks, NEW d, task' = [task EXCEPT ![t] = d],
         UNCHANGED <<inner, up, registered, removals>>,
         result' \in [Tasks -> {"none", "ok", "AlreadyExists", "InvalidTransition", "NotFound"}],
         d \in Doing,
         d.op = "prune" =>
           /\ d.todo \subseteq DOMAIN d.found
           /\ \A id \in DOMAIN d.found :
                /\ d.found[id] <= registered[id]
                /\ id \notin d.todo /\ id \in DOMAIN inner => registered[id] > d.found[id],
         d.op = "import" /\ d.at # "get" => d.todo # {}
  PROVE  ManagerInv'
<1>1. RegistryOK' /\ Evolves
  BY Unfolded DEF RegistryOK, EveryRemovalReportedOnce, Evolves
<1>2. task'[t] = d /\ task' \in [Tasks -> Doing] /\ \A s \in Tasks : s # t => task'[s] = task[s]
  BY Unfolded
<1>3. TaskOK(t)'
  BY <1>2 DEF TaskOK
<1>4. QED
  BY <1>1, <1>2, <1>3, StepLemma

LEMMA IdleStep ==
  ASSUME ManagerInv, NEW t \in Tasks, task' = [task EXCEPT ![t] = Idle],
         UNCHANGED <<inner, up, registered, removals>>,
         result' \in [Tasks -> {"none", "ok", "AlreadyExists", "InvalidTransition", "NotFound"}]
  PROVE  ManagerInv'
BY IdleIsDoing, TaskStep

LEMMA PruneListKeeps == ASSUME ManagerInv, NEW t \in Tasks, PruneList(t) PROVE ManagerInv'
<1> DEFINE stale == {id \in DOMAIN inner : ~IsAlive(inner[id])}
           found == [id \in stale |-> registered[id]]
           d == [op |-> "prune", todo |-> stale, found |-> found]
<1>1. stale \subseteq Ids
  BY Unfolded
<1>2. /\ task' = [task EXCEPT ![t] = d]
      /\ UNCHANGED <<inner, result, up, registered, removals>>
  BY DEF PruneList
<1>3. result' \in [Tasks -> {"none", "ok", "AlreadyExists", "InvalidTransition", "NotFound"}]
  BY <1>2, Unfolded DEF RegistryOK
<1> HIDE DEF stale
<1>4. found \in Maps(Ids, 0..MaxRegistrations)
  <2>1. registered \in [Ids -> 0..MaxRegistrations]
    BY Unfolded DEF RegistryOK
  <2>2. found \in [stale -> 0..MaxRegistrations]
    BY <1>1, <2>1
  <2>3. QED
    BY <1>1, <2>2 DEF Maps
<1>5. d \in Doing
  BY <1>1, <1>4 DEF Doing
<1>6. \A id \in DOMAIN found : found[id] <= registered[id] /\ id \in stale
  BY <1>1, Unfolded
<1>7. QED
  BY <1>2, <1>3, <1>5, <1>6, TaskStep

LEMMA PruneRemoveKeeps ==
  ASSUME ManagerInv, NEW t \in Tasks, task[t].op = "prune", NEW id \in task[t].todo,
         PruneRemove(t, id)
  PROVE  ManagerInv'
<1>1. /\ TaskOK(t) /\ task[t] \in [op : {"prune"}, todo : SUBSET Ids, found : Maps(Ids, 0..MaxRegistrations)]
      /\ id \in Ids /\ task[t].todo \in SUBSET Ids
  BY Unfolded, DoingCases DEF TypeOK
<1>2. /\ task' = [task EXCEPT ![t].todo = @ \ {id}] /\ RemoveEntry(id)
      /\ UNCHANGED <<result, up, registered>>
  BY DEF PruneRemove
<1>3. RegistryOK' /\ Evolves
  BY <1>1, <1>2, Unfolded, RemoveEntryLemma
<1>4. DOMAIN inner' = DOMAIN inner \ {id}
  BY <1>2, WithoutLemma DEF RemoveEntry
<1>5. /\ task'[t] \in [op : {"prune"}, todo : SUBSET Ids, found : Maps(Ids, 0..MaxRegistrations)]
      /\ task'[t].op = "prune"
      /\ task'[t].todo = task[t].todo \ {id} /\ task'[t].found = task[t].found
  BY <1>1, <1>2, Unfolded
<1>6. task' \in [Tasks -> Doing] /\ \A s \in Tasks : s # t => task'[s] = task[s]
  BY <1>2, <1>5, Unfolded DEF Doing
<1>7. TaskOK(t)'
  BY <1>1, <1>2, <1>4, <1>5, <1>6 DEF TaskOK
<1>8. QED
  BY <1>3, <1>6, <1>7, StepLemma

-----------------------------------------------------------------------------
(* import_from_store *)

\* The record of a task that imports.
LEMMA ImportRecord ==
  ASSUME TypeOK, NEW t \in Tasks, task[t].op = "import"
  PROVE  task[t].todo \in SUBSET DOMAIN Stored /\ task[t].at \in {"get", "register", "run"}
BY DoingCases DEF TypeOK

\* A step of an import's loop.
LEMMA ImportStep ==
  ASSUME ManagerInv, NEW t \in Tasks, task[t].op = "import", RegistryOK', Evolves,
         NEW at \in {"get", "register", "run"}, NEW todo \in SUBSET DOMAIN Stored,
         at # "get" => todo # {},
         \/ task' = [task EXCEPT ![t].at = at, ![t].todo = todo]
         \/ task' = [task EXCEPT ![t].at = at] /\ todo = task[t].todo
         \/ task' = [task EXCEPT ![t].todo = todo] /\ at = task[t].at
  PROVE  ManagerInv'
<1> DEFINE Import == [op : {"import"}, at : {"get", "register", "run"}, todo : SUBSET DOMAIN Stored]
<1>1. task[t] \in Import /\ task \in [Tasks -> Doing]
  BY DoingCases, Unfolded
<1>2. /\ task'[t] \in Import /\ task'[t].at = at /\ task'[t].todo = todo
      /\ \A s \in Tasks : s # t => task'[s] = task[s]
  BY <1>1
<1>3. task' \in [Tasks -> Doing]
  BY <1>1, <1>2 DEF Doing
<1>4. TaskOK(t)'
  BY <1>2, <1>3 DEF TaskOK
<1>5. QED
  BY <1>2, <1>3, <1>4, StepLemma

LEMMA ImportListKeeps == ASSUME ManagerInv, NEW t \in Tasks, ImportList(t) PROVE ManagerInv'
<1> DEFINE d == [op |-> "import", at |-> "get", todo |-> {id \in DOMAIN Stored : Stored[id] \in up}]
<1>1. d \in Doing
  BY DEF Doing
<1>2. QED
  BY <1>1, Unfolded, TaskStep DEF ImportList, RegistryOK

LEMMA ImportGetKeeps == ASSUME ManagerInv, NEW t \in Tasks, ImportGet(t) PROVE ManagerInv'
<1>1. /\ task[t].op = "import" /\ task[t].at = "get"
      /\ UNCHANGED <<inner, up, registered, removals>>
  BY DEF ImportGet
<1>2. task[t].todo \in SUBSET DOMAIN Stored
  BY <1>1, ImportRecord, Unfolded
<1>3. CASE task[t].todo = {} /\ ImportEnds(t, "ok")
  BY <1>1, <1>3, Unfolded, IdleStep DEF ImportEnds, RegistryOK
<1>4. CASE /\ task[t].todo # {} /\ UNCHANGED result
           /\ task' = [task EXCEPT ![t].todo = task[t].todo \ {NextRecord(t)}]
  <2>1. RegistryOK' /\ Evolves
    BY <1>1, <1>4, Unfolded DEF RegistryOK, EveryRemovalReportedOnce, Evolves
  <2>2. task[t].todo \ {NextRecord(t)} \in SUBSET DOMAIN Stored
    BY <1>2
  <2>3. QED
    BY <1>1, <1>4, <2>1, <2>2, ImportStep
<1>5. CASE /\ task[t].todo # {} /\ UNCHANGED result
           /\ task' = [task EXCEPT ![t].at = "register"]
  <2>1. RegistryOK' /\ Evolves
    BY <1>1, <1>5, Unfolded DEF RegistryOK, EveryRemovalReportedOnce, Evolves
  <2>2. QED
    BY <1>1, <1>2, <1>5, <2>1, ImportStep
<1>6. QED
  BY <1>3, <1>4, <1>5 DEF ImportGet

LEMMA ImportRegisterKeeps ==
  ASSUME ManagerInv, NEW t \in Tasks, ImportRegister(t) PROVE ManagerInv'
<1> DEFINE id == NextRecord(t)
<1>1. task[t].op = "import" /\ task[t].at = "register" /\ UNCHANGED <<up, removals>>
  BY DEF ImportRegister
<1>2. task[t].todo # {} /\ task[t].todo \in SUBSET DOMAIN Stored
  BY <1>1, ImportRecord, Unfolded DEF TaskOK
<1>3. id \in task[t].todo /\ id \in Ids /\ Stored[id] \in Procs
  BY <1>1, <1>2, NextRecordLemma, Unfolded, ManagerAssumption
<1>4. CASE /\ AddEntry(id, [state |-> "pending", pid |-> Stored[id], control_port |-> Stored[id]])
           /\ task' = [task EXCEPT ![t].at = "run"] /\ UNCHANGED result
  <2>1. [state |-> "pending", pid |-> Stored[id], control_port |-> Stored[id]] \in Handles
    BY <1>3 DEF Handles, States
  <2>2. RegistryOK' /\ Evolves
    BY <1>1, <1>3, <1>4, <2>1, Unfolded, AddEntryLemma DEF RegistryOK
  <2>3. QED
    BY <1>1, <1>2, <1>4, <2>2, ImportStep
<1>5. CASE ImportEnds(t, "AlreadyExists") /\ UNCHANGED <<inner, registered>>
  BY <1>1, <1>5, Unfolded, IdleStep DEF ImportEnds, RegistryOK
<1>6. QED
  BY <1>4, <1>5 DEF ImportRegister

LEMMA ImportRunKeeps == ASSUME ManagerInv, NEW t \in Tasks, ImportRun(t) PROVE ManagerInv'
<1> DEFINE id == NextRecord(t)
<1>1. task[t].op = "import" /\ task[t].at = "run" /\ UNCHANGED <<up, registered, removals>>
  BY DEF ImportRun
<1>2. task[t].todo \in SUBSET DOMAIN Stored /\ task[t].todo \ {id} \in SUBSET DOMAIN Stored
  BY <1>1, ImportRecord, Unfolded
<1>3. CASE /\ id \in DOMAIN inner /\ inner' = [inner EXCEPT ![id].state = "running"]
           /\ task' = [task EXCEPT ![t].at = "get", ![t].todo = task[t].todo \ {id}]
           /\ UNCHANGED result
  <2>1. inner' \in [DOMAIN inner -> Handles]
    BY <1>3, Unfolded DEF Handles, States
  <2>2. RegistryOK' /\ Evolves
    BY <1>1, <1>3, <2>1, Unfolded, ChangeEntryLemma DEF RegistryOK
  <2>3. QED
    BY <1>1, <1>2, <1>3, <2>2, ImportStep
<1>4. CASE (ImportEnds(t, "InvalidTransition") \/ ImportEnds(t, "NotFound")) /\ UNCHANGED inner
  BY <1>1, <1>4, Unfolded, IdleStep DEF ImportEnds, RegistryOK
<1>5. QED
  BY <1>3, <1>4 DEF ImportRun

-----------------------------------------------------------------------------
(* The theorems *)

LEMMA NextManager == ASSUME ManagerInv, [Next]_vars PROVE ManagerInv'
<1>1. ASSUME NEW t \in Tasks, NEW id \in Ids,
             \/ \E pid \in Procs \cup {None} : Register(t, id, pid)
             \/ \E next \in States : SetState(t, id, next)
             \/ \E w \in Procs : SetControlPort(t, id, w) \/ SetPid(t, id, w)
             \/ RemoveInstance(t, id)
      PROVE  ManagerInv'
  BY <1>1, RegisterKeeps, SetKeeps, RemoveKeeps
<1>2. ASSUME NEW t \in Tasks,
             \/ PruneList(t) \/ PruneDone(t)
             \/ task[t].op = "prune" /\ \E id \in task[t].todo : PruneRemove(t, id)
      PROVE  ManagerInv'
  <2>1. CASE PruneDone(t)
    BY <2>1, Unfolded, IdleStep DEF PruneDone, RegistryOK
  <2>2. QED
    BY <1>2, <2>1, PruneListKeeps, PruneRemoveKeeps
<1>3. ASSUME NEW t \in Tasks, ImportList(t) \/ ImportGet(t) \/ ImportRegister(t) \/ ImportRun(t)
      PROVE  ManagerInv'
  BY <1>3, ImportListKeeps, ImportGetKeeps, ImportRegisterKeeps, ImportRunKeeps
<1>4. ASSUME NEW w \in Procs, ProcessExits(w) PROVE ManagerInv'
  BY <1>4, ExitsKeeps DEF ProcessExits
<1>5. CASE UNCHANGED vars
  BY <1>5 DEF vars, ManagerInv, TypeOK, EveryRemovalReportedOnce, FoundWasRegistered,
     PruneClearsWhatItFound
<1>6. QED
  BY <1>1, <1>2, <1>3, <1>4, <1>5 DEF Next

\* The invariant of the registry and of the tasks at work on it (InstanceManager).
THEOREM Manager == Spec => []ManagerInv
<1>1. Init => ManagerInv
  BY InitManager
<1>2. ManagerInv /\ [Next]_vars => ManagerInv'
  BY NextManager
<1>3. QED
  BY <1>1, <1>2, PTL DEF Spec

\* The registry has its types, and every registration that ended was reported as removed
\* to exactly one caller, however prunes, removals and imports of any number of tasks
\* interleave (register, remove, prune_stale, import_from_store).
THEOREM RegistryIsConsistent == Spec => []RegistryConsistent
<1>1. ManagerInv => RegistryConsistent
  BY DEF ManagerInv, RegistryConsistent
<1>2. QED
  BY <1>1, Manager, PTL

\* No registration that a prune found stale is left when the prune has come past it,
\* whatever other tasks remove and register meanwhile (prune_stale).
THEOREM PruneClears == Spec => []PruneClearsWhatItFound
<1>1. ManagerInv => PruneClearsWhatItFound
  BY DEF ManagerInv
<1>2. QED
  BY <1>1, Manager, PTL
=============================================================================
