--------------------------- MODULE InstanceManager ---------------------------
(***************************************************************************)
(* InstanceManager of crates/instance-manager/src/manager.rs: a registry   *)
(* of instances that tasks share through one read-write lock.  A method    *)
(* that takes the lock once is one action; prune_stale and                 *)
(* import_from_store take it several times, and other tasks run between.   *)
(*                                                                         *)
(* An instance is owned by a process and by the control port it listens    *)
(* on; both look alive as long as the process that holds them is up.       *)
(***************************************************************************)
EXTENDS Integers, FiniteSetsExt, HashMaps

CONSTANTS
  Ids,
  Tasks,
  Procs,             \* processes that own instances
  None,
  Stored,            \* the records of the session store: id -> owner
  MaxRegistrations   \* bound on the registrations of an id

ASSUME ManagerAssumption ==
  /\ Ids \subseteq Nat
  /\ None \notin Procs
  /\ DOMAIN Stored \subseteq Ids /\ \A id \in DOMAIN Stored : Stored[id] \in Procs
  /\ MaxRegistrations \in Nat

VARIABLES
  inner,       \* id -> its handle
  task,        \* what each task is doing
  result,      \* how each task's last import ended
  up,          \* the processes that are alive
  registered,  \* id -> how often it was registered
  removals     \* id -> how often its removal was reported to a caller

vars == <<inner, task, result, up, registered, removals>>

States == {"pending", "starting", "running", "stopping", "stopped", "failed"}
Handles == [state : States, pid : Procs \cup {None}, control_port : Procs \cup {None}]

\* InstanceState::can_transition_to.
CanTransition ==
  {<<"pending", "starting">>, <<"starting", "running">>, <<"starting", "failed">>,
   <<"running", "stopping">>, <<"running", "failed">>, <<"stopping", "stopped">>,
   <<"stopping", "failed">>, <<"stopped", "starting">>, <<"failed", "starting">>}

\* InstanceHandle::is_alive: an owner that is not known is not checked.
IsAlive(handle) ==
  /\ handle.state \notin {"stopped", "failed"}
  /\ {handle.pid, handle.control_port} \subseteq up \cup {None}

Idle == [op |-> "idle"]

Init ==
  /\ inner = EmptyMap
  /\ task = [t \in Tasks |-> Idle]
  /\ result = [t \in Tasks |-> "none"]
  /\ up = Procs
  /\ registered = [id \in Ids |-> 0] /\ removals = [id \in Ids |-> 0]

-----------------------------------------------------------------------------
(* The methods that take the lock once *)

\* register, of an id that is free; it fails with AlreadyExists otherwise.
AddEntry(id, handle) ==
  /\ id \notin DOMAIN inner /\ registered[id] < MaxRegistrations
  /\ inner' = Insert(inner, id, handle)
  /\ registered' = [registered EXCEPT ![id] = @ + 1]

Register(t, id, pid) ==
  /\ task[t] = Idle
  /\ AddEntry(id, [state |-> "pending", pid |-> pid, control_port |-> None])
  /\ UNCHANGED <<task, result, up, removals>>

SetState(t, id, next) ==
  /\ task[t] = Idle
  /\ id \in DOMAIN inner /\ <<inner[id].state, next>> \in CanTransition
  /\ inner' = [inner EXCEPT ![id].state = next]
  /\ UNCHANGED <<task, result, up, registered, removals>>

SetControlPort(t, id, port) ==
  /\ task[t] = Idle /\ id \in DOMAIN inner
  /\ inner' = [inner EXCEPT ![id].control_port = port]
  /\ UNCHANGED <<task, result, up, registered, removals>>

SetPid(t, id, pid) ==
  /\ task[t] = Idle /\ id \in DOMAIN inner
  /\ inner' = [inner EXCEPT ![id].pid = pid]
  /\ UNCHANGED <<task, result, up, registered, removals>>

\* Fault: the removal of an id that is not there is reported like any other.
RemoveEntryAlwaysOk(id) ==
  /\ inner' = Without(inner, id)
  /\ removals' = [removals EXCEPT ![id] = @ + 1]

\* remove: the removed handle is returned to the caller, an absent id is an error.
RemoveEntry(id) ==
  /\ inner' = Without(inner, id)
  /\ removals' = IF id \in DOMAIN inner THEN [removals EXCEPT ![id] = @ + 1] ELSE removals

RemoveInstance(t, id) ==
  /\ task[t] = Idle /\ id \in DOMAIN inner
  /\ RemoveEntry(id)
  /\ UNCHANGED <<task, result, up, registered>>

-----------------------------------------------------------------------------
(* prune_stale *)

\* The snapshot.  found also remembers which registration of the id was stale.
PruneList(t) ==
  /\ task[t] = Idle
  /\ LET stale == {id \in DOMAIN inner : ~IsAlive(inner[id])}
     IN task' = [task EXCEPT ![t] = [op |-> "prune", todo |-> stale,
                                     found |-> [id \in stale |-> registered[id]]]]
  /\ UNCHANGED <<inner, result, up, registered, removals>>

\* Fault: the loop ends at an id that another task has removed.
PruneRemoveOrEnd(t, id) ==
  /\ RemoveEntry(id)
  /\ task' = [task EXCEPT ![t].todo = IF id \in DOMAIN inner THEN @ \ {id} ELSE {}]
  /\ UNCHANGED <<result, up, registered>>

\* One removal; the map's iteration order decides which id is next.
PruneRemove(t, id) ==
  /\ RemoveEntry(id)
  /\ task' = [task EXCEPT ![t].todo = @ \ {id}]
  /\ UNCHANGED <<result, up, registered>>

PruneDone(t) ==
  /\ task[t].op = "prune" /\ task[t].todo = {}
  /\ task' = [task EXCEPT ![t] = Idle]
  /\ UNCHANGED <<inner, result, up, registered, removals>>

-----------------------------------------------------------------------------
(* import_from_store *)

\* The store lists the records whose owner is alive ...
ImportList(t) ==
  /\ task[t] = Idle
  /\ task' = [task EXCEPT ![t] =
       [op |-> "import", at |-> "get", todo |-> {id \in DOMAIN Stored : Stored[id] \in up}]]
  /\ UNCHANGED <<inner, result, up, registered, removals>>

\* ... sorted by id.
NextRecord(t) == Min(task[t].todo)

ImportEnds(t, how) ==
  /\ task' = [task EXCEPT ![t] = Idle]
  /\ result' = [result EXCEPT ![t] = how]

\* Records already known are skipped.
ImportGet(t) ==
  /\ task[t].op = "import" /\ task[t].at = "get"
  /\ \/ task[t].todo = {} /\ ImportEnds(t, "ok")
     \/ /\ task[t].todo # {}
        /\ task' = IF NextRecord(t) \in DOMAIN inner
                   THEN [task EXCEPT ![t].todo = @ \ {NextRecord(t)}]
                   ELSE [task EXCEPT ![t].at = "register"]
        /\ UNCHANGED result
  /\ UNCHANGED <<inner, up, registered, removals>>

\* register with the record's pid and port.  An id that appeared since ends the import.
ImportRegister(t) ==
  LET id == NextRecord(t)
      owner == Stored[id]
  IN /\ task[t].op = "import" /\ task[t].at = "register"
     /\ \/ /\ AddEntry(id, [state |-> "pending", pid |-> owner, control_port |-> owner])
           /\ task' = [task EXCEPT ![t].at = "run"]
           /\ UNCHANGED result
        \/ /\ id \in DOMAIN inner
           /\ ImportEnds(t, "AlreadyExists")
           /\ UNCHANGED <<inner, registered>>
     /\ UNCHANGED <<up, removals>>

\* set_state(Running), which the entry allows only if another task has started it since.
ImportRun(t) ==
  LET id == NextRecord(t)
  IN /\ task[t].op = "import" /\ task[t].at = "run"
     /\ \/ /\ id \in DOMAIN inner /\ <<inner[id].state, "running">> \in CanTransition
           /\ inner' = [inner EXCEPT ![id].state = "running"]
           /\ task' = [task EXCEPT ![t].at = "get", ![t].todo = @ \ {id}]
           /\ UNCHANGED result
        \/ /\ id \in DOMAIN inner /\ <<inner[id].state, "running">> \notin CanTransition
           /\ ImportEnds(t, "InvalidTransition") /\ UNCHANGED inner
        \/ /\ id \notin DOMAIN inner
           /\ ImportEnds(t, "NotFound") /\ UNCHANGED inner
     /\ UNCHANGED <<up, registered, removals>>

-----------------------------------------------------------------------------
\* A process that owns instances exits.
ProcessExits(w) ==
  /\ w \in up
  /\ up' = up \ {w}
  /\ UNCHANGED <<inner, task, result, registered, removals>>

Next ==
  \/ \E t \in Tasks :
       \/ \E id \in Ids : \/ \E pid \in Procs \cup {None} : Register(t, id, pid)
                          \/ \E next \in States : SetState(t, id, next)
                          \/ \E w \in Procs : SetControlPort(t, id, w) \/ SetPid(t, id, w)
                          \/ RemoveInstance(t, id)
       \/ PruneList(t) \/ PruneDone(t)
       \/ task[t].op = "prune" /\ \E id \in task[t].todo : PruneRemove(t, id)
       \/ ImportList(t) \/ ImportGet(t) \/ ImportRegister(t) \/ ImportRun(t)
  \/ \E w \in Procs : ProcessExits(w)

Spec == Init /\ [][Next]_vars

-----------------------------------------------------------------------------
(* Properties *)

\* What a task can be doing.
Doing ==
  {Idle}
  \cup [op : {"prune"}, todo : SUBSET Ids, found : Maps(Ids, 0..MaxRegistrations)]
  \cup [op : {"import"}, at : {"get", "register", "run"}, todo : SUBSET DOMAIN Stored]

\* Every variable has its type, and an import that is past its first step has a record.
TypeOK ==
  /\ inner \in [DOMAIN inner -> Handles] /\ DOMAIN inner \subseteq Ids
  /\ task \in [Tasks -> Doing]
  /\ \A t \in Tasks :
       /\ task[t].op = "prune" => task[t].todo \subseteq DOMAIN task[t].found
       /\ task[t].op = "import" /\ task[t].at # "get" => task[t].todo # {}
  /\ result \in [Tasks -> {"none", "ok", "AlreadyExists", "InvalidTransition", "NotFound"}]
  /\ up \subseteq Procs
  /\ registered \in [Ids -> 0..MaxRegistrations]
  /\ removals \in [Ids -> 0..MaxRegistrations]

\* Every registration that ended was reported as removed to exactly one caller, however
\* prunes and removals of several tasks interleave (remove under the write lock, and
\* prune_stale's check of its result).
EveryRemovalReportedOnce ==
  \A id \in Ids : registered[id] - removals[id] = IF id \in DOMAIN inner THEN 1 ELSE 0

\* The registry and its tasks have their types and the registry holds what was registered
\* and not yet reported as removed (InstanceManager::register, remove, prune_stale).
RegistryConsistent == TypeOK /\ EveryRemovalReportedOnce

\* A registration that a prune found stale does not survive it, whatever other tasks
\* remove or register meanwhile (prune_stale goes on when an id is gone).
PruneClearsWhatItFound ==
  \A t \in Tasks : task[t].op = "prune" =>
    \A id \in DOMAIN task[t].found \ task[t].todo :
      id \in DOMAIN inner => registered[id] > task[t].found[id]

-----------------------------------------------------------------------------
(* What the repository says and the code does not do *)

\* The import test of tests/manager.rs: an import of an active session succeeds.
ImportAccepted == \A t \in Tasks : result[t] # "InvalidTransition"
=============================================================================
