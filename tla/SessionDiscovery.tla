--------------------------- MODULE SessionDiscovery ---------------------------
(***************************************************************************)
(* How running sessions are found: the directory of session records of     *)
(* crates/instance-manager/src/store.rs, shared without a lock by every    *)
(* process of the user, and the life of a proxy process around its own     *)
(* record (SessionCleanupGuard of crates/dap-proxy/src/lib.rs, the main    *)
(* functions of crates/dap-proxy/src/main.rs).                             *)
(*                                                                         *)
(* Each process is a session with an id of its own (a fresh UUID) and a    *)
(* pid that is not reused.  Control ports are: --control-port may name a   *)
(* fixed one.  A record holds the pid and the port its process bound.      *)
(***************************************************************************)
EXTENDS Integers, FiniteSets

CONSTANTS
  Proxies,  \* proxy processes
  Readers,  \* other processes that look sessions up, such as dap-cli
  Ports,
  None

ASSUME DiscoveryAssumption == Proxies \cap Readers = {} /\ None \notin Ports \cup Proxies

VARIABLES
  phase,  \* how far each proxy has come
  port,   \* the control port each proxy bound
  armed,  \* the proxies whose cleanup guard is armed
  tmp,    \* the proxies that have a temporary file
  files,  \* session id -> what its record file holds: a whole record or a torn one
  list    \* what each process that is listing sessions is doing

vars == <<phase, port, armed, tmp, files, list>>

Actors == Proxies \cup Readers
Ended == {"off", "exited", "signalled", "killed", "failed"}
Phases == Ended \cup {"started", "bound", "pruning", "pruned", "written", "saved", "armed",
                      "running", "stopping", "deleted"}
Gone == {p \in Proxies : phase[p] \in Ended \ {"off"}}
Alive(p) == phase[p] \notin Ended
Open(n) == \E p \in Proxies : Alive(p) /\ port[p] = n

Served == {p \in Proxies : phase[p] \in {"saved", "armed", "running", "stopping"}}

\* What a listing is doing: the files it has not come to, the one it is at, the sessions
\* it has found alive; and, for the properties, those that were gone when it began and
\* those that it is due to find, which were served then.
NotListing == [at |-> "idle", on |-> None, todo |-> {}, listed |-> {}, gone |-> {}, due |-> {}]
Begin(todo) ==
  [at |-> "next", on |-> None, todo |-> todo, listed |-> {}, gone |-> Gone, due |-> Served \cap todo]

Init ==
  /\ phase = [p \in Proxies |-> "off"]
  /\ port = [p \in Proxies |-> None]
  /\ armed = {} /\ tmp = {}
  /\ files = [p \in {} |-> "whole"]
  /\ list = [a \in Actors |-> NotListing]

\* The files without the one of session p; removing a file that is not there changes
\* nothing (the error is ignored or logged).
RemoveFile(p) == files' = [q \in DOMAIN files \ {p} |-> files[q]]

-----------------------------------------------------------------------------
(* The life of a proxy *)

Goes(p, from, to) == phase[p] = from /\ phase' = [phase EXCEPT ![p] = to]

Start(p) == Goes(p, "off", "started") /\ UNCHANGED <<port, armed, tmp, files, list>>

\* serve_control_attach binds the control port; if it is taken the process ends.
Bind(p, n) ==
  /\ \/ Open(n) /\ Goes(p, "started", "failed") /\ UNCHANGED port
     \/ ~Open(n) /\ Goes(p, "started", "bound") /\ port' = [port EXCEPT ![p] = n]
  /\ UNCHANGED <<armed, tmp, files, list>>

\* SessionCleanupGuard::new lists the sessions, for the pruning that goes with it.
Prune(p) ==
  /\ Goes(p, "bound", "pruning")
  /\ list' = [list EXCEPT ![p] = Begin(DOMAIN files)]
  /\ UNCHANGED <<port, armed, tmp, files>>

Pruned(p) ==
  /\ list[p].at = "next" /\ list[p].todo = {}
  /\ Goes(p, "pruning", "pruned")
  /\ list' = [list EXCEPT ![p] = NotListing]
  /\ UNCHANGED <<port, armed, tmp, files>>

\* SessionStore::save writes a temporary file, which listings do not look at ...
WriteTmp(p) ==
  /\ Goes(p, "pruned", "written")
  /\ tmp' = tmp \cup {p}
  /\ UNCHANGED <<port, armed, files, list>>

\* ... and renames it.
Rename(p) ==
  /\ Goes(p, "written", "saved")
  /\ tmp' = tmp \ {p}
  /\ files' = [q \in DOMAIN files \cup {p} |-> IF q = p THEN "whole" ELSE files[q]]
  /\ UNCHANGED <<port, armed, list>>

\* Fault: the guard is not armed.
ArmNothing(p) == Goes(p, "saved", "armed") /\ UNCHANGED <<port, armed, tmp, files, list>>

Arm(p) ==
  /\ Goes(p, "saved", "armed")
  /\ armed' = armed \cup {p}
  /\ UNCHANGED <<port, tmp, files, list>>

\* run_until_shutdown installs the signal handlers and waits ...
Run(p) == Goes(p, "armed", "running") /\ UNCHANGED <<port, armed, tmp, files, list>>

\* ... until the session ends or fails, the parent exits, or SIGINT or SIGTERM arrives.
Stop(p) == Goes(p, "running", "stopping") /\ UNCHANGED <<port, armed, tmp, files, list>>

\* The guard is dropped when main returns or unwinds.
DropGuard(p) ==
  /\ Goes(p, "stopping", "deleted")
  /\ IF p \in armed THEN RemoveFile(p) ELSE UNCHANGED files
  /\ UNCHANGED <<port, armed, tmp, list>>

\* The runtime is dropped, and with it the task that holds the control listener.
Exit(p) == Goes(p, "deleted", "exited") /\ UNCHANGED <<port, armed, tmp, files, list>>

\* The process ends at once, with what it was doing.
Dies(p, how) ==
  /\ phase' = [phase EXCEPT ![p] = how]
  /\ list' = [list EXCEPT ![p] = NotListing]
  /\ UNCHANGED <<port, armed, tmp, files>>

\* Before the handlers are installed a SIGINT or SIGTERM has its default effect.
Signal(p) ==
  /\ phase[p] \in {"started", "bound", "pruning", "pruned", "written", "saved", "armed"}
  /\ Dies(p, "signalled")

\* SIGKILL, or the machine kills it.
Kill(p) == Alive(p) /\ Dies(p, "killed")

-----------------------------------------------------------------------------
(* SessionStore::list_active and get *)

ListActive(r) ==
  /\ list[r].at = "idle"
  /\ list' = [list EXCEPT ![r] = Begin(DOMAIN files)]
  /\ UNCHANGED <<phase, port, armed, tmp, files>>

Get(r, p) ==
  /\ list[r].at = "idle"
  /\ list' = [list EXCEPT ![r] = Begin({p})]
  /\ UNCHANGED <<phase, port, armed, tmp, files>>

\* Fault: the first of several sessions is taken.
ResolveFirst(listed) == IF listed /= {} THEN CHOOSE p \in listed : TRUE ELSE None

\* resolve_control_port without a port: the session a client attaches to, None when the
\* listing has found none or several.
Resolve(listed) == IF \E p \in Proxies : listed = {p} THEN CHOOSE p \in listed : TRUE ELSE None

\* The result is returned.
Finish(r) ==
  /\ list[r].at = "next" /\ list[r].todo = {}
  /\ list' = [list EXCEPT ![r] = NotListing]
  /\ UNCHANGED <<phase, port, armed, tmp, files>>

\* Fault: a file that has disappeared ends the listing.
ReadOrEnd(a, p) ==
  /\ list[a].at = "next"
  /\ list' = [list EXCEPT ![a].todo = IF p \in DOMAIN files THEN @ \ {p} ELSE {},
                          ![a].at = IF p \in DOMAIN files THEN files[p] ELSE "next", ![a].on = p]
  /\ UNCHANGED <<phase, port, armed, tmp, files>>

\* read_record of the next file, which another process may have removed since.
Read(a, p) ==
  /\ list[a].at = "next"
  /\ list' = [list EXCEPT ![a].todo = @ \ {p},
                          ![a].at = IF p \in DOMAIN files THEN files[p] ELSE "next", ![a].on = p]
  /\ UNCHANGED <<phase, port, armed, tmp, files>>

\* Fault: the pid is not checked.
PidNotChecked(p) == TRUE

\* is_pid_alive of a record's pid.  The code asks for /proc/<pid>, which a process that has
\* exited keeps until its parent waits for it: here a process that exited has been waited for.
PidAlive(p) == Alive(p)

\* SessionRecord::is_alive looks at the pid first ...
ProbePid(a, p) ==
  /\ list[a].at = "whole" /\ list[a].on = p /\ PidAlive(p)
  /\ list' = [list EXCEPT ![a].at = "pid alive"]
  /\ UNCHANGED <<phase, port, armed, tmp, files>>

\* ... and then connects to the port.
ProbePort(a, p) ==
  /\ list[a].at = "pid alive" /\ list[a].on = p /\ Open(port[p])
  /\ list' = [list EXCEPT ![a].at = "next", ![a].listed = @ \cup {p}]
  /\ UNCHANGED <<phase, port, armed, tmp, files>>

\* A record that is not alive, and a file that does not parse, is removed.
RemoveStale(a, p) ==
  /\ list[a].on = p
  /\ \/ list[a].at = "whole" /\ ~PidAlive(p)
     \/ list[a].at = "pid alive" /\ ~Open(port[p])
     \/ list[a].at = "torn"
  /\ list' = [list EXCEPT ![a].at = "next"]
  /\ RemoveFile(p)
  /\ UNCHANGED <<phase, port, armed, tmp>>

Next ==
  \/ \E p \in Proxies :
       \/ Start(p) \/ Prune(p) \/ Pruned(p) \/ WriteTmp(p) \/ Rename(p) \/ Arm(p) \/ Run(p)
       \/ Stop(p) \/ DropGuard(p) \/ Exit(p) \/ Signal(p) \/ Kill(p)
       \/ \E n \in Ports : Bind(p, n)
  \/ \E r \in Readers : ListActive(r) \/ Finish(r) \/ \E p \in Proxies : Get(r, p)
  \/ \E a \in Actors :
       \/ \E p \in list[a].todo : Read(a, p)
       \/ \E p \in Proxies : ProbePid(a, p) \/ ProbePort(a, p) \/ RemoveStale(a, p)

Spec == Init /\ [][Next]_vars

-----------------------------------------------------------------------------
(* Properties *)

\* What a process that is listing can be doing.
Progress ==
  [at : {"idle", "next", "whole", "pid alive"}, on : Proxies \cup {None}, todo : SUBSET Proxies,
   listed : SUBSET Proxies, gone : SUBSET Proxies, due : SUBSET Proxies]

\* Every variable has its type.
TypeOK ==
  /\ phase \in [Proxies -> Phases]
  /\ port \in [Proxies -> Ports \cup {None}]
  /\ armed \subseteq Proxies /\ tmp \subseteq Proxies
  /\ files \in [DOMAIN files -> {"whole"}] /\ DOMAIN files \subseteq Proxies
  /\ list \in [Actors -> Progress]

\* The record of a session that is being served is in the directory: no listing of another
\* process, however long ago it read the directory or the file, removes it (save by rename,
\* the listener bound before the record is written, is_alive before remove_file).
ServedSessionIsListed ==
  \A p \in Proxies : p \in Served => p \in DOMAIN files

\* A listing never returns a session that was gone when the listing began, not even when
\* another session has taken over its control port (is_alive checks the pid as well).
NoGoneSessionListed == \A a \in Actors : list[a].listed \cap list[a].gone = {}

\* When the listing that a proxy makes as it starts has ended, the records of the sessions
\* that were gone when it began are gone too, although other processes prune at the same
\* time (list_active skips files that have disappeared).
PrunedOnStart ==
  \A p \in Proxies : phase[p] = "pruning" /\ list[p].at = "next" /\ list[p].todo = {}
    => list[p].gone \cap DOMAIN files = {}

\* A listing returns every session that was served when it began and still is when it
\* ends, whatever other processes start, stop and prune in between; so a client that is
\* given no port attaches to that session or is told that there are several, and never
\* attaches to another one (list_active, resolve_control_port).
ClientFindsServedSession ==
  \A a \in Actors : list[a].at = "next" /\ list[a].todo = {} =>
    \A p \in list[a].due \cap Served :
      p \in list[a].listed /\ Resolve(list[a].listed) \in {p, None}

\* A proxy that has left run_until_shutdown and returned from main leaves no record
\* (SessionCleanupGuard armed right after the record is saved).
OrderlyExitLeavesNoRecord ==
  \A p \in Proxies : phase[p] \in {"deleted", "exited"} => p \notin DOMAIN files \cup tmp

\* The directory holds whole records only, one of every session that is served and none
\* of a proxy that has left in order (InstanceStore::save, is_alive, SessionCleanupGuard).
StoreConsistent == TypeOK /\ ServedSessionIsListed /\ OrderlyExitLeavesNoRecord
=============================================================================
