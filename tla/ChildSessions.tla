---------------------------- MODULE ChildSessions ----------------------------
(***************************************************************************)
(* Child sessions: when an adapter asks for one with a startDebugging      *)
(* request, its proxy spawns another proxy process, which may do the same  *)
(* (handle_start_debugging of crates/dap-core/src/child_session/mod.rs,    *)
(* ProxyChildSpawner of crates/dap-proxy/src/child_supervisor.rs).  The    *)
(* proxies form a tree; the module models its growth and how it is taken   *)
(* down when a proxy of it stops or is killed (teardown, and the parent's  *)
(* death as crates/dap-core/src/parent_watch.rs notices it).               *)
(*                                                                         *)
(* The path of a process:                                                  *)
(*   forked    the child process exists, main has not begun                *)
(*   armed     it asked for a SIGTERM at its parent's death; starts up     *)
(*   serving   it printed its ready line and handles signals               *)
(*   stopping  run_until_shutdown returned                                 *)
(*   torn      its children are torn down                                  *)
(*   gone                                                                  *)
(***************************************************************************)
EXTENDS Integers, FiniteSets

CONSTANTS
  Root,         \* the proxy the editor started
  Children,     \* the processes spawned below it, numbered in the order of their pids
  Nobody,
  MaxDepth,     \* --child-max-depth
  MaxChildren,  \* --child-max-children
  MaxRequests   \* bound on the startDebugging requests of all adapters

Nodes == Children \cup {Root}

ASSUME ChildrenAssumption ==
  /\ Children \subseteq Nat /\ Root \notin Children /\ Nobody \notin Nodes
  /\ MaxDepth \in Nat /\ MaxChildren \in Nat /\ MaxRequests \in Nat

VARIABLES
  stage,     \* how far each process has come
  parent,
  depth,     \* remaining_depth
  active,    \* active_children
  tracked,   \* the children in the supervisor's list
  asking,    \* the proxies whose adapter waits for an answer to startDebugging
  awaited,   \* the child whose ready line a proxy waits for
  requests,  \* startDebugging requests so far
  printed,   \* the processes that printed their ready line
  watched    \* the processes that will notice their parent's death

vars == <<stage, parent, depth, active, tracked, asking, awaited, requests, printed, watched>>

Up == {n \in Nodes : stage[n] \notin {"none", "gone"}}
LiveChildren(n) == {c \in Up : parent[c] = n}
\* The bridge to the adapter runs from startup to the exit of the process.
Bridging == {n \in Nodes : stage[n] \in {"armed", "serving", "stopping", "torn"}}

\* The process spawned next has the least pid that is left.
NextPid(c) == stage[c] = "none" /\ \A d \in Children : stage[d] = "none" => c <= d

Init ==
  /\ stage = [n \in Nodes |-> IF n = Root THEN "serving" ELSE "none"]
  /\ parent = [n \in Nodes |-> Nobody]
  /\ depth = [n \in Nodes |-> IF n = Root THEN MaxDepth ELSE 0]
  /\ active = [n \in Nodes |-> 0]
  /\ tracked = [n \in Nodes |-> {}]
  /\ asking = {}
  /\ awaited = [n \in Nodes |-> Nobody]
  /\ requests = 0
  /\ printed = {} /\ watched = {}

-----------------------------------------------------------------------------
(* handle_start_debugging, inside the loop that reads from the adapter *)

\* The adapter sends a startDebugging, which is read when the last one is answered.
Ask(n) ==
  /\ n \in Bridging \ asking
  /\ requests < MaxRequests
  /\ asking' = asking \cup {n}
  /\ requests' = requests + 1
  /\ UNCHANGED <<stage, parent, depth, active, tracked, awaited, printed, watched>>

\* A negative answer.
Decline(n) ==
  /\ n \in asking
  /\ asking' = asking \ {n}
  /\ UNCHANGED <<stage, parent, depth, active, tracked, requests, printed, watched>>

\* No depth is left.
DeclineDepth(n) ==
  /\ n \in Bridging /\ awaited[n] = Nobody /\ depth[n] = 0
  /\ Decline(n) /\ UNCHANGED awaited

\* The arguments or the profile rule out a child.
DeclineRule(n) ==
  /\ n \in Bridging /\ awaited[n] = Nobody
  /\ Decline(n) /\ UNCHANGED awaited

\* max_children is reached.
DeclineFull(n) ==
  /\ n \in Bridging /\ awaited[n] = Nobody /\ depth[n] > 0 /\ active[n] >= MaxChildren
  /\ Decline(n) /\ UNCHANGED awaited

\* Fault: the child has the depth of its parent.
SpawnAsDeep(n, c) ==
  /\ n \in asking \cap Bridging /\ awaited[n] = Nobody
  /\ depth[n] > 0 /\ active[n] < MaxChildren /\ NextPid(c)
  /\ stage' = [stage EXCEPT ![c] = "forked"]
  /\ parent' = [parent EXCEPT ![c] = n]
  /\ depth' = [depth EXCEPT ![c] = depth[n]]
  /\ awaited' = [awaited EXCEPT ![n] = c]
  /\ UNCHANGED <<active, tracked, asking, requests, printed, watched>>

\* resolve_child_spawn allows it and the process is spawned.
Spawn(n, c) ==
  /\ n \in asking \cap Bridging /\ awaited[n] = Nobody
  /\ depth[n] > 0 /\ active[n] < MaxChildren /\ NextPid(c)
  /\ stage' = [stage EXCEPT ![c] = "forked"]
  /\ parent' = [parent EXCEPT ![c] = n]
  /\ depth' = [depth EXCEPT ![c] = depth[n] - 1]
  /\ awaited' = [awaited EXCEPT ![n] = c]
  /\ UNCHANGED <<active, tracked, asking, requests, printed, watched>>

Count(n) == active' = [active EXCEPT ![n] = @ + 1]

\* read_child_ready returns: the child is tracked and counted, the answer is positive.
ChildReady(n) ==
  /\ n \in Bridging /\ awaited[n] \in printed
  /\ tracked' = [tracked EXCEPT ![n] = @ \cup {awaited[n]}]
  /\ Count(n)
  /\ awaited' = [awaited EXCEPT ![n] = Nobody]
  /\ asking' = asking \ {n}
  /\ UNCHANGED <<stage, parent, depth, requests, printed, watched>>

\* The child's stderr ends without a ready line.
ChildFailed(n) ==
  /\ n \in Bridging /\ awaited[n] \in Children \ printed /\ stage[awaited[n]] = "gone"
  /\ awaited' = [awaited EXCEPT ![n] = Nobody]
  /\ Decline(n)

\* Fault: the wait has no deadline.
WaitForEver(n) == FALSE /\ UNCHANGED vars

\* 30 seconds pass.  The child is dropped, which neither kills nor tracks it.
SpawnTimeout(n) ==
  /\ n \in Bridging /\ awaited[n] \in Children \ printed
  /\ awaited' = [awaited EXCEPT ![n] = Nobody]
  /\ Decline(n)

-----------------------------------------------------------------------------
(* The life of a process.  A SIGTERM before the handlers are installed just ends it. *)

Goes(n, to) ==
  /\ stage' = [stage EXCEPT ![n] = to]
  /\ UNCHANGED <<parent, depth, active, tracked, asking, awaited, requests>>

\* arm_parent_death_signal, first thing in main.  A parent that is gone already sends no
\* signal, and the watch takes the process that adopted the child for its parent.
ArmDeathSignal(c) ==
  /\ stage[c] = "forked"
  /\ watched' = IF stage[parent[c]] = "gone" THEN watched ELSE watched \cup {c}
  /\ Goes(c, "armed") /\ UNCHANGED printed

\* The child has started debugging and prints its ready line, which ends it if its parent
\* does not read its stderr any more.
Ready(c) ==
  /\ stage[c] = "armed"
  /\ \/ /\ stage[parent[c]] # "gone" /\ awaited[parent[c]] = c
        /\ printed' = printed \cup {c} /\ Goes(c, "serving")
     \/ /\ ~(stage[parent[c]] # "gone" /\ awaited[parent[c]] = c)
        /\ UNCHANGED printed /\ Goes(c, "gone")
  /\ UNCHANGED watched

\* It cannot start debugging.
StartupFails(c) ==
  /\ stage[c] = "armed"
  /\ Goes(c, "gone") /\ UNCHANGED <<printed, watched>>

\* Fault: the parent's death is not noticed by a process that serves.
ParentDiedAtStartup(c) ==
  /\ c \in watched /\ stage[parent[c]] = "gone"
  /\ stage[c] = "armed" /\ Goes(c, "gone")
  /\ UNCHANGED <<printed, watched>>

\* SIGTERM at the parent's death, or the poll of its pid.
ParentDied(c) ==
  /\ c \in watched /\ stage[parent[c]] = "gone"
  /\ \/ stage[c] = "armed" /\ Goes(c, "gone")
     \/ stage[c] = "serving" /\ Goes(c, "stopping")
  /\ UNCHANGED <<printed, watched>>

\* The editor leaves, or the process is asked to terminate.
Stop(n) ==
  /\ stage[n] = "serving"
  /\ Goes(n, "stopping") /\ UNCHANGED <<printed, watched>>

\* ChildProcessSupervisor::teardown: the children in the list are killed, with SIGKILL.
Teardown(n) ==
  /\ stage[n] = "stopping"
  /\ stage' = [m \in Nodes |-> IF m = n THEN "torn" ELSE IF m \in tracked[n] THEN "gone" ELSE stage[m]]
  /\ tracked' = [tracked EXCEPT ![n] = {}]
  /\ UNCHANGED <<parent, depth, active, asking, awaited, requests, printed, watched>>

Exit(n) ==
  /\ stage[n] = "torn"
  /\ Goes(n, "gone") /\ UNCHANGED <<printed, watched>>

\* Another process kills it.
Kill(n) ==
  /\ n \in Up
  /\ Goes(n, "gone") /\ UNCHANGED <<printed, watched>>

Next ==
  \E n \in Nodes :
    \/ Ask(n) \/ DeclineDepth(n) \/ DeclineRule(n) \/ DeclineFull(n)
    \/ \E c \in Children : Spawn(n, c)
    \/ ChildReady(n) \/ ChildFailed(n) \/ SpawnTimeout(n)
    \/ ArmDeathSignal(n) \/ Ready(n) \/ StartupFails(n) \/ ParentDied(n)
    \/ Stop(n) \/ Teardown(n) \/ Exit(n) \/ Kill(n)

\* The scheduler runs every process, signals are delivered and timers expire.  Nothing has
\* to ask, to stop or to be killed, and a child may hang in its startup.
Fairness ==
  \A n \in Nodes :
    /\ WF_vars(DeclineDepth(n) \/ DeclineRule(n) \/ DeclineFull(n)
               \/ \E c \in Children : Spawn(n, c))
    /\ WF_vars(ChildReady(n) \/ ChildFailed(n) \/ SpawnTimeout(n))
    /\ WF_vars(ArmDeathSignal(n))
    /\ WF_vars(ParentDied(n)) /\ WF_vars(Teardown(n)) /\ WF_vars(Exit(n))

Spec == Init /\ [][Next]_vars
FairSpec == Spec /\ Fairness

-----------------------------------------------------------------------------
(* Properties *)

\* Every variable has its type, and only a proxy that is asked waits for a child.
TypeOK ==
  /\ stage \in [Nodes -> {"none", "forked", "armed", "serving", "stopping", "torn", "gone"}]
  /\ parent \in [Nodes -> Nodes \cup {Nobody}]
  /\ depth \in [Nodes -> 0..MaxDepth]
  /\ active \in [Nodes -> 0..MaxRequests]
  /\ tracked \in [Nodes -> SUBSET Children]
  /\ asking \subseteq Nodes /\ watched \cup printed \subseteq Children
  /\ awaited \in [Nodes -> Children \cup {Nobody}]
  /\ \A n \in Nodes : awaited[n] # Nobody => n \in asking /\ parent[awaited[n]] = n
  /\ requests \in 0..MaxRequests

\* The generations above a process, down from the root.
Generation[n \in Nodes] == IF parent[n] = Nobody THEN 0 ELSE 1 + Generation[parent[n]]

\* No process is more than --child-max-depth generations below the root, whatever the
\* adapters ask for (remaining_depth is passed on, one less each time).
GenerationsBounded == \A n \in Up : Generation[n] <= MaxDepth

\* No proxy has more than --child-max-children children that it has acknowledged, although
\* it counts a child only after it has waited for it (one request at a time is handled).
TrackedChildrenBounded == \A n \in Nodes : Cardinality(tracked[n]) <= MaxChildren

\* The tree has its types and stays within --child-max-depth and --child-max-children,
\* although limits are checked up to thirty seconds before they are counted
\* (remaining_depth and active_children).
TreeBounded == TypeOK /\ GenerationsBounded /\ TrackedChildrenBounded

\* An adapter that asks for a child session gets an answer as long as its proxy is up,
\* whatever becomes of the child (the deadline of read_child_ready).
RequestsAnswered == \A n \in Nodes : (n \in asking) ~> (n \notin asking \/ stage[n] = "gone")

\* When the root is gone, however it ended, the whole tree ends, children that were just
\* being spawned or had been given up included; a child that was orphaned before it asked
\* for its parent's death signal does so only if its startup ends.
TreeEnds ==
  (\A c \in Children : WF_vars(Ready(c) \/ StartupFails(c)))
    => ((stage[Root] = "gone") ~> (Up = {}))
=============================================================================
