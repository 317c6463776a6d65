# dappy-core in TLA+

dappy-core sits between an editor and a debug adapter, speaks the Debug Adapter Protocol
(DAP) to both, and lets further clients (a REPL, agents) attach to the running session over a
local TCP port. This directory models the parts of it where messages, tasks, processes and
files meet in an order nobody chose. TLC checks the models on small instances; TLAPS proves
the theorems for every value of the constants. Paths below are relative to the repository.

    editor --stdio--> bridge --+                          +-- bridge --stdio/TCP--> adapter
                               +--> SessionLoop (mux) <---+        |
    control --TCP---> bridge --+    remapper, cache,               | startDebugging
                                    breakpoint tracker             v
                                                            child dap-proxy processes
    dap-proxy writes <sessions dir>/<id>.json; other processes list it to find the port

## 1. Inventory

### Components, state and operations

| Component | State | Operations | Hard behaviour |
|---|---|---|---|
| Session loop, `protocol-mux/src/session.rs`, `remapper.rs`, `cancel.rs`, `cache.rs` | attached clients, two counters, the remapper's two maps, `secondary_pending`, the late-join cache | attach, detach, a client's message, an adapter's message, end of the adapter | clients with the same request numbers; a client that leaves between request and answer; joins between two messages; a receiver that is gone fails the loop |
| Breakpoint tracker, `protocol-mux/src/breakpoint_state.rs` | breakpoints per file, pending requests, adapter id to (file, index), exception filters | track a request, observe a response, a new / changed / removed event | answers out of order, partial verification, indices that shift |
| Instance registry, `instance-manager/src/manager.rs`, `handle.rs`, `state.rs` | id to handle, behind a read-write lock | register, set state / port / pid, remove, prune, import | prune and import take the lock several times |
| Session store and cleanup guard, `instance-manager/src/store.rs`, `dap-proxy/src/lib.rs` | one file per session | save, delete, get, list and prune | processes without a lock between them, crashes, ports reused |
| Child sessions, `dap-core/src/child_session`, `parent_watch.rs`, `dap-proxy/src/child_supervisor.rs` | remaining depth, `active_children`, the list of children | startDebugging, ready line, time-out, teardown, parent's death | a tree of processes any of which can hang or die at any point |
| Bridges, `dap-core/src/mux_bridge.rs`, `adapter_guard.rs` | tasks and channels between sockets and loop | ingest, egress, both directions to the adapter, shutdown | idle time-out, an adapter that exits, an editor that does not read |
| dap-proxy program, `dap-proxy/src/main.rs` | order of startup and shutdown | start, record, wait, tear down | signals before handlers are installed; error paths that skip guards |
| Control client, `dap-core/src/control_client.rs`, `client.rs`, `navigation.rs`, `execution_state.rs` | request numbers, buffered messages | request, wait for an answer or an event, drain, navigate, probe the status | a replayed stop taken for the answer to a continue; events discarded while waiting; time-outs that race late answers |
| Session initialisation, `session_init.rs`, `capabilities.rs` | progress of the handshake | initialize, launch, configure, first stop | adapters that order the handshake differently |
| Transport, `dap-protocol/src/transport.rs`, `channel.rs` | what one read has taken | write and read a message | bytes cut anywhere, streams that end within a message, reads that are given up |
| Engine and routing, `engine.rs`, `registry.rs`, `gateway.rs`, `protocol-gateway`, `dap-plugin-api/src/loader.rs` | registered plugins, in an order | load, register, patch, choose a plugin | plugins that replace or overlap each other |
| Child rules, `child_session/resolve.rs`, `profile.rs`, `dap-proxy/src/main.rs` | a command line per session | match a rule, build a child's command line, derive a session from it | what passes from generation to generation |
| Stop policies and watches, `stop_policy.rs`, `data_watch.rs`, `stack_filter.rs`, `bounds.rs` | a watch's last value | decide on a stop | boundaries |
| Plugin manifests, adapter processes, reverse requests, presentation | none or configuration | parse, spawn, render | little: sequential code |

Interaction: bridges call the loop through one unbounded FIFO channel and receive on one
channel per client; the loop and the adapter's bridge exchange messages over two more. The
adapter's bridge calls child sessions inline, so nothing else is read from the adapter while a
child starts. The registry and the store share nothing with the loop but the session id. A
client finds the port of a session in the store, connects, and is sent the cache's replay.

### What makes each correct

* Session loop: an answer reaches the client that asked, under its number, once; nothing is
  lost or reordered towards a client that is listening; a late joiner misses nothing; a cancel
  names the request it is about; a client that leaves does not harm the others.
* Breakpoint tracker: what it shows is what the adapter verified in an answer or announced and
  still holds; ids point at existing entries.
* Registry: a removal is reported once; a prune removes what it found stale.
* Store: a session that is served is in the directory, one that is gone is not reported.
* Child sessions: bounded depth and breadth; every request answered; no process outlives the
  root; a child runs the adapter and connects to the endpoint its rule says.
* Bridges: a session ends when its editor leaves, and the adapter is told before it is killed;
  nobody who stalls or hangs holds the end.
* Control client: it loses no message it may be asked for; the answer it returns is the one to
  its request, and the stop it reports is not older than the call.
* Session initialisation: it fails only when the adapter's order is not the plugin's, the answer
  to `initialize` has no usable body, the launch is refused or the recorded entry cannot be
  resolved, or for a timer or an end.
* Transport: the i-th read returns the i-th message.
* Routing: a launch goes to the plugin the rules name, in the manifest registered last.
* Stop policies: patterns, paths and watches decide as their definitions say.

The full list of hazards, each at its line and with the properties that cover it, is in
`PROJECT.json`.

## 2. Modules

| Module | Models | Checked by | Proved in |
|---|---|---|---|
| `HashMaps` | insertion and removal of `std::collections::HashMap` | through its users | `CollectionLemmas` |
| `MultiplexSession` | the session loop | `MCMultiplexSession` | `MultiplexSessionProofs` |
| `BreakpointTracker` | the tracker and an adapter that holds breakpoints | `MCBreakpointTracker` | `BreakpointTrackerProofs` |
| `InstanceManager` | the registry, called by tasks | `MCInstanceManager` | `InstanceManagerProofs` |
| `SessionDiscovery` | the store's directory, shared by proxies and readers | `MCSessionDiscovery` | `SessionDiscoveryProofs` |
| `ChildSessions` | the tree of proxies | `MCChildSessions` | `ChildSessionsProofs` |
| `SessionBridge` | the tasks of a proxy and how they end | `MCSessionBridge` | `SessionBridgeProofs` |
| `ControlClient` | a client, the initialisation of a session, navigation | `MCControlClient` | `ControlClientProofs` |
| `ClientInbox` | what a client promises about messages; `ControlClient` implements it | `MCControlClient` | `ControlClientProofs` |
| `FrameReader` | framing of messages on a byte stream | `MCSequential` | `SessionBridgeProofs` |
| `Routing` | the plugins of an engine and the route of a launch | `MCSequential` | `ChildSessionsProofs` |
| `ChildLaunch` | rules, plans and command lines of child sessions; extends `Routing` | `MCSequential` | `ChildSessionsProofs` |
| `StopPolicy` | skip patterns, path matching, snippets, data watches | `MCSequential` | `ControlClientProofs` |

`MCSequential` composes four parts that do not interact: a behaviour is about one of them
(`subject`), and the others stay at their initial states.

Operators whose comment starts with "Fault:" are not part of any specification. Each is a
plausible mistake in the definition that follows it; substituted for that definition it makes
TLC report a violation, which shows that the property depends on the code it is about.

### MultiplexSession

`SessionLoop::run` is one task that owns all the state and handles one item at a time. An
action is one turn of it: `Attach`, `Detach` and `ClientSend` are the operations of
`handle_op`; `UpstreamResponse`, `DisconnectAnswered` and `UpstreamEvent` the messages of
`handle_upstream_message`; `UpstreamEof` the end of the adapter's output. `DropReceiver` and
`CloseToUpstream` are the two events of the environment it can observe: a client's egress task
ends, and the task that writes to the adapter ends. Handlers that fail leave the loop through
`?`: `loop` becomes `"failed"` after the part of the handler that ran, and no action is enabled.
`broadcast_to_all` stops at the first client it cannot reach, and the order of the map is not
defined: `Deliver` lets any subset of the targets before it have the message.

`role`, `joined`, `requests` and `emitted` are history: they record what was attached,
forwarded and received, so that properties can say what an inbox ought to hold. Backend
numbers are given out in order, so `requests[b]` is the request with backend number `b`.

`DisconnectAnswered` deserves a word. `request_adapter_disconnect` sends `disconnect` with the
fixed number 1, which is also the backend number of the first request forwarded. If that one is
still unanswered, the adapter's answer to the disconnect goes to its client. The tables stay
exact (`InFlightExact`), and `RoutedToRequester` holds in the sense that the answer reaches the
client that sent request 1 under its number: neither claims that it is the right answer. What the
collision does is stated by the other two as their exact exception. `AnswersDeliveredOnce`: of the
answers to request 1 and to the disconnect the one that comes first goes to the client, once, and
the other, even if it is the client's own, goes nowhere (`NumberTaken`). `SnapshotConfirmed`: what
a snapshot shows was confirmed by the adapter's own answer to the setBreakpoints that asked for
it, or that was request 1 and the disconnect succeeded.

Left out: the roles Agent and Other, which no program attaches, the broadcast channel behind
`ClientEndpoint::events`, which nothing outside tests reads, and the legacy `Multiplexer`.

### BreakpointTracker

The tracker's functions are the operators `ApplyNew`, `ApplyChanged`, `ApplyRemoved`, `Merge`
and `Rebuild`; the actions pair them with what the adapter does at the same time: it is asked
(`SetBreakpoints`, `SetExceptionBreakpoints`), answers in any order, with success or not and
with breakpoints moved, unverified or without a line (`Answer`, `AnswerExceptions`), and
announces, changes and drops breakpoints of its own (`Announce`, `Change`, `Drop`). An event may
leave out the file, the line or both, and may say that the breakpoint is verified or that it is
not: `apply_new_breakpoint` ignores an event without a file or a line, and neither it nor
`apply_changed_breakpoint` looks at the verdict. A breakpoint that no event has placed yet is in
`unplaced`, and the adapter reports on it with `ChangeUnplaced` and `DropUnplaced`; `Hold` is
where it becomes one that the adapter holds in a file. `Reported` names the breakpoints it sends
events about: those it announced, or also those it answered. `Resolve` is the path the adapter
reports for the client's.

### InstanceManager

A method that takes the lock once is one action. `prune_stale` takes it for a snapshot
(`PruneList`) and once per stale id (`PruneRemove`); `import_from_store` reads the store
(`ImportList`) and takes it for every `get`, `register` and `set_state`. Between those actions
any other task runs. The owner of an instance is a process, whose exit makes pid and port dead.

### SessionDiscovery

A proxy goes through startup, binding, pruning, writing a temporary file, renaming it, arming
its guard, running, and the exit; at any point it can be killed, and before its handlers are
installed a SIGINT or SIGTERM ends it at once. A listing is a snapshot of the directory followed
by read, pid probe, port probe and removal per file, each an action, so that any other process
moves in between. Ports are reused by later sessions; ids and pids are not. `Resolve` is what a
client makes of a listing to find the session to attach to; its filter by scope is left out, as
a scope only makes the set of sessions smaller.

`PidAlive` is exact, and `is_pid_alive` (`store.rs:148`) is not quite: it asks for `/proc/<pid>`,
which a process that exited keeps until its parent waits for it. The model takes for granted that
parents do. A zombie whose port another session has taken over would pass both probes: its record
would be listed and not pruned, against what `NoGoneSessionListed` and `PrunedOnStart` say.

### ChildSessions

The path of a process is in the header of the module. The adapter's side (`Ask`, the ways to
decline, `Spawn`, `ChildReady`, `ChildFailed`, `SpawnTimeout`) is `handle_start_debugging` with
`ProxyChildSpawner::spawn`; the processes' side is main's startup, the parent watch and the
teardown. Which rule of a profile matches is a free choice (`DeclineRule`); the rules are in
`ChildLaunch`.

`ArmDeathSignal` stands for `prctl(PR_SET_PDEATHSIG)` and for the parent id the watch starts
from: a parent that died before leaves neither a signal nor a change to poll for. Teardown
kills only children in the list, which they enter with their ready line.

### SessionBridge

An action is what a task does between two awaits: `ingest` and `egress` of each client's bridge,
the loop, `mux_to_backend` and `backend_to_mux`, the task that joins them (`session`), and
`main`. A request is the pair of its client and its number there, and the loop is
`MultiplexSession` reduced to what its neighbours observe; events and the answers that the bridge
gives itself, except to `dapProxyPluginInfo`, are left to the other modules. Peers do as they
like: they send, stop writing or reading, leave or fall silent; the adapter answers, hangs or
exits, and may write what cannot be read. `backend_to_mux` fails in two ways (`B2mFails`): at what
cannot be read (`"unreadable"`, `mux_bridge.rs:320`), and at a message that can be read when the
loop is gone and the channel to it closed (`"refused"`, `mux_bridge.rs:354`).

`BackendJoined` and `BackendLate` are the two ways out of the three seconds that
`BackendBridge::shutdown` allows: the bridge to the adapter is over, or it is not, and then only
because the adapter is in its way. `Exit` is the drop of the runtime, which waits for the thread
that reads stdin (`StdinRead`, from the documentation of tokio).

### ControlClient and ClientInbox

A call is a list of `steps` that the operators `Ask`, `AskAndKeep`, `SendAndAwait`, `Navigate`,
`SessionInit` build as the methods of the same purpose do; the client's actions work the first
step off: they send (`SendRequest`), take a message from the buffer (`TakeBuffered`) or from the
wire (`ReadWire`), drain (`DrainReads`, `DrainEnds`) or give up (`TimeOut`). Every message has
a number, and each number is on the wire, in `pending`, in the `batch` of a drain, `given` to
the caller or `swept` by a request that reads past it. The session is external: an adapter that
takes requests in order and whose habits (`deferred`, `announces`, `flaw`) are chosen at the
start, a debuggee, and the replay for a client that attaches.

`flaw` is what makes an initialisation hopeless whatever the order of messages: an answer to
`initialize` without a body or with one that does not parse (`capabilities.rs:63`), a refused
launch, after which no debuggee runs, or an entry location whose template cannot be resolved
(`session_init.rs:299`; the builtin manifests have none that can fail, so this is for the
plugins of users). The call fails at the message that shows it (`Unusable`, `Give`). Two premises
are not modelled as failures. `step_arguments` returns `Ok` in every branch, so the `?` behind it
has no error path. And messages can be read: dap-proxy and the client program run the initialisation
over the multiplexer (`main.rs:313`, `client.rs:119`), whose bridge writes only well-formed frames; a
client connected directly to an adapter that writes garbage would fail at that.

`ClientInbox` is the abstract specification: one queue from which messages leave, in any order
of leaving but keeping the order of those that stay. The refinement mapping puts the three
places where messages wait one after another: `inbox <- batch \o pending \o wire`.

### FrameReader

`Piece` is the unit of arrival; pieces split a header line, the empty line and the body in every
way that the reader can tell apart. `call` holds the local variables of the read under way, so
that `GiveUp`, a timer of the control client, loses what the read had taken; `torn` remembers
that it did.

### Routing and ChildLaunch

`Register`, `RegisterAll`, `PatchRegistry` are the registry's operations on its list; `Listings`
has every order in which `load_from_dir` may return a directory with two manifests of one id.
`Resolve` is the router, `Route` the manifest that comes of it. `latest` is history.

`ChildLaunch` takes a proxy from its command line (`BackendSpawn`, `ParentContext`, `Session`)
through a request of its adapter (`Plan`) to the command line of its child (`ChildCli`), over
generations. `Parses` is what clap does with a command that has hyphens. Templates in a profile
select one field of the request each, and a field is present, absent or of the wrong type.

### StopPolicy

Paths and patterns are sequences of characters, because matching them is what is checked; every
state asks one question (`query`). The data watch is the only part with a history.

## 3. Runs

All cfgs give constants their values and nothing else. Deadlock is not checked: every one of
these systems stops legitimately (a loop that ended or failed, processes that are gone, bounds
reached).

| Run | Shows | Bounds |
|---|---|---|
| `mux_routing` | `TablesConsistent` (types, `InFlightExact`), `RoutedToRequester`, `SnapshotConfirmed`, `AnswersDeliveredOnce`, `CancelNamesItsRequest` | 2 clients, 2 requests over 2 numbers, 2 adapter messages, failures |
| `mux_late_join` | `EventsInOrderNoGap`, `LateJoinerCaughtUp`, `EditorSeqIncreases` | 3 clients, 1 request, 2 adapter messages, 2 events |
| `mux_control_quit` | violated: `SurvivesControlQuit` | 2 clients, 1 request |
| `mux_late_cancel` | violated: `CancelReferencesBackendSeq` | 2 clients, 3 requests |
| `bp_tracked` | `SnapshotMatchesAdapter`, `TrackerConsistent` (types, `IdsPointInside`) | 2 files, 2 lines, 1 condition, 2 requests of up to 2 breakpoints, 2 ids; events with and without file and line, verified and not |
| `instances` | `RegistryConsistent` (types, `EveryRemovalReportedOnce`), `PruneClearsWhatItFound` | 2 tasks, 2 ids registered up to twice, 1 owner, 1 stored record |
| `instances_import_running` | violated: `ImportAccepted` | 1 task, 1 id |
| `discovery` | `StoreConsistent` (types, `ServedSessionIsListed`, `OrderlyExitLeavesNoRecord`), `NoGoneSessionListed`, `PrunedOnStart`, `ClientFindsServedSession` | 3 proxies, 2 ports, 1 reader |
| `children` | `TreeBounded` (types, `GenerationsBounded`, `TrackedChildrenBounded`), `RequestsAnswered`, `TreeEnds` | 4 processes, depth 2, 2 children each, 3 requests of all adapters together |
| `bridge` | `BridgeConsistent` (types, `AdapterReadsInOrder`), `ToldBeforeKilled`, `BridgeEndsWithPeer`, `SessionEndsWithEditor`, `StopHeeded`, `LossNoticed` (`LoopLostTellsAdapter`, `LostSessionEndsAtRequest`) | an editor with 3 requests or a control client with 2, one connected at a time |
| `client` | `ClientConsistent` (types, `KeepsEvents`), `InitFailsForCause`, `AnswerIsOwn`, `NavigateReturnsLaterStop`, `ProbeReportsNewest`, `CallReturns`, the refinement `ImplementsInbox` | 4 plugins, adapters with every combination of habits, 2 calls of 5 kinds after the first, 1 stop after the one that is replayed |
| `sequential` | `ReadsInStep`, `CompleteFrameReturned`; `LaunchServed` (`RouteFollowsRules`, `LatestManifestServes`), `OverrideTakesNothing`; `TreeAsPlanned` (`TreeWithinLimits`, `EndpointWasNamed`), `AdapterHandedDown` (`InheritsAdapter`, `EmitterIsServed`); `SkipIsGlob`, `DecisionsFitDefinitions` (`PathsMatchEitherWay`, `SnippetShowsLine`, `WatchKeepsEveryChange`) | 2 messages of up to 5 pieces; 3 loads from 3 directories, 38 launches; 3 sessions, 32 requests; paths and patterns of up to 4 characters, files of up to 6 lines, 4 stops |

A name with others in parentheses is the conjunction of these, each defined and commented on by
itself; "types" is the module's `TypeOK`.

Why these bounds suffice for what they look for: a misrouted answer takes two clients with one
number in flight; a stale table entry takes a second request that meets it; a gap takes two
events and a client that joins, and a broadcast cut short a third client. A wrong index takes
two breakpoints in a file and one removed. A prune that acts on old knowledge takes a second
task and a second registration. A port taken over takes two sessions, and a third to prune at
the same time. A limit of two children is overrun by three, and a tree of three generations has
orphans whose parent is itself an orphan. A bridge depends on other clients only through the
loop, and how clients meet there is in `MultiplexSession`; three requests of the editor let one
be queued, one be in the loop and one be unread when the session ends. A late answer takes one
call that timed out and one that follows, and a stop that is taken for a later one takes
a replayed stop and one more. A reader that is out of step shows it at the second message. A plugin's place in the
order takes two loads to change and a third to matter again; three sessions are the first, its
child and its grandchild, which is where an inherited command passes through a command line
twice. A greedy match differs from a search from three parts and a repeated character on.
Two cases are beyond the bounds and rest on the theorems alone, which have no bounds. That
`backend_to_mux` finds the loop gone while `mux_to_backend` still has the disconnect to send, the
second exception of `ToldBeforeKilled`, takes an editor and a control client at a time
(`AdapterIsTold`). `mux_late_join` has no snapshot command, whose answer draws from the editor's
counter too (`NumberingCorrect`).

Symmetry is used over tasks, proxies and the tracker's files, in runs without liveness
properties.

### Fairness

`ChildSessions`: `FairSpec` assumes that the scheduler runs every process, that timers expire and that signals
are delivered: weak fairness of handling a request that was read, of ending the wait for a child
(a ready line, the end of its stderr, or 30 seconds), of `main` reaching its first statement, of
acting on the parent's death, of teardown (its waits have time-outs) and of exit. Nothing has to
ask, stop or be killed, and a child's startup may hang: `RequestsAnswered` has to hold even so.
`TreeEnds` additionally assumes, as a premise of the property, that startups end one way or
the other. This is needed for one kind of process only: an orphan whose parent was gone before
it armed the death signal notices nothing and ends when its ready line meets a closed pipe.

`SessionBridge`: weak fairness of every task of the runtime, of the loop and of `main`, while the
runtime runs: tokio polls a task that was woken, and its timers expire. No client has to send,
read or leave, the adapter does not have to answer, read or exit, and nothing has to fail.

`ControlClient`: weak fairness of the client's own steps, which include the expiry of its
timers. The session is free to say nothing.

`FrameReader`: weak fairness of taking a piece that is there, since the runtime wakes a read that
is under way. Nothing makes a caller read again: `ingest` and `backend_to_mux` end at the first
error (`mux_bridge.rs:214`, `:224`, `:320`), and a client reads only during a call. So
`CompleteFrameReturned` is about a read under way. The writer may stop anywhere.

### What the code does and the repository does not say

Three runs have a counterexample on purpose; each is a finding in `PROJECT.json`.

* `mux_control_quit`: a Control client that leaves with a request in flight ends the loop for
  the editor when the answer arrives (`docs/editor-repl-workflow.md:91`: "The editor session
  keeps running.").
* `mux_late_cancel`: a cancel of a request that was already answered goes upstream with the
  editor's own number, which there may name another client's request.
* `instances_import_running`: importing an active session always fails, because Pending may not
  become Running.

Deviations that no run is devoted to. Where a property is stated so as to leave one out, its
comment says so.

Session loop, tracker, registry and store:

* A Control client's requests are renumbered like the editor's; the crate's README says they
  use the upstream number directly (`protocol-mux/README.md:21`).
* The bridge's own disconnect has number 1 (`adapter_guard.rs:36`). If request 1 is still
  unanswered, its client is given the answer to the disconnect and never its own, and a setBreakpoints
  that waits under 1 is shown as confirmed (`cache.rs:38` asks for the number only).
* A breakpoint of a `new` or `changed` event is shown whatever the event says of `verified`
  (`breakpoint_state.rs:189`, `:232`), while an answer's unverified ones are not (`:318`).
* Where the adapter resolves paths, breakpoints are stored under its path and cleared under the
  client's, so removed ones are still shown (`breakpoint_state.rs:76`; instantiate `Resolve`
  with a map that is not the identity).
* Exception filters are recorded when asked for, also when the adapter refuses them
  (`breakpoint_state.rs:127`).
* `prune_stale` removes by id without looking again: an instance that was restarted since the
  snapshot is removed alive (`manager.rs:143`).
* The ids of answered breakpoints are not recorded: when the adapter later moves such a
  breakpoint (`breakpoint_state.rs:232`), it is taken for a new one and shown at both lines
  (`breakpoint_state.rs:240`). `bp_tracked` lets it move only what it announced; with
  `"answered"` in `Reported`, `SnapshotMatchesAdapter` fails.
* An id that another task registers between an import's `get` and its `register` aborts the
  import of all the records that follow (`manager.rs:160`).
* A SIGTERM between saving the record and installing the handlers leaves the record
  (`main.rs:491`, against `docs/editor-repl-workflow.md:103`); the next listing prunes it.
* A proxy killed between write and rename leaves its temporary file for ever (`store.rs:64`).
* The accept loop ends at the first accept error and closes the control port: the next listing
  prunes the record of a session that is still running (`mux_bridge.rs:401`).

Child sessions and routing:

* `active_children` is never counted down, so the limit on concurrent children
  (`main.rs:78`) is a limit on children ever started.
* A child that is given up after 30 seconds is not in the list that teardown kills; it ends by
  itself (`TreeEnds`).
* `--adapter` always decides which plugin serves a launch (`gateway.rs:37`), as
  `docs/tui-client.md:73` says ("Override plugin routing"); its own help says "Ignored when
  `--program` triggers routing" (`dap-proxy/src/main.rs:34`). `RouteFollowsRules` states the former.
* The arguments of an adapter follow `--adapter-cmd`, and clap refuses one that begins with a
  hyphen: a child that inherits `python3 -m debugpy.adapter` does not start
  (`child_supervisor.rs:93`).
* A session without `--adapter-tcp` calls its adapter a stdio one, also if its manifest names
  a builtin or TCP adapter; children are given the builtin's id as a command, which is not found
  (`main.rs:441`).
* A child of debugpy gives no program, so that the router takes its session for `fake`; the
  command it was given is used all the same. `--plugins-dir` is not handed down (`engine.rs:92`).
* A host that is not a string becomes its JSON text (`resolve.rs:198`).
* Two manifests of one id in a directory are registered in the order of `read_dir`
  (`loader.rs:147`), and a replaced plugin moves to the end of the order (`registry.rs:18`), so a
  plugin it overlaps with takes launches that it had before.

Bridges and the program:

* `run_result??` returns before the guards of the adapter and the target are shut down: a
  session that fails leaves their processes to notice the end of their input (`main.rs:229`).
* When `backend_to_mux` has failed, at an unreadable message of the adapter or at a readable one
  that finds the loop gone (`mux_bridge.rs:354`), the shutdown waits for nothing, and the adapter
  may be killed while `mux_to_backend` is still on its way to the disconnect (`mux_bridge.rs:385`);
  `ToldBeforeKilled` excepts exactly this.
* After a signal, dropping the oneshot makes the bridge send the disconnect while `main` kills the
  adapter (`main.rs:497`): which comes first is not decided, and no property says so.
* stdin is read by a thread that cannot be interrupted: after a signal or an idle time-out the
  process exits only when the editor writes or closes (`main.rs:197`); `StopHeeded` says that
  `main` returns.

Control client:

* `from_initialize_message` fails on an answer to `initialize` without a body, which DAP allows, and
  with it the initialisation fails at once (`session_init.rs:102`, `capabilities.rs:63`).
* A late attacher is replayed the last stop (`cache.rs:75`), and its first continue or pause
  returns at once with it (`control_client.rs:629`).
* A `dap_request` drops the events it reads while it waits (`mux_bridge.rs:466`): a stop that
  comes while `threads` waits is never reported.
* `wait_for_event` takes a stop and leaves an older `continued` in the buffer
  (`control_client.rs:732`), from which `probe_status` concludes that the debuggee runs.
* `success` is not looked at: a refused continue is waited on for 30 seconds, a refused step is
  reported as done (`control_client.rs:773`).
* The wait for the answer to a request sent earlier has no time-out (`control_client.rs:201`).
* A read that a timer gives up in the middle of a message loses what it took, and later reads
  are out of step (`control_client.rs:685`).
* `drain` ends with the first read that finds nothing in its time, which may be before the end of
  the period its documentation names (`control_client.rs:691`).

Stop policies and presentation:

* `source_paths_match` wants no separator before a common end: `main.py` matches `domain.py`
  (`stop_policy.rs:23`).
* A hit condition that cannot be parsed or exceeds 32 bits counts as 0 or 1
  (`stop_policy.rs:47`).
* `bounds.rs:37` cuts at a byte offset and `source_view.rs:293` slices by characters and
  bytes: text that is not ASCII can panic in either. Encodings are not modelled.

## 4. Theorems

The proofs are in modules of their own, and hold for every value of the constants
that satisfies the module's `...Assumption`: bounds are natural numbers, and what stands for
"none" is not among the values. `RoutingAssumption` adds that plugin directories are finite and
their manifests have an id the order of ids knows, `LaunchAssumption` that the first command line
names a profile there is and numbers for its limits, `StopPolicyAssumption` that paths are
sequences. No assumption limits how many clients, tasks, proxies, processes, messages, lines,
plugins or requests there are. Every table below lists its inductive invariant first; the others
follow from it in one step, unless the text says more. In each module there is one lemma per
action, or per kind of action, that the invariant is preserved.

### The session loop: tables (`MultiplexSessionProofs`)

| Theorem | Statement |
|---|---|
| `TablesInvariant` | `Spec => []TableInv` |
| `TypeCorrect` | `Spec => []TypeOK` |
| `TablesExact` | `Spec => []TablesConsistent` |
| `RoutingCorrect` | `Spec => []RoutedToRequester` |

`InFlightExact` is not inductive: that a new request's number is free in both
tables needs `backend_seq` to be the number of requests forwarded, and that the editor's
`forward` is not overwritten needs its numbers to grow. `TableInv` adds to it the type
invariant and `Bookkeeping`, which says just this: how the counters relate to the histories,
that at most one id is an Editor's, that no request has a number above its client's last one,
and that while the bridge writes to the adapter every response names a forwarded request.
Actions that leave
tables and histories alone share `QuietTables`, and the two ways a request is entered share
`Forwarding`. For `RoutedToRequester` the strengthening is `RoutedInv`: the response's origin
and the request it names exist, besides matching. Since histories only grow (`RoutedExtend`) a
message once routed well stays so; only `HandleResponse` has to be looked at, where
`InFlightExact` says whose request the table entry is.

### The session loop: deliveries (`MultiplexSessionProofs`)

| Theorem | Statement | From the invariant |
|---|---|---|
| `NumberingCorrect` | `Spec => []EditorSeqIncreases` | `NumberedInv` |
| `SnapshotsConfirmed` | `Spec => []SnapshotConfirmed` | `ConfirmedInv` |
| `AnswersDelivered` | `Spec => []AnswersDeliveredOnce` | `DeliveredInv` |
| `EventsOrdered` | `Spec => []EventsInOrderNoGap` | `EventsInv` |
| `LateJoinersCaughtUp` | `Spec => []LateJoinerCaughtUp` | `LateInv` |
| `CancelsNameTheirRequest` | `Spec => CancelNamesItsRequest`, about steps | `TableInv` |

These are about what is in the clients' inboxes. Lemma `StepKinds` reduces the actions to the five
things a turn of the loop can do to them: a client joins and its inbox begins with the replay
(`Joins`), a snapshot, a response or an event is sent (`SendsSnapshot`, `SendsResponse`,
`SendsEvent`), or nothing is (`Quiet`). Each invariant is then looked at kind by kind.

What they add to the properties: `NumberedInv`, that nothing the editor has is numbered above the
counter. `ConfirmedInv`, that the snapshot in the cache was confirmed, with the exception of
request 1, and that a payload pending in the cache is the one of the request it is pending under
(`PendingNamed`). The latter is where the numbers of the client's path and of the upstream path have
to agree. `DeliveredInv`, what an answer's number says of the answers before it, and that no inbox has
two live responses of one origin. `EventsInv`, that the
origins of an inbox's events are in order and that between any two there is each event the
adapter emitted. `LateInv`, that the cache has the latest of what it watches (`CacheLatest`).

### The tracker (`BreakpointTrackerProofs`)

| Theorem | Statement |
|---|---|
| `Tracker` | `Spec => []TrackerInv` |
| `TrackerIsConsistent` | `Spec => []TrackerConsistent` |
| `Snapshot` | `ASSUME OwnReportsOnly PROVE Spec => []SnapshotInv` |
| `SnapshotIsTrue` | `ASSUME OwnReportsOnly PROVE Spec => []SnapshotMatchesAdapter` |

`TrackerInv` holds of every adapter: the ids point inside also when it moves breakpoints it
answered with or resolves paths. It adds to `TrackerConsistent` that a request without an answer is
kept as it was asked (`PendingAsAsked`).

`SnapshotMatchesAdapter` does not hold of every adapter, and `OwnReportsOnly` says of which it
does: of those that send events only about breakpoints they announced themselves, and that name
files as their clients do. The two conditions exclude two deviations of the code that
section 3 lists (`breakpoint_state.rs:240` and `:76`), and `bp_tracked` satisfies them. They say
nothing of an event's verdict, which the code does not look at: the property itself counts what was
announced as shown, verified or not. The
property counts how often a breakpoint is shown; this is not inductive, because events
edit entries by index. `SnapshotInv` says which entry is which: the entries of a file are the
adapter's breakpoints that are to be shown (`Listed`: verified in an answer, or announced) in its
order (`ShowsAdapter`, by the `Rank` of a position among these), a breakpoint the adapter
announced is recorded at its rank (`AnnouncedKnown`), and one that no event has placed is not
recorded (`UnplacedUnknown`). The heart of the proof is that removing a breakpoint shifts ranks and indices
alike.

### Registry and store (`InstanceManagerProofs`, `SessionDiscoveryProofs`)

| Theorem | Statement |
|---|---|
| `Manager` | `Spec => []ManagerInv` |
| `RegistryIsConsistent` | `Spec => []RegistryConsistent` |
| `PruneClears` | `Spec => []PruneClearsWhatItFound` |
| `Discovery` | `Spec => []DiscoveryInv` |
| `StoreIsConsistent` | `Spec => []StoreConsistent` |
| `ServedIsListed` | `Spec => []ServedSessionIsListed` |
| `GoneIsNotListed` | `Spec => []NoGoneSessionListed` |
| `StartPrunes` | `Spec => []PrunedOnStart` |
| `ServedIsFound` | `Spec => []ClientFindsServedSession` |

`ManagerInv` adds to the two properties that what a prune found had been registered by then
(`FoundWasRegistered`); with it, an id that is registered again has a higher count than the
prune found.

`DiscoveryInv` has three parts. `FilesFollowPhase`: how far a proxy is tells which files it has.
`ListingKnows`: the sessions that were gone when a listing began are gone for good and not on
their way into its result, and those served then and now are found, being probed, or still ahead.
`PruningKnows`: the stale files a starting proxy has not come to are still ahead of it. Why a
listing may not remove a served session's record is in the first two: a file is removed after
its process or its port was seen dead, and of a proxy with that record both are alive as
long as it serves.

### Child sessions (`ChildSessionsProofs`)

| Theorem | Statement |
|---|---|
| `Tree` | `Spec => []TreeInv` |
| `TreeIsBounded` | `Spec => []TreeBounded` |

`TreeInv` has the two ways the limits are kept: a child has one generation less to go than its
parent (`ParentShape`), and a child that is awaited has a place, although `active_children` is
counted only at its ready line (`Counts`). `Generation` is a recursive function on a set of
processes that has no order of its own. That the definition describes a function at all, and that
it is `MaxDepth` less what the process has left, is proved by choosing, among the processes that
would be a counterexample, one with the fewest generations above it (`LeastNumber`).

### The control client (`ControlClientProofs`)

| Theorem | Statement |
|---|---|
| `ClientStaysConsistent` | `Spec => []ClientConsistent` |
| `ClientImplementsInbox` | `Spec => ImplementsInbox` |
| `CallsGetOwnAnswer` | `Spec => AnswerIsOwn`, about steps |
| `NavigateReturnsLater` | `Spec => NavigateReturnsLaterStop`, about steps |
| `ProbeFindsNewest` | `Spec => ProbeReportsNewest`, about steps |
| `InitFailsOnlyForCause` | `Spec => []InitFailsForCause` |

The session outside the client is any adapter and debuggee of the model; the theorems hold for
every set of plugins and of calls and for logs of any length.

The first two rest on `BufferInv`: types, `KeepsEvents`, that every response in the log answers
a request by its number and command (`SessionInv`), and that the batch of a drain, the buffer and
the wire hold numbers in ascending order, each place older than the next (`Ordered`). A step does
one of three things to them (`StepKinds`): the session sends up to three messages (`Speaks`),
the client moves messages, gives some away or drops some (`Moves`), or the channel closes. Under the
refinement mapping the first is an `Arrive`, or a stutter when nothing is sent, the second a
`Leave` and the third a stutter.

The next three need to know what a call has still to do. `CallInv` says that a wait for an
answer comes after the request it is for, with no request in between (`LastSent`); that as long
as an answer will be known by its command alone, no command is sent twice (`SentBefore`), which
is why `response_matches_command` is safe in `run_manifest_init_sequence`; and that after a call made
with no stop unread, every stop still unread is newer than the call (`MarkInv`). It holds at first
because of how the lists of steps are built. Lemmas `InitStepsList`, `SessionInitList` and
`CallStepsList` show this for the sequence of each manifest and the steps of each call.

The last compares the order in which a sequence waits with the order in which an adapter speaks.
By itself `InitFailsForCause` says nothing of an initialisation that is under way, so `StartInv`
says what such a one, unless it is hopeless from the start (`flaw`), can still count on:
* `StartList`, of the steps that are left: the answer to a request is awaited right after it; the
  one wait for `initialized` comes after every request that an adapter may send it for, and only a
  request or the answer to `initialize` stands before a wait that needs it on the wire; the wait for
  the stop is the last step. `SessionBegins` shows this of the five sequences there are, `BeginsTail`
  that what is left after a step keeps it.
* The answer that is awaited is in the adapter's queue, on the wire, or deferred (`Replied`), and
  until `initialize` is answered nothing else is between the two sides (`Fresh`), so that an
  `initialized` after that answer cannot have been read with it.
* `initialized` was sent and is kept where the wait looks, or the request it is sent for is still to
  be taken (`ArrivalDue` on the wire, unless it was sent too early; `EventDue` in the buffer too);
  the debuggee runs, or configurationDone is still to come (`Configured`); a stop is kept (`StopDue`).

When a wait ends with the session silent, each of these leaves only a cause (`StartFails`). That
cause stands in `HasCause`, which is stronger than the property (a debuggee that runs has made all its
stops) so that later steps of the session keep it (`CauseRemains`).

### The bridges (`SessionBridgeProofs`)

| Theorem | Statement |
|---|---|
| `Bridges` | `Spec => []BridgeInv` |
| `BridgeStaysConsistent` | `Spec => []BridgeConsistent` |
| `AdapterIsTold` | `Spec => ToldBeforeKilled`, about steps |

`AdapterReadsInOrder` speaks of what the adapter has read, but what it will read is on the way in
three places. `QueuesInOrder` takes them as one sequence: what the adapter has, then the queue to
`mux_to_backend`, then the queue of the loop. Each element of it is the next request of its
client for the adapter (`Follows`), and while the loop runs nothing of what was taken from the
client is missing. The request that `ingest` takes next therefore fits at the end, and moving an
element from the head of one queue to the end of the one before it changes nothing of the order.
When a task ends, the queues behind it are given up: this is why the part about them is
conditional on `mux_to_backend` and the loop. `TasksFit` says what the tasks of a bridge are like
at each of its stages, `ToldInTime` that `mux_to_backend` does not end without telling an adapter
that reads, and that a session is over without an error only after this or for a reason
not to wait for it, which is that `backend_to_mux` failed and `mux_to_backend` still runs.
`ToldBeforeKilled` follows from the latter alone.

### The reader of a byte stream (`SessionBridgeProofs`)

| Theorem | Statement |
|---|---|
| `ReaderKeepsItsPlace` | `FramesSpec => []ReaderInv` |
| `ReadsReturnWhatWasWritten` | `FramesSpec => []ReadsInStep` |

No state records where in the stream the reader is. `ReaderInv` says that there is a
place: a layout of the frames in the stream (`Layout`), a number of pieces taken from it, and how
many of these belong to the frame under way, such that the wire and what is unwritten are the
rest of the stream (`InStream`), the local variables of the read are those of one that took that
many pieces of the frame (`Progress`), and the results so far are those of the frames before.
Once a read has found the end, `PastEnd` takes its place. Only `GiveUp` within a message loses the
place, and sets `torn`. The steps of the writer make the layout longer (`LongerLayout`); a piece
that is read either moves the read on or completes the frame (`TakePiece`).

### Routing (`ChildSessionsProofs`)

| Theorem | Statement |
|---|---|
| `RoutesInvariant` | `RoutesSpec => []RoutesInv` |
| `LaunchesServed` | `RoutesSpec => []LaunchServed` |
| `LaunchesKeepTheirPlugin` | `RoutesSpec => OverrideTakesNothing`, about steps |

`RoutesInv` says that the registry has no two manifests of one id and that each is the one
registered last under its id, with the environment's command in it. It follows that the gateway's
list is the registry (`GatewayFacts`) and that the manifest a route leads to is the one that was
matched. Which one is matched is a question about the operators: `Leads(list, p, launch)` says
that `p` is the first of the list to match, `RouteOfFirst`, `RouteWithoutMatch` and `RouteByName`
that `Route` does what its rules say. For `OverrideTakesNothing` the lemmas about `Register`,
`RegisterAll` and `PatchRegistry` show that a plugin that leads and is not replaced still leads,
since what is new comes behind it. These are folds over lists: each proof names the list after
every round, and goes from round to round (`RetainSteps`, `RegisterAllSteps`, `GatewaySteps`).

### Command lines of child sessions (`ChildSessionsProofs`)

| Theorem | Statement |
|---|---|
| `LaunchInvariant` | `LaunchSpec => []LaunchInv` |
| `TreeStaysWithinLimits` | `LaunchSpec => []TreeWithinLimits` |
| `EndpointsAreNamed` | `LaunchSpec => []EndpointWasNamed` |
| `TreeStaysAsPlanned` | `LaunchSpec => []TreeAsPlanned` |

The limits on the tree are stated by the first command line and kept by processes that know only
their own. `Grown` says what each of them knows: the depth on its command line is its parent's
less one, the limit on children is that of the first, and its context has the endpoint
it was given. `PlanFacts` shows that a plan is made only with a depth left and a place free, and
names no endpoint but the request's, the rule's or the parent's, for each rule of each profile.
`Generations` is recursive along the parents; that it is the first depth less the session's
(`GenerationIsDepth`) goes by the number of the session, as parents come before children.

### Decisions at a stop (`ControlClientProofs`)

| Theorem | Statement |
|---|---|
| `StopsInvariant` | `StopsSpec => []StopsInv` |
| `StopsAreDecidedRight` | `StopsSpec => []DecisionsFitDefinitions` |

`StopsInv` has the history of a watch: its baseline is the value seen last, and what it kept are
the stops at which the value changed. That paths match either way and that the snippet shows the
line are facts about the operators (`PathsFacts`, `SnippetFacts`), for paths of any characters and
files of any length.

### Lemmas

`CollectionLemmas` has the facts that several proofs cite: insertion into and removal from maps,
positions in a set of numbers, sequences with an element removed, `LeastNumber`, and folds.
`FoldExists` gives, for a fold over a sequence, the results of its rounds, from which what the
fold returns is shown round by round (`CountUp`). Where a model filters a list whose filter
is reasoned about, it uses a fold or the least index: the definition of `SelectSeq` in the
standard modules is recursive, and the provers cannot expand it.

### What is not proved

* Liveness (`RequestsAnswered`, `TreeEnds`, the four of `SessionBridge`, `CallReturns`,
  `CompleteFrameReturned`): fairness and ENABLED are beyond the prover.
* `AdapterHandedDown`: it is about tokens of command lines, and depends on which programs there
  are and which arguments begin with a hyphen; it holds of the instance, not of every one.
* `SkipIsGlob`: that the first place of every part is as good as a search compares two
  recursions over texts, and the library's induction theorems take an operator as a parameter,
  which no prover here can instantiate. Where such a proof was needed elsewhere it goes by the
  least counterexample (`Generation`) or by counting up (`Generations`).

The inductive invariants were model-checked on the instances of section 3 before they were proved.

## 5. Not modelled

* Parsing of manifests and of command lines, templates with their variables, the gateway's
  target registry and the conversion of specifications: sequential, mostly data, where a unit
  test reaches what a model would. `ChildLaunch` has the templates that child rules use.
* Spawning of processes, pipes, probing of ports, preparation of RSP targets: input and output.
  What the modules need of them is an action of the environment.
* Reverse requests other than startDebugging, and reading and writing of memory: one request and
  one answer, without state.
* Presentation beyond the source snippet (`render.rs`, the rest of `source_view.rs`), hit
  conditions, stack filters and bounds: functions of one argument; characters and their encoding.
* The legacy `Multiplexer` (`protocol-mux/src/session.rs`), which no program uses, the filter by
  scope of listings, the fake adapter, fixtures and scripts.

`PROJECT.json` has the list by component.

## 6. Plan

1. An **abstract service** for a client of the loop (each request answered at most once, events
   in order since the attach) that `MultiplexSession` implements under a refinement mapping, and
   that the reduced loop in `SessionBridge` and the session in `ControlClient` are instances of.
2. **Theorems**: `SkipIsGlob`, by the rounds of `TakePart` against the rows of the
   reference definition; `InheritsAdapter` for every set of programs.
3. **Reverse requests and plugin context**, if they get state of their own.
