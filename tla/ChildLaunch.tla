----------------------------- MODULE ChildLaunch -----------------------------
(***************************************************************************)
(* What a child session is started with.  A proxy resolves a startDebugging *)
(* request by the rules of its profile into a plan, turns the plan into    *)
(* the command line of another dap-proxy, and that proxy derives from it   *)
(* its adapter and the context in which its own children are resolved.     *)
(* Sources: crates/dap-core/src/child_session/resolve.rs and profile.rs,   *)
(* crates/dap-proxy/src/main.rs, lib.rs and child_supervisor.rs.           *)
(*                                                                         *)
(* The order of events around a start is in ChildSessions; here a start is *)
(* one step, and it fails only for a cause in the data.                    *)
(***************************************************************************)
EXTENDS Routing

CONSTANTS
  Programs,      \* the commands that can be executed
  EnvDir,        \* the plugin directory a process uses that is given none
  RootClis,      \* the command lines of the first proxy
  Requests,      \* the arguments of startDebugging
  MaxSessions    \* bound on the sessions

(* A command line is [headless, cmd, tcp, adapter, launch, emit, dir,      *)
(* profile, childSessions, depth, maxChildren], where cmd is --adapter-cmd *)
(* and tcp --adapter-tcp, or None.  An endpoint is [host, port].  The      *)
(* arguments of startDebugging are [request, type, host, port]: the        *)
(* configuration's type and what it has under connect, None when absent.   *)

MaxPort == 65535

NotANumber == 0 - 1    \* a port that is given as text

EmitFlag == "--emit-start-debugging"

Hyphenated == {EmitFlag, "-m"}

OwnCmd == <<"fake-adapter", "own">>    \* what a rule with a "stdio" backend starts

ASSUME LaunchAssumption ==
  /\ MaxSessions \in Nat
  /\ \A cli \in RootClis : /\ cli.depth \in Nat /\ cli.maxChildren \in Nat
                           /\ cli.profile \in {"fake", "debugpy", "lldb-dap", "file"}

VARIABLES
  sessions,   \* every session started, in order
  answer      \* of the last startDebugging: "none", "started", "declined"

launchVars == <<sessions, answer>>

-----------------------------------------------------------------------------
(* From a command line to a session *)

Registry(dir) == PatchRegistry(RegisterAll(<<>>, CHOOSE list \in Listings(dir) : TRUE))

\* resolve_backend_spawn: the adapter, or None.
BackendSpawn(cli) ==
  LET routed == Route(Registry(cli.dir), cli.launch)
      chosen == IF cli.cmd /= None
                  THEN [transport |-> "stdio", parts |-> cli.cmd]
                  ELSE IF routed = None THEN None ELSE routed.adapter IN
  CASE cli.tcp /= None -> [transport |-> "tcp", parts |-> <<"endpoint">>]
    [] cli.tcp = None /\ chosen /= None /\ cli.emit ->
         [chosen EXCEPT !.parts = Append(@, EmitFlag)]
    [] OTHER -> chosen

\* Backend::spawn
CanSpawn(spawn) ==
  /\ spawn /= None
  /\ spawn.transport = "stdio" => Head(spawn.parts) \in Programs

\* Fault: only the command of the adapter is handed down, not its arguments.
AdapterCmdAlone(cli, spawn) == IF cli.cmd /= None THEN cli.cmd ELSE <<Head(spawn.parts)>>

\* adapter_cmd_from_spawn
AdapterCmd(cli, spawn) == IF cli.cmd /= None THEN cli.cmd ELSE spawn.parts

\* parent_context
ParentContext(cli, spawn) ==
  [kind     |-> IF cli.tcp /= None THEN "tcp" ELSE "stdio",
   cmd      |-> AdapterCmd(cli, spawn),
   endpoint |-> cli.tcp]

\* build_child_session_bridge: the depth that is left, 0 without a bridge.
BridgeDepth(cli) == IF cli.headless \/ cli.childSessions THEN cli.depth ELSE 0

\* prepare_session routes the launch even when the adapter is given.
CanStart(cli) ==
  CanSpawn(BackendSpawn(cli)) /\ Route(Registry(cli.dir), cli.launch) /= None

Session(cli, parent, args) ==
  LET spawn == BackendSpawn(cli) IN
  [cli     |-> cli,
   spawn   |-> spawn,
   context |-> ParentContext(cli, spawn),
   plugin  |-> Route(Registry(cli.dir), cli.launch).id,
   parent  |-> parent,
   args    |-> args]

-----------------------------------------------------------------------------
(* Rules *)

Condition(request, exists, parents) ==
  [request |-> request, exists |-> exists, parents |-> parents]

\* ChildBackendTemplate; for "tcp" a port of None stands for the template.
Backend(type, port) == [type |-> type, port |-> port]

Rule(when, backend) == [when |-> when, backend |-> backend]

Profile(name) ==
  CASE name = "fake" ->
         <<Rule(Condition("launch", {}, {}), Backend("inherit", None))>>
    [] name = "debugpy" ->
         <<Rule(Condition("attach", {"host", "port"}, {}), Backend("tcp", None))>>
    [] name = "lldb-dap" ->
         <<Rule(Condition(None, {}, {"tcp"}), Backend("parent", None))>>
    [] name = "file" ->   \* a --child-profile-file with every kind of rule
         <<Rule(Condition("attach", {"port"}, {"stdio"}), Backend("tcp", None)),
           Rule(Condition("attach", {}, {}), Backend("parent", None)),
           Rule(Condition(None, {"host"}, {}), Backend("tcp", 9)),
           Rule(Condition("launch", {"port"}, {"stdio"}), Backend("stdio", None)),
           Rule(Condition("launch", {"port"}, {"stdio"}), Backend("stdio", None)),
           Rule(Condition("launch", {}, {}), Backend("inherit", None))>>

Present(args) == {key \in {"host", "port"} : args[key] /= None}

RuleMatches(rule, parent, args) ==
  /\ rule.when.request \in {None, args.request}
  /\ rule.when.exists \subseteq Present(args)
  /\ rule.when.parents \in {{}} \/ parent.kind \in rule.when.parents

BackendCompatible(rule, parent) ==
  /\ rule.backend.type = "parent" => parent.kind = "tcp"
  /\ rule.backend.type = "inherit" => parent.kind = "stdio"

\* resolve_port: a u16 or None.
ResolvePort(template, args) ==
  IF template.port /= None
    THEN template.port
    ELSE IF args.port \in 0..MaxPort THEN args.port ELSE None

StripEmit(cmd) == SelectSeq(cmd, LAMBDA token : token /= EmitFlag)

\* build_child_backend: an endpoint or a command, or None.
ChildBackend(template, parent, args) ==
  LET port == ResolvePort(template, args) IN
  CASE template.type = "tcp" ->
         IF args.host = None \/ port = None
           THEN None
           ELSE [tcp |-> [host |-> args.host, port |-> port], cmd |-> None]
    [] template.type = "parent" ->
         IF parent.endpoint = None THEN None ELSE [tcp |-> parent.endpoint, cmd |-> None]
    [] template.type = "inherit" -> [tcp |-> None, cmd |-> StripEmit(parent.cmd)]
    [] template.type = "stdio" -> [tcp |-> None, cmd |-> OwnCmd]

\* Fault: the depth that is left is handed down as it is.
ChildDepthKept(depth) == depth

ChildDepth(depth) == depth - 1

\* resolve_child_spawn: the first rule that applies decides, also to fail.
Plan(session, counted, args) ==
  LET rules == Profile(session.cli.profile)
      fitting == {i \in DOMAIN rules : /\ RuleMatches(rules[i], session.context, args)
                                       /\ BackendCompatible(rules[i], session.context)}
      backend == ChildBackend(rules[Min(fitting)].backend, session.context, args)
      depth == BridgeDepth(session.cli) IN
  IF depth = 0 \/ counted >= session.cli.maxChildren \/ fitting = {} \/ backend = None
    THEN None
    ELSE [backend |-> backend, depth |-> ChildDepth(depth)]

-----------------------------------------------------------------------------
(* The child's command line *)

ChildCli(session, plan, args) ==
  [headless |-> TRUE, cmd |-> plan.backend.cmd, tcp |-> plan.backend.tcp,
   launch |-> [adapter |-> None, type |-> args.type, ext |-> None, cargo |-> FALSE],
   emit |-> FALSE, dir |-> EnvDir, profile |-> session.cli.profile,
   childSessions |-> plan.depth > 0, depth |-> plan.depth,
   maxChildren |-> session.cli.maxChildren]

\* clap takes a value of --adapter-cmd that begins with a hyphen for an option.
Parses(cli) ==
  cli.cmd /= None => cli.cmd /= <<>> /\ \A i \in DOMAIN cli.cmd : cli.cmd[i] \notin Hyphenated

-----------------------------------------------------------------------------

LaunchInit == sessions = <<>> /\ answer = "none"

StartRoot ==
  /\ sessions = <<>>
  /\ \E cli \in RootClis :
       /\ CanStart(cli)
       /\ sessions' = <<Session(cli, 0, None)>>
  /\ UNCHANGED answer

ChildrenOf(i) == {j \in DOMAIN sessions : sessions[j].parent = i}

\* handle_start_debugging and ProxyChildSpawner::spawn
StartDebugging ==
  /\ Len(sessions) < MaxSessions
  /\ \E i \in DOMAIN sessions : \E args \in Requests :
       LET plan == Plan(sessions[i], Cardinality(ChildrenOf(i)), args)
           cli == ChildCli(sessions[i], plan, args) IN
       /\ BridgeDepth(sessions[i].cli) > 0
       /\ IF plan /= None /\ Parses(cli) /\ CanStart(cli)
            THEN sessions' = Append(sessions, Session(cli, i, args)) /\ answer' = "started"
            ELSE answer' = "declined" /\ UNCHANGED sessions

LaunchNext == StartRoot \/ StartDebugging

LaunchSpec == LaunchInit /\ [][LaunchNext]_launchVars

-----------------------------------------------------------------------------
(* Properties *)

Generations[i \in DOMAIN sessions] ==
  IF sessions[i].parent = 0 THEN 0 ELSE 1 + Generations[sessions[i].parent]

(* However deep the tree grows, no session is more generations below the   *)
(* first than --child-max-depth allowed there, and none has more children  *)
(* than --child-max-children allowed there.                                *)
TreeWithinLimits ==
  \A i \in DOMAIN sessions :
    /\ Generations[i] <= sessions[1].cli.depth
    /\ Cardinality(ChildrenOf(i)) <= sessions[1].cli.maxChildren

(* A child connects to the port the request asked for, unless the rule has *)
(* its own, or to the endpoint of its parent: never to a third one.        *)
EndpointWasNamed ==
  \A i \in DOMAIN sessions :
    LET s == sessions[i] IN
    (s.parent /= 0 /\ s.cli.tcp /= None) =>
      \/ s.cli.tcp = sessions[s.parent].cli.tcp
      \/ s.cli.tcp.host = s.args.host /\ s.cli.tcp.port \in {s.args.port, 9}

(* The tree stays within the limits of its first command line and no child *)
(* is pointed at an endpoint nobody named (child_supervisor.rs).           *)
TreeAsPlanned == TreeWithinLimits /\ EndpointWasNamed

(* A child that is given a command, unless its rule has one, runs the      *)
(* adapter its parent runs, with its arguments but without the flag that   *)
(* makes it ask for children, over any number of generations.              *)
InheritsAdapter ==
  \A i \in DOMAIN sessions :
    LET s == sessions[i] IN
    (s.parent /= 0 /\ s.cli.cmd \notin {None, OwnCmd}) =>
      LET p == sessions[s.parent] IN
      /\ p.spawn.transport = "stdio"
      /\ s.spawn.parts = SelectSeq(p.spawn.parts, LAMBDA token : token /= EmitFlag)

(* The adapter that is told to ask for a child gets one while the limits   *)
(* allow it, although it was started with a flag of its own.               *)
EmitterIsServed ==
  \A i \in DOMAIN sessions : \A args \in Requests :
    LET s == sessions[i]
        plan == Plan(s, Cardinality(ChildrenOf(i)), args) IN
    (/\ s.cli.profile = "fake" /\ args.request = "launch" /\ s.spawn.transport = "stdio"
     /\ Hyphenated \intersect ToSet(s.spawn.parts) \subseteq {EmitFlag}
     /\ BridgeDepth(s.cli) > 0 /\ Cardinality(ChildrenOf(i)) < s.cli.maxChildren)
      => plan /= None /\ CanStart(ChildCli(s, plan, args)) /\ Parses(ChildCli(s, plan, args))

(* A child of any generation that is given a command runs the adapter its  *)
(* parent runs, and the adapter that asks for one is served while the      *)
(* limits allow it (resolve.rs and main.rs together).                      *)
AdapterHandedDown == InheritsAdapter /\ EmitterIsServed
=============================================================================
