---------------------------- MODULE MCSequential ----------------------------
(* The parts that run by themselves, one at a time: the reader of a byte   *)
(* stream (FrameReader), an engine that loads plugins and routes launches   *)
(* (Routing), the command lines of a tree of sessions (ChildLaunch) and a   *)
(* client's decisions at a stop (StopPolicy).                               *)
EXTENDS FrameReader, ChildLaunch, StopPolicy

VARIABLE subject   \* the part a behaviour is about

MCIdOrder == <<"fake", "gdb-remote", "mine", "python", "rust">>

Stdio(parts) == [transport |-> "stdio", parts |-> parts]

Manifest(id, types, exts, adapter, origin) ==
  [id |-> id, types |-> types, exts |-> exts, adapter |-> adapter, origin |-> origin]

Fake == Manifest("fake", {"fake"}, {}, Stdio(<<"fake-adapter">>), "builtin")
GdbRemote ==
  Manifest("gdb-remote", {"gdb-remote"}, {}, [transport |-> "builtin", parts |-> <<"gdb-remote">>], "builtin")
Python == Manifest("python", {"python"}, {"py"}, Stdio(<<"python3", "-m", "debugpy.adapter">>), "builtin")
Rust == Manifest("rust", {"rust", "lldb-dap"}, {"rs"}, Stdio(<<"lldb-dap">>), "builtin")
Builtin == {Fake, GdbRemote, Python, Rust}

\* A user's plugins: one replaces a builtin, two share an id, one is new.
OwnPython == Manifest("python", {"python", "rust"}, {"py"}, Stdio(<<"my-python", "adapter">>), "own")
OtherPython == Manifest("python", {"python"}, {}, Stdio(<<"my-python">>), "other")
Mine == Manifest("mine", {"lldb-dap"}, {"rs", "py"}, Stdio(<<"mine">>), "own")
MCDirs == {Builtin, {OwnPython, Mine}, {OwnPython, OtherPython}}

Launch(adapter, type, ext, cargo) ==
  [adapter |-> adapter, type |-> type, ext |-> ext, cargo |-> cargo]
MCLaunches ==
  {Launch(adapter, type, ext, cargo) :
     adapter \in {None, "python", "unknown"}, type \in {None, "rust", "lldb-dap", "unknown"},
     ext \in {None, "py", "rs"}, cargo \in {FALSE}}
    \cup {Launch(None, None, "no-dot", TRUE), Launch(None, "python", "no-dot", TRUE)}

MCPrograms == {"fake-adapter", "python3", "my-python", "lldb-dap", "from-env"}

Root(cmd, tcp, adapter, emit, dir, profile, depth) ==
  [headless |-> FALSE, cmd |-> cmd, tcp |-> tcp, launch |-> Launch(adapter, None, None, FALSE),
   emit |-> emit, dir |-> dir, profile |-> profile, childSessions |-> TRUE,
   depth |-> depth, maxChildren |-> 1]
MCRootClis ==
  {Root(None, None, adapter, emit, Builtin, "fake", 2) :
     adapter \in {None, "gdb-remote", "python"}, emit \in BOOLEAN}
  \cup
  {Root(<<"fake-adapter", "verbose">>, None, None, FALSE, Builtin, profile, depth) :
     profile \in {"fake", "debugpy", "file"}, depth \in 1..2}
  \cup
  {Root(None, None, "python", FALSE, {OwnPython, Mine}, "file", 2)}
  \cup
  {Root(None, [host |-> "server", port |-> 4711], None, FALSE, Builtin, profile, 2) :
     profile \in {"lldb-dap", "file", "fake"}}

MCRequests ==
  [request : {"launch", "attach"}, type : {None, "python"},
   host : {None, "localhost"}, port : {None, NotANumber, 5678, 65536 + 5678}]

Texts(chars, size) == UNION {[1..n -> chars] : n \in 0..size}
MCPaths == Texts({"a", "b", "/", "\\"}, 3) \cup Texts({"a", "b"}, 4)
MCPatterns == Texts({"a", "b", "*"}, 4)

Init ==
  /\ subject \in {"frames", "routes", "launches", "stops"}
  /\ FramesInit /\ RoutesInit /\ LaunchInit /\ StopsInit

Next ==
  /\ \/ subject = "frames" /\ FramesNext /\ UNCHANGED <<routesVars, launchVars, stopsVars>>
     \/ subject = "routes" /\ RoutesNext /\ UNCHANGED <<framesVars, launchVars, stopsVars>>
     \/ subject = "launches" /\ LaunchNext /\ UNCHANGED <<framesVars, routesVars, stopsVars>>
     \/ subject = "stops" /\ StopsNext /\ UNCHANGED <<framesVars, routesVars, launchVars>>
  /\ UNCHANGED subject

Spec ==
  /\ Init /\ [][Next]_<<subject, framesVars, routesVars, launchVars, stopsVars>>
  /\ FramesFairness
=============================================================================
