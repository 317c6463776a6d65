---------------------------- MODULE ControlClient ----------------------------
(***************************************************************************)
(* The client side of a session: ControlClient (DapClient), the sequences  *)
(* of run_session_init, navigate and probe_status.  Sources: crates/       *)
(* dap-core/src/control_client.rs, session_init.rs, execution_state.rs,    *)
(* navigation.rs and mux_bridge.rs (roundtrip_request).                    *)
(*                                                                         *)
(* A client is one task: a call is a list of steps, each of which sends a  *)
(* request, waits for a message or drains what has arrived.  Across the    *)
(* wire an adapter takes the requests in order and a debuggee runs and     *)
(* stops when it likes.  A client launches the session over the adapter's  *)
(* pipes, or attaches to one that is under way and is sent the replay of   *)
(* LateJoinCache.  Messages are numbered in the order they are sent.       *)
(***************************************************************************)
EXTENDS Naturals, Sequences, FiniteSetsExt, SequencesExt

CONSTANTS
  Plugins,    \* plugin ids, "fake" among them
  Calls,      \* the calls a caller makes, those CallSteps has
  MaxCalls,   \* bound on the calls after the first
  MaxStops,   \* bound on the stops of the debuggee
  None

ASSUME ClientAssumption == "fake" \in Plugins /\ MaxCalls \in Nat /\ MaxStops \in Nat

VARIABLES
  plugin,      \* the plugin of the session
  attaches,    \* the client attaches to a session under way
  deferred,    \* the adapter answers launch after configurationDone only
  announces,   \* it sends initialized "before" or "after" its answer to initialize, or at "launch"
  flaw,        \* what makes an initialisation hopeless: the answer to initialize is
               \* "undescribed" (no usable body), the launch is "refused", the place of the
               \* entry is "unresolved"; or "none"
  \* the session
  open,        \* the channel is open
  requests,    \* requests the adapter has not taken
  log,         \* every message sent to the client
  wire,        \* the numbers of those the client has not read
  owed,        \* the launch request whose answer is deferred, or 0
  debuggee,    \* "none", "running", "stopped", "exited"
  stops,       \* stops so far
  \* the client
  asked,       \* the commands of its requests: request n is asked[n]
  pending,     \* self.pending
  batch,       \* the messages a drain under way has read
  capabilities,\* TRUE when they are known
  steps,       \* what remains of the call
  outcome,     \* of the last call: "working", "ok", "failed"
  status,      \* what the last status probe found
  calls,       \* calls so far, the first not counted
  given,       \* the messages given to the caller
  swept,       \* the messages a request read and dropped
  mark,        \* navigate: the messages up to here are older than the call
  slow         \* a timer has expired while the session was not silent

kind == <<plugin, attaches, deferred, announces, flaw>>
session == <<open, requests, log, wire, owed, debuggee, stops>>
client == <<asked, pending, batch, capabilities, steps, outcome, status, calls, given, swept, mark, slow>>
vars == <<kind, session, client>>

-----------------------------------------------------------------------------
(* The steps of a call *)

Send(c) == [do |-> "send", name |-> c]
Step(do, c) == <<[do |-> do, name |-> c]>>

\* dap_request: everything read before the answer is dropped.
Ask(c) == <<Send(c), [do |-> "sweep", name |-> c]>>

\* dap_request_preserve_events
AskAndKeep(c) == <<Send(c), [do |-> "answer", name |-> c]>>

\* send_dap_request_and_wait_for_event: the event must still be on the wire.
SendAndAwait(c, e) == <<Send(c), [do |-> "arrival", name |-> e]>>

\* run_manifest_init_sequence: what a step of the manifest asks for and waits for.
InitStep(request, event, response) ==
  IF request = None
  THEN IF response = None THEN <<>> ELSE Step("named", response)
  ELSE IF event # None
  THEN SendAndAwait(request, event)
         \o (IF response = request THEN Step("seq", response) ELSE <<>>)
  ELSE AskAndKeep(request) \o (IF response = None THEN <<>> ELSE Step("named", response))

\* The init steps of the plugin manifests, none for fake and rust, and of two that a user
\* may write.  python records ${program.abs} as the entry, which always resolves; the launch
\* step of user-launch records a path that names ${cwd} or a variable of the environment.
InitSteps(p) ==
  CASE p = "python" -> InitStep("launch", "initialized", None) \o InitStep("setBreakpoints", None, None)
                         \o InitStep("configurationDone", None, None) \o InitStep(None, None, "launch")
    [] p = "gdb-remote" -> InitStep("attach", "initialized", None) \o InitStep("configurationDone", None, None)
    [] p = "user-launch" -> InitStep("launch", "initialized", None) \o InitStep("configurationDone", None, "launch")
    [] p = "user-attach" -> InitStep("attach", "initialized", "attach") \o InitStep("configurationDone", None, None)
    [] OTHER -> <<>>

\* Fault: initialized is awaited with launch, on the wire.
DefaultOnWire ==
  SendAndAwait("launch", "initialized") \o AskAndKeep("configurationDone")

\* run_default_init_sequence
DefaultSequence ==
  AskAndKeep("launch") \o Step("event", "initialized") \o AskAndKeep("configurationDone")

\* run_session_init, run_debug_request: the waits; Give has what fails between them.
SessionInit(p) ==
  AskAndKeep("initialize")
    \o (IF InitSteps(p) = <<>> THEN DefaultSequence ELSE InitSteps(p))
    \o Step("event", "stopped")

\* navigate: whether NavigationType::waits_for_stop.
Navigate(c) ==
  AskAndKeep(c) \o (IF c \in {"continue", "pause", "reverseContinue"} THEN Step("event", "stopped")
                    ELSE Step("drain", "step"))

\* The commands that a method of ControlClient asks for by one dap_request and whose body
\* it returns, whether the answer reports success or not.
FrameRequests == {"threads", "stackTrace", "readMemory", "writeMemory", "setBreakpoints", "scopes",
                  "variables", "evaluate"}

EditRequests == {"setVariable", "setExpression", "setFunctionBreakpoints", "breakpointLocations",
                 "gotoTargets", "goto", "completions", "restartFrame", "disassemble",
                 "setInstructionBreakpoints", "setDataBreakpoints", "setExceptionBreakpoints",
                 "dapProxyPluginInfo", "_dapBreakpointSnapshot"}

Navigations == {"next", "stepIn", "stepOut", "stepBack", "continue", "pause", "reverseContinue"}

CallSteps(c) ==
  CASE c \in FrameRequests \cup EditRequests \cup {"disconnect"} -> Ask(c)
    [] c \in Navigations -> Navigate(c)
    [] c = "probe_status" -> Step("drain", "probe")
    [] c = "drain" -> Step("drain", "caller")
    [] c = "wait_for_event" -> Step("event", "stopped")

ASSUME CallsAssumption ==
  Calls \subseteq FrameRequests \cup EditRequests \cup Navigations
                   \cup {"disconnect", "probe_status", "drain", "wait_for_event"}

Commands == FrameRequests \cup EditRequests \cup Navigations
              \cup {"disconnect", "initialize", "launch", "attach", "configurationDone"}
EventNames == {"initialized", "stopped", "continued", "exited"}

\* None is an Option without a value, no command and no event.
ASSUME NoneAssumption == None \notin Commands \cup EventNames

\* What a drain is for.
Purposes == {"absorb", "probe", "again", "caller", "step"}

StepRecords ==
  [do : {"send", "sweep", "answer", "seq", "named"}, name : Commands]
    \cup [do : {"arrival", "event"}, name : EventNames] \cup [do : {"drain"}, name : Purposes]
Messages == [kind : {"response", "event"}, name : Commands \cup EventNames, seq : Nat]

-----------------------------------------------------------------------------
(* The session *)

Response(r) == [kind |-> "response", name |-> r.name, seq |-> r.seq]
Event(e) == [kind |-> "event", name |-> e, seq |-> 0]

Emit(messages) ==
  /\ log' = log \o messages
  /\ wire' = wire \o [i \in DOMAIN messages |-> Len(log) + i]

\* The replay is the first thing a client that attaches is sent.
Serving == open /\ (attaches => log # <<>>)

\* LateJoinCache::replay: the last stop is kept when the debuggee runs again.
Replay ==
  /\ open /\ attaches /\ log = <<>>
  /\ \E stop \in {<<>>, <<Event("stopped")>>} :
       /\ debuggee = "stopped" => stop # <<>>
       /\ Emit(<<Response([name |-> "initialize", seq |-> 0]), Event("initialized")>> \o stop)
  /\ UNCHANGED <<kind, open, requests, owed, debuggee, stops, client>>

\* What the adapter sends for request r.
Reaction(r) ==
  CASE r.name = "initialize" ->
         (IF announces = "before" THEN <<Event("initialized")>> ELSE <<>>) \o <<Response(r)>>
           \o (IF announces = "after" THEN <<Event("initialized")>> ELSE <<>>)
    [] r.name \in {"launch", "attach"} ->
         (IF deferred THEN <<>> ELSE <<Response(r)>>)
           \o (IF announces = "launch" /\ flaw # "refused" THEN <<Event("initialized")>> ELSE <<>>)
    [] r.name = "configurationDone" ->
         <<Response(r)>> \o (IF owed # 0 THEN <<Response([name |-> asked[owed], seq |-> owed])>> ELSE <<>>)
    [] OTHER -> <<Response(r)>>

Resumes(r) ==
  \/ r.name = "configurationDone" /\ debuggee = "none" /\ flaw # "refused"
  \/ r.name \in {"continue", "next"} /\ debuggee = "stopped"

AdapterTakes ==
  /\ Serving /\ requests # <<>>
  /\ LET r == Head(requests) IN
       /\ \E note \in {<<>>, <<Event("continued")>>} :
            /\ note # <<>> => Resumes(r) /\ debuggee = "stopped"
            /\ Emit(Reaction(r) \o note)
       /\ owed' = IF r.name \in {"launch", "attach"} /\ deferred THEN r.seq
                  ELSE IF r.name = "configurationDone" THEN 0 ELSE owed
       /\ debuggee' = IF Resumes(r) THEN "running" ELSE debuggee
       /\ open' = (r.name # "disconnect")
  /\ requests' = Tail(requests)
  /\ UNCHANGED <<kind, stops, client>>

DebuggeeStops ==
  /\ Serving /\ debuggee = "running" /\ stops < MaxStops
  /\ Emit(<<Event("stopped")>>)
  /\ debuggee' = "stopped" /\ stops' = stops + 1
  /\ UNCHANGED <<kind, open, requests, owed, client>>

DebuggeeExits ==
  /\ Serving /\ debuggee = "running"
  /\ Emit(<<Event("exited")>>)
  /\ debuggee' = "exited"
  /\ UNCHANGED <<kind, open, requests, owed, stops, client>>

\* Another client of the session resumes the debuggee.
EditorResumes ==
  /\ Serving /\ attaches /\ debuggee = "stopped" /\ stops < MaxStops
  /\ Emit(<<Event("continued")>>)
  /\ debuggee' = "running"
  /\ UNCHANGED <<kind, open, requests, owed, stops, client>>

SessionCloses ==
  /\ open /\ open' = FALSE
  /\ UNCHANGED <<kind, requests, log, wire, owed, debuggee, stops, client>>

\* Nothing more comes of itself.
Silent ==
  open => (Serving /\ requests = <<>> /\ (debuggee = "running" => stops = MaxStops))

-----------------------------------------------------------------------------
(* The client *)

Init ==
  /\ plugin \in Plugins /\ attaches \in BOOLEAN
  /\ deferred \in BOOLEAN /\ announces \in {"before", "after", "launch"}
  /\ flaw \in {"none", "undescribed", "refused", "unresolved"}
  /\ flaw = "unresolved" => plugin = "user-launch"
  /\ attaches => ~deferred /\ announces = "launch" /\ plugin = "fake" /\ flaw \in {"none", "undescribed"}
  /\ open = TRUE /\ requests = <<>> /\ log = <<>> /\ wire = <<>> /\ owed = 0
  /\ debuggee \in IF attaches THEN {"running", "stopped"} ELSE {"none"}
  /\ stops = 0
  /\ asked = <<>> /\ pending = <<>> /\ batch = <<>> /\ capabilities = FALSE
  /\ steps = IF attaches THEN Step("drain", "absorb") ELSE SessionInit(plugin)
  /\ outcome = "working" /\ status = "unknown" /\ calls = 0
  /\ given = {} /\ swept = {} /\ mark = 0 /\ slow = FALSE

Unread == ToSet(batch \o pending \o wire)
Stops(ns) == {n \in ns : log[n].name = "stopped"}

\* A caller whose initialisation failed gives up.
Call ==
  /\ steps = <<>> /\ calls < MaxCalls /\ (calls = 0 => outcome = "ok")
  /\ \E c \in Calls : steps' = CallSteps(c)
  /\ outcome' = "working" /\ calls' = calls + 1
  /\ mark' = IF Stops(Unread \ given) = {} THEN Len(log) ELSE 0
  /\ UNCHANGED <<kind, session, asked, pending, batch, capabilities, status, given, swept, slow>>

Doing(do) == steps # <<>> /\ Head(steps).do \in do

SendRequest ==
  /\ Doing({"send"})
  /\ asked' = Append(asked, Head(steps).name)
  /\ requests' = Append(requests, [name |-> Head(steps).name, seq |-> Len(asked) + 1])
  /\ steps' = Tail(steps)
  /\ UNCHANGED <<kind, open, log, wire, owed, debuggee, stops, pending, batch, capabilities, outcome,
                 status, calls, given, swept, mark, slow>>

\* Fault: an answer is known by its command.
WantedByName(m) ==
  CASE Head(steps).do \in {"sweep", "answer", "seq", "named"} -> m.kind = "response" /\ m.name = Head(steps).name
    [] OTHER -> m.kind = "event" /\ m.name = Head(steps).name

\* response_matches_seq, response_matches_command, event_named
Wanted(m) ==
  CASE Head(steps).do \in {"sweep", "answer", "seq"} -> m.kind = "response" /\ m.seq = Len(asked)
    [] Head(steps).do = "named" -> m.kind = "response" /\ m.name = Head(steps).name
    [] OTHER -> m.kind = "event" /\ m.name = Head(steps).name

Waiting == Doing({"sweep", "answer", "arrival", "event", "seq", "named"})

\* Positions in pending of what is wanted: sweep, answer and arrival do not look there.
Buffered ==
  IF Doing({"event", "seq", "named"}) THEN {i \in DOMAIN pending : Wanted(log[pending[i]])} ELSE {}

\* from_initialize_message and resolve_entry_location: the wait has ended, and the
\* initialisation fails on what it was given.
Unusable(n) ==
  \/ flaw = "undescribed" /\ log[n].name = "initialize"
  \/ flaw = "unresolved" /\ Head(steps).do = "arrival"

\* Message n is what the step waits for.
Give(n) ==
  /\ given' = given \cup {n}
  /\ \/ /\ Unusable(n)
        /\ steps' = <<>> /\ outcome' = "failed" /\ UNCHANGED capabilities
     \/ /\ ~Unusable(n)
        /\ steps' = Tail(steps)
        /\ outcome' = IF Tail(steps) = <<>> THEN "ok" ELSE outcome
        /\ capabilities' = (capabilities \/ log[n].name = "initialize")

\* Fault: the message stays in the buffer.
TakeACopy ==
  /\ Waiting /\ Buffered # {}
  /\ Give(pending[Min(Buffered)])
  /\ UNCHANGED <<kind, session, asked, pending, batch, status, calls, swept, mark, slow>>

TakeBuffered ==
  /\ Waiting /\ Buffered # {}
  /\ LET i == Min(Buffered) IN
       /\ Give(pending[i])
       /\ pending' = RemoveAt(pending, i)
  /\ UNCHANGED <<kind, session, asked, batch, status, calls, swept, mark, slow>>

\* Fault: the newest message is put before those that wait.
PassToFront(n) ==
  /\ IF Doing({"sweep"})
     THEN swept' = swept \cup {n} /\ UNCHANGED pending
     ELSE pending' = <<n>> \o pending /\ UNCHANGED swept
  /\ UNCHANGED <<given, steps, outcome, capabilities>>

\* What is read and is not wanted is buffered, or dropped by roundtrip_request.
PassOver(n) ==
  /\ IF Doing({"sweep"})
     THEN swept' = swept \cup {n} /\ UNCHANGED pending
     ELSE pending' = Append(pending, n) /\ UNCHANGED swept
  /\ UNCHANGED <<given, steps, outcome, capabilities>>

ReadWire ==
  /\ Waiting /\ Buffered = {} /\ wire # <<>>
  /\ wire' = Tail(wire)
  /\ \/ Wanted(log[Head(wire)]) /\ Give(Head(wire)) /\ UNCHANGED <<pending, swept>>
     \/ ~Wanted(log[Head(wire)]) /\ PassOver(Head(wire))
  /\ UNCHANGED <<kind, open, requests, log, owed, debuggee, stops, asked, batch, status, calls, mark, slow>>

Fail ==
  /\ steps' = <<>> /\ outcome' = "failed"
  /\ UNCHANGED <<kind, session, asked, pending, batch, capabilities, status, calls, given, swept, mark>>

\* Fault: the wait for an event has no timeout.
TimeOutOfRequest ==
  /\ Doing({"sweep", "answer"}) /\ Buffered = {} /\ wire = <<>>
  /\ slow' = (slow \/ ~Silent)
  /\ Fail

\* REQUEST_TIMEOUT, INIT_TIMEOUT and the 30 s of navigate; a wait for a response that was
\* sent earlier has none.
TimeOut ==
  /\ Doing({"sweep", "answer", "arrival", "event"}) /\ Buffered = {} /\ wire = <<>>
  /\ slow' = (slow \/ ~Silent)
  /\ Fail

ChannelEnds ==
  /\ Waiting /\ Buffered = {} /\ wire = <<>> /\ ~open
  /\ UNCHANGED slow
  /\ Fail

-----------------------------------------------------------------------------
(* drain and its callers *)

\* Fault: the wire is read before the buffer.
DrainWireFirst ==
  /\ Doing({"drain"})
  /\ \/ wire # <<>> /\ batch' = Append(batch, Head(wire)) /\ wire' = Tail(wire) /\ UNCHANGED pending
     \/ wire = <<>> /\ pending # <<>> /\ batch' = Append(batch, Head(pending)) /\ pending' = Tail(pending)
        /\ UNCHANGED wire
  /\ UNCHANGED <<kind, open, requests, log, owed, debuggee, stops, asked, capabilities, steps, outcome,
                 status, calls, given, swept, mark, slow>>

DrainReads ==
  /\ Doing({"drain"})
  /\ \/ pending # <<>> /\ batch' = Append(batch, Head(pending)) /\ pending' = Tail(pending) /\ UNCHANGED wire
     \/ pending = <<>> /\ wire # <<>> /\ batch' = Append(batch, Head(wire)) /\ wire' = Tail(wire)
        /\ UNCHANGED pending
  /\ UNCHANGED <<kind, open, requests, log, owed, debuggee, stops, asked, capabilities, steps, outcome,
                 status, calls, given, swept, mark, slow>>

\* ExecutionStateTracker::apply_event
StatusOf(name) ==
  CASE name = "stopped" -> "stopped"
    [] name \in {"continued", "initialized"} -> "running"
    [] name \in {"exited", "terminated"} -> "exited"
    [] OTHER -> "unknown"

\* ExecutionStateTracker::apply_message, and what the last message that tells leaves.
Tells(n) == log[n].kind = "event" /\ StatusOf(log[n].name) # "unknown"
Track(ns) ==
  LET telling == {i \in DOMAIN ns : Tells(ns[i])}
  IN IF telling = {} THEN "unknown" ELSE StatusOf(log[ns[Max(telling)]].name)

\* Fault: the replay is looked through and dropped.
AbsorbAndForget ==
  /\ Head(steps).name = "absorb"
  /\ capabilities' = (flaw # "undescribed" /\ \E n \in ToSet(batch) : log[n].name = "initialize")
  /\ steps' = Tail(steps)
  /\ UNCHANGED <<pending, status, given>>

\* absorb_late_join_replay
Absorb ==
  /\ Head(steps).name = "absorb"
  /\ pending' = batch
  /\ capabilities' = (flaw # "undescribed" /\ \E n \in ToSet(batch) : log[n].name = "initialize")
  /\ steps' = Tail(steps)
  /\ UNCHANGED <<status, given>>

\* probe_status: with nothing to tell by, it asks for the threads and drains once more.
Probe ==
  /\ Head(steps).name \in {"probe", "again"}
  /\ status' = Track(batch)
  /\ steps' = IF Track(batch) = "unknown" /\ Head(steps).name = "probe"
              THEN Ask("threads") \o Step("drain", "again") ELSE Tail(steps)
  /\ given' = given \cup ToSet(batch)
  /\ UNCHANGED <<pending, capabilities>>

DrainReturns ==
  /\ Head(steps).name \in {"step", "caller"}
  /\ given' = given \cup ToSet(batch)
  /\ steps' = Tail(steps)
  /\ UNCHANGED <<pending, capabilities, status>>

\* The wire has been still for long enough.
DrainEnds ==
  /\ Doing({"drain"}) /\ pending = <<>> /\ wire = <<>>
  /\ Absorb \/ Probe \/ DrainReturns
  /\ batch' = <<>>
  /\ outcome' = IF steps' = <<>> THEN "ok" ELSE outcome
  /\ slow' = (slow \/ ~Silent)
  /\ UNCHANGED <<kind, session, asked, calls, swept, mark>>

-----------------------------------------------------------------------------
SessionStep ==
  \/ Replay \/ AdapterTakes \/ DebuggeeStops \/ DebuggeeExits \/ EditorResumes \/ SessionCloses

ClientStep == SendRequest \/ TakeBuffered \/ ReadWire \/ TimeOut \/ ChannelEnds \/ DrainReads \/ DrainEnds

Next == SessionStep \/ Call \/ ClientStep

Spec == Init /\ [][Next]_vars
\* The runtime runs the client's task, and its timers expire.
FairSpec == Spec /\ WF_vars(ClientStep)

-----------------------------------------------------------------------------
(* Properties *)

Numbers == 1..Len(log)

TypeOK ==
  /\ plugin \in Plugins /\ attaches \in BOOLEAN /\ deferred \in BOOLEAN
  /\ announces \in {"before", "after", "launch"} /\ open \in BOOLEAN
  /\ flaw \in {"none", "undescribed", "refused", "unresolved"}
  /\ requests \in Seq([name : Commands, seq : 1..Len(asked)])
  /\ log \in Seq(Messages)
  /\ wire \in Seq(Numbers) /\ pending \in Seq(Numbers) /\ batch \in Seq(Numbers)
  /\ owed \in 0..Len(asked) /\ stops \in 0..MaxStops
  /\ debuggee \in {"none", "running", "stopped", "exited"}
  /\ asked \in Seq(Commands) /\ steps \in Seq(StepRecords)
  /\ capabilities \in BOOLEAN /\ slow \in BOOLEAN
  /\ outcome \in {"working", "ok", "failed"} /\ status \in {"unknown", "running", "stopped", "exited"}
  /\ calls \in 0..MaxCalls /\ mark \in 0..Len(log)
  /\ given \subseteq Numbers /\ swept \subseteq Numbers

\* Nothing the session sent is lost but what a dap_request read while it waited for its
\* answer (control_client.rs:219): the buffers of every other call, of the replay and of
\* the initialisation together keep the rest until it is asked for.
KeepsEvents ==
  /\ Numbers = given \cup swept \cup Unread
  /\ given \cap swept = {} /\ Unread \cap (given \cup swept) = {}

\* The client's state has its types and its buffers keep what the session sent
\* (consume_replay, read_message, drain).
ClientConsistent == TypeOK /\ KeepsEvents

\* Implements ClientInbox: what waits in the buffer, in a drain and on the wire is one
\* queue in the order of arrival.
Inbox == INSTANCE ClientInbox WITH
  MaxBurst <- 3, arrived <- Len(log), inbox <- batch \o pending \o wire
ImplementsInbox == Inbox!Spec

\* A call that waits for an answer is given the answer to the latest request of that name,
\* never the late answer to one that timed out nor the replayed initialize (control_client.rs:780).
AnswerIsOwn ==
  [][\A n \in given' \ given :
       Doing({"sweep", "answer", "seq", "named"}) =>
         /\ log[n].kind = "response" /\ log[n].name = Head(steps).name
         /\ log[n].seq = Max({i \in DOMAIN asked : asked[i] = Head(steps).name})]_vars

\* When no stop was unread as navigate was called, the stop it returns is of a later
\* moment (control_client.rs:629, :724).
Returned == IF Buffered # {} THEN pending[Min(Buffered)] ELSE Head(wire)
NavigateReturnsLaterStop ==
  [][Doing({"event"}) /\ steps' = <<>> /\ outcome' = "ok" => Returned > mark]_vars

\* When the newest event that tells the state of the debuggee was still unread, that is
\* the state probe_status reports (control_client.rs:756).
ProbeReportsNewest ==
  [][(DrainEnds /\ Head(steps).name \in {"probe", "again"}) =>
       \A n \in ToSet(batch) :
         (Tells(n) /\ \A k \in Numbers : Tells(k) => k <= n) => status' = StatusOf(log[n].name)]_vars

\* Among messages that can be read, as the bridge between the client and the adapter
\* writes them, run_session_init fails only when the session ends, the debuggee never
\* stops, a timer beats the adapter, or the adapter and the plugin do not go together: the
\* answer to initialize has no usable body (session_init.rs:102), the launch is refused,
\* the entry's path cannot be resolved (:246, :264), the default sequence is not answered
\* launch at once (:189), or a manifest step that waits for initialized is sent it before
\* the answer to initialize (:234).
InitFailsForCause ==
  (~attaches /\ calls = 0 /\ outcome = "failed") =>
    \/ slow \/ ~open \/ debuggee \in {"exited", "running"} \/ flaw # "none"
    \/ IF InitSteps(plugin) = <<>> THEN deferred ELSE announces = "before"

\* Every call returns, except that a wait for the answer to a request sent earlier has no
\* timeout (control_client.rs:183, :201).
CallReturns == (steps # <<>>) ~> (steps = <<>> \/ Doing({"seq", "named"}))
=============================================================================
