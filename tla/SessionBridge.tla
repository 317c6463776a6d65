---------------------------- MODULE SessionBridge ----------------------------
(***************************************************************************)
(* The tasks of a running dap-proxy and how they end: the bridge of each   *)
(* client (run_client_bridge, an ingest and an egress task), the           *)
(* multiplexer loop, the bridge to the adapter (bridge_backend, the tasks  *)
(* backend_to_mux and mux_to_backend), the task that joins them            *)
(* (start_multiplexed_proxy) and the main program around it (run_editor_   *)
(* proxy and run_headless).  Sources: crates/dap-core/src/mux_bridge.rs,   *)
(* adapter_guard.rs and crates/dap-proxy/src/main.rs.                      *)
(*                                                                         *)
(* The loop is MultiplexSession reduced to what its neighbours observe:    *)
(* the n-th request of client c is the pair <<c, n>>, its response the     *)
(* same pair; how it is routed, and events, are left to that module.       *)
(* Reverse requests are in ChildSessions.                                  *)
(***************************************************************************)
EXTENDS Integers, Sequences, FiniteSets, SequencesExt

CONSTANTS
  Editor,           \* the client on stdin and stdout
  Controls,         \* the clients that may connect to the control port
  MaxConnected,     \* bound on the clients connected, the editor included
  EditorRequests,   \* bound on the requests of the editor
  ControlRequests,  \* bound on the requests of a control client
  LocalRequests,    \* which requests of a client are dapProxyPluginInfo
  None

Clients == Controls \cup {Editor}
Limit(c) == IF c = Editor THEN EditorRequests ELSE ControlRequests

\* The request of the bridge itself.
Disconnect == <<None, 0>>

ASSUME BridgeAssumption ==
  /\ Editor \notin Controls /\ IsFiniteSet(Controls)
  /\ MaxConnected \in Nat /\ EditorRequests \in Nat /\ ControlRequests \in Nat
  /\ LocalRequests \subseteq Nat

VARIABLES
  mode,         \* "editor" or "headless"
  writes,       \* each client's writing end: "open" or "closed"
  reads,        \* its reading end: "reading", "stalled" (its pipe is full) or "closed"
  sent, taken,  \* requests it wrote, and those ingest has read
  bridge,       \* run_client_bridge: "off", "serving", "draining" (ingest is over), "done"
  ingest,       \* "reading", "ended", "failed"
  egress,       \* "writing", "ended", "failed"
  outbound,     \* each client's outbound channel
  loop,         \* "running", "ended", "failed", "aborted"
  attached,     \* the loop's clients
  ops,          \* its channel of operations: <<c, n>>, or <<c, 0>> for Detach
  to_upstream,  \* its channel to mux_to_backend
  m2b,          \* mux_to_backend: "running", "ended", "failed"
  b2m,          \* backend_to_mux: "reading", "ended", or failed: "unreadable", "refused"
  shutdown,     \* the oneshot has fired or its sender is dropped
  adapter,      \* "up", "hung" (reads and says nothing), "gone"
  adapter_in,   \* what the adapter was written
  adapter_out,  \* its output that the loop has not handled
  answered,     \* the requests it answered
  session,      \* the joining task: "serving", "closing", "ok", "error", "aborted"
  main          \* "running", "stopping" (told to), "guards", "returned", "exited"

peers == <<writes, reads, sent>>
tasks == <<taken, bridge, ingest, egress>>
inner == <<loop, attached, ops, to_upstream, outbound>>
back == <<m2b, b2m, adapter, adapter_in, adapter_out, answered>>
vars == <<mode, peers, tasks, inner, back, shutdown, session, main>>

\* The runtime runs the tasks until main returns.
Running == main \in {"running", "stopping", "guards"}

\* start_multiplexed_proxy, or start_headless_multiplexed_proxy: the loop and the bridge
\* to the adapter run, and the editor, if there is one, is attached.
Init ==
  /\ mode \in {"editor", "headless"}
  /\ writes = [c \in Clients |-> "open"] /\ reads = [c \in Clients |-> "reading"]
  /\ sent = [c \in Clients |-> 0] /\ taken = [c \in Clients |-> 0]
  /\ bridge = [c \in Clients |-> IF c = Editor /\ mode # "headless" THEN "serving" ELSE "off"]
  /\ ingest = [c \in Clients |-> "reading"] /\ egress = [c \in Clients |-> "writing"]
  /\ outbound = [c \in Clients |-> <<>>]
  /\ loop = "running" /\ ops = <<>> /\ to_upstream = <<>>
  /\ attached = {c \in Clients : bridge[c] = "serving"}
  /\ m2b = "running" /\ b2m = "reading"
  /\ adapter = "up" /\ adapter_in = <<>> /\ adapter_out = <<>>
  /\ answered = {}
  /\ shutdown = FALSE /\ session = "serving" /\ main = "running"

-----------------------------------------------------------------------------
(* The clients *)

\* Of what the peers do once main is told to stop or the session is over, only what the
\* editor does matters, to the read of stdin when main has returned.
Connected(c) ==
  /\ bridge[c] # "off"
  /\ (main = "running" /\ session \in {"serving", "closing"}) \/ (c = Editor /\ main = "returned")

PeerSends(c) ==
  /\ Connected(c) /\ writes[c] = "open" /\ sent[c] < Limit(c)
  /\ sent' = [sent EXCEPT ![c] = @ + 1]
  /\ UNCHANGED <<mode, writes, reads, tasks, inner, back, shutdown, session, main>>

\* The editor closes the proxy's stdin only.
EditorStopsWriting ==
  /\ Connected(Editor) /\ writes[Editor] = "open"
  /\ writes' = [writes EXCEPT ![Editor] = "closed"]
  /\ UNCHANGED <<mode, reads, sent, tasks, inner, back, shutdown, session, main>>

\* It stays but does not read any more.
EditorStopsReading ==
  /\ Connected(Editor) /\ main = "running" /\ reads[Editor] = "reading"
  /\ reads' = [reads EXCEPT ![Editor] = "stalled"]
  /\ UNCHANGED <<mode, writes, sent, tasks, inner, back, shutdown, session, main>>

\* A client exits or drops its connection: both ends are closed.
PeerLeaves(c) ==
  /\ Connected(c) /\ reads[c] # "closed"
  /\ writes' = [writes EXCEPT ![c] = "closed"]
  /\ reads' = [reads EXCEPT ![c] = "closed"]
  /\ UNCHANGED <<mode, sent, tasks, inner, back, shutdown, session, main>>

\* serve_control_attach: accept, then attach through the loop.
Connect(c) ==
  /\ c \in Controls /\ bridge[c] = "off" /\ loop = "running" /\ main = "running"
  /\ Cardinality({d \in Clients : bridge[d] # "off"}) < MaxConnected
  /\ bridge' = [bridge EXCEPT ![c] = "serving"]
  /\ attached' = attached \cup {c}
  /\ UNCHANGED <<mode, peers, taken, ingest, egress, loop, ops, to_upstream, outbound,
                 back, shutdown, session, main>>

-----------------------------------------------------------------------------
(* run_client_bridge *)

Reading(c) == bridge[c] = "serving"

\* Fault: the client stays attached.
ForgetDetach(c, how) ==
  /\ ingest' = [ingest EXCEPT ![c] = how]
  /\ bridge' = [bridge EXCEPT ![c] = "draining"]
  /\ UNCHANGED ops

\* ingest ends, and run_client_bridge tells the loop to detach the client.
IngestEnds(c, how) ==
  /\ ingest' = [ingest EXCEPT ![c] = how]
  /\ bridge' = [bridge EXCEPT ![c] = "draining"]
  /\ ops' = IF loop = "running" THEN Append(ops, <<c, 0>>) ELSE ops

\* dapProxyPluginInfo: ingest answers on the client's own stream.
AnswerLocally(c) ==
  /\ Reading(c) /\ taken[c] < sent[c] /\ taken[c] + 1 \in LocalRequests
  /\ taken' = [taken EXCEPT ![c] = @ + 1]
  /\ \/ reads[c] = "reading" /\ UNCHANGED <<ingest, bridge, ops>>
     \/ reads[c] = "closed" /\ IngestEnds(c, "failed")
  /\ UNCHANGED <<mode, peers, egress, loop, attached, to_upstream, outbound,
                 back, shutdown, session, main>>

\* Any other request is sent to the loop, an error when the loop is gone.
TakeRequest(c) ==
  /\ Reading(c) /\ taken[c] < sent[c] /\ taken[c] + 1 \notin LocalRequests
  /\ taken' = [taken EXCEPT ![c] = @ + 1]
  /\ \/ /\ loop = "running"
        /\ ops' = Append(ops, <<c, taken'[c]>>) /\ UNCHANGED <<ingest, bridge>>
     \/ loop # "running" /\ IngestEnds(c, "failed")
  /\ UNCHANGED <<mode, peers, egress, loop, attached, to_upstream, outbound,
                 back, shutdown, session, main>>

\* The end of the stream, which is an error in the middle of a message.
IngestEof(c) ==
  /\ Reading(c) /\ taken[c] = sent[c] /\ writes[c] = "closed"
  /\ \E how \in {"ended", "failed"} : IngestEnds(c, how)
  /\ UNCHANGED <<mode, peers, taken, egress, loop, attached, to_upstream, outbound,
                 back, shutdown, session, main>>

\* Something that is not a message.
IngestError(c) ==
  /\ Reading(c) /\ writes[c] = "open" /\ main = "running"
  /\ IngestEnds(c, "failed")
  /\ UNCHANGED <<mode, peers, taken, egress, loop, attached, to_upstream, outbound,
                 back, shutdown, session, main>>

\* Nothing came from the editor for --client-idle-timeout-secs, whatever it waits for.  The
\* option may be absent or long: this may happen, and never has to.
IdleTimeout ==
  /\ Reading(Editor) /\ taken[Editor] = sent[Editor]
  /\ IngestEnds(Editor, "ended")
  /\ UNCHANGED <<mode, peers, taken, egress, loop, attached, to_upstream, outbound,
                 back, shutdown, session, main>>

\* egress writes a message; a failure drops the channel.
EgressWrites(c) ==
  /\ egress[c] = "writing" /\ outbound[c] # <<>> /\ reads[c] # "stalled"
  /\ IF reads[c] = "reading"
     THEN outbound' = [outbound EXCEPT ![c] = Tail(@)] /\ UNCHANGED egress
     ELSE outbound' = [outbound EXCEPT ![c] = <<>>] /\ egress' = [egress EXCEPT ![c] = "failed"]
  /\ UNCHANGED <<mode, peers, taken, bridge, ingest, loop, attached, ops, to_upstream,
                 back, shutdown, session, main>>

\* The loop dropped the sending side.
EgressEnds(c) ==
  /\ bridge[c] # "off" /\ egress[c] = "writing" /\ outbound[c] = <<>> /\ c \notin attached
  /\ egress' = [egress EXCEPT ![c] = "ended"]
  /\ UNCHANGED <<mode, peers, taken, bridge, ingest, inner, back, shutdown, session, main>>

\* egress.await returned.
BridgeEnds(c) ==
  /\ bridge[c] = "draining" /\ egress[c] # "writing"
  /\ bridge' = [bridge EXCEPT ![c] = "done"]
  /\ UNCHANGED <<mode, peers, taken, ingest, egress, inner, back, shutdown, session, main>>

-----------------------------------------------------------------------------
(* The loop *)

Receiving(c) == egress[c] = "writing"

\* The loop stops, which drops the sending side of every outbound channel and its input.
LoopStops(how) ==
  /\ loop' = how /\ attached' = {} /\ ops' = <<>> /\ adapter_out' = <<>>

\* A request goes upstream, unless mux_to_backend is gone; a client is detached.
LoopOp ==
  /\ loop = "running" /\ ops # <<>>
  /\ LET c == Head(ops)[1]
         n == Head(ops)[2]
     IN \/ /\ n = 0
           /\ attached' = attached \ {c} /\ ops' = Tail(ops)
           /\ UNCHANGED <<loop, to_upstream, adapter_out>>
        \/ /\ n > 0 /\ m2b = "running"
           /\ to_upstream' = Append(to_upstream, <<c, n>>) /\ ops' = Tail(ops)
           /\ UNCHANGED <<loop, attached, adapter_out>>
        \/ /\ n > 0 /\ m2b # "running"
           /\ LoopStops("failed") /\ UNCHANGED to_upstream
  /\ UNCHANGED <<mode, peers, tasks, outbound, m2b, b2m, adapter, adapter_in, answered,
                 shutdown, session, main>>

\* The response for an editor that is detached is for nobody, that for a control client
\* still is.
Targets(m) == IF m[1] = Editor THEN attached \cap {Editor} ELSE {m[1]}

\* A response is delivered, or the loop fails at a client it cannot reach.
LoopUpstream ==
  /\ loop = "running" /\ adapter_out # <<>>
  /\ LET m == Head(adapter_out) IN
       \/ /\ \A c \in Targets(m) : c \in attached /\ Receiving(c)
          /\ outbound' = [c \in Clients |-> IF c \in Targets(m) THEN Append(outbound[c], m)
                                                              ELSE outbound[c]]
          /\ adapter_out' = Tail(adapter_out)
          /\ UNCHANGED <<loop, attached, ops>>
       \/ /\ \E c \in Targets(m) : ~(c \in attached /\ Receiving(c))
          /\ LoopStops("failed") /\ UNCHANGED outbound
  /\ UNCHANGED <<mode, peers, tasks, to_upstream, m2b, b2m, adapter, adapter_in, answered,
                 shutdown, session, main>>

LoopEof ==
  /\ loop = "running" /\ b2m # "reading" /\ adapter_out = <<>>
  /\ LoopStops("ended")
  /\ UNCHANGED <<mode, peers, tasks, to_upstream, outbound, m2b, b2m, adapter, adapter_in, answered,
                 shutdown, session, main>>

-----------------------------------------------------------------------------
(* bridge_backend and the adapter *)

\* A message is written to the adapter.  The write has no timeout: while the adapter hangs,
\* a message in the queue holds the task.
M2bWrite ==
  /\ m2b = "running" /\ to_upstream # <<>> /\ adapter # "hung"
  /\ to_upstream' = Tail(to_upstream)
  /\ IF adapter = "up" THEN adapter_in' = Append(adapter_in, Head(to_upstream)) /\ UNCHANGED m2b
                       ELSE m2b' = "failed" /\ UNCHANGED adapter_in
  /\ UNCHANGED <<mode, peers, tasks, loop, attached, ops, outbound, b2m, adapter,
                 adapter_out, answered, shutdown, session, main>>

\* The two ways out of select!: the shutdown, also with messages in the queue, and the
\* loop's end, when the queue is empty.
M2bLeaves ==
  /\ m2b = "running" /\ m2b' = "ended"
  /\ \/ shutdown /\ (to_upstream = <<>> \/ adapter # "hung")
     \/ loop # "running" /\ to_upstream = <<>>

\* Fault: only the end of the session makes the adapter disconnect.
DisconnectAtShutdown ==
  /\ M2bLeaves
  /\ adapter_in' = IF adapter = "up" /\ shutdown THEN Append(adapter_in, Disconnect) ELSE adapter_in
  /\ UNCHANGED <<mode, peers, tasks, inner, b2m, adapter, adapter_out, answered,
                 shutdown, session, main>>

\* Fault: the shutdown does not leave the loop.
DisconnectAndGoOn ==
  /\ m2b = "running" /\ shutdown /\ adapter = "up"
  /\ adapter_in' = Append(adapter_in, Disconnect)
  /\ UNCHANGED <<mode, peers, tasks, inner, m2b, b2m, adapter, adapter_out, answered,
                 shutdown, session, main>>

\* Then request_adapter_disconnect, which gives up after two seconds.
M2bDisconnect ==
  /\ M2bLeaves
  /\ adapter_in' = IF adapter = "up" THEN Append(adapter_in, Disconnect) ELSE adapter_in
  /\ UNCHANGED <<mode, peers, tasks, inner, b2m, adapter, adapter_out, answered,
                 shutdown, session, main>>

\* The end of the adapter's output.
B2mEof ==
  /\ b2m = "reading" /\ adapter = "gone"
  /\ b2m' = "ended"
  /\ UNCHANGED <<mode, peers, tasks, inner, m2b, adapter, adapter_in, adapter_out,
                 answered, shutdown, session, main>>

\* backend_to_mux fails at output that it cannot read, or at a message that it can read but
\* the loop is not there to take.  What was read before is handed over.
B2mFails ==
  /\ b2m = "reading"
  /\ \/ adapter # "hung" /\ b2m' = "unreadable"
     \/ loop # "running" /\ b2m' = "refused"
  /\ UNCHANGED <<mode, peers, tasks, inner, m2b, adapter, adapter_in, adapter_out, answered,
                 shutdown, session, main>>

Says(m) ==
  adapter_out' = IF b2m = "reading" /\ loop = "running" THEN Append(adapter_out, m) ELSE adapter_out

AdapterAnswers(r) ==
  /\ adapter = "up" /\ r \notin answered
  /\ answered' = answered \cup {r} /\ Says(r)
  /\ UNCHANGED <<mode, peers, tasks, inner, m2b, b2m, adapter, adapter_in,
                 shutdown, session, main>>

\* It exits, or stops reading and answering.
AdapterStops(how) ==
  /\ adapter # "gone" /\ adapter # how
  /\ adapter' = how
  /\ UNCHANGED <<mode, peers, tasks, inner, m2b, b2m, adapter_in, adapter_out,
                 answered, shutdown, session, main>>

-----------------------------------------------------------------------------
(* The task that joins them, and main *)

\* The editor's bridge returned: BackendBridge::shutdown sends the oneshot.
ShutDown ==
  /\ session = "serving" /\ bridge[Editor] = "done"
  /\ session' = "closing" /\ shutdown' = TRUE
  /\ UNCHANGED <<mode, peers, tasks, inner, back, main>>

\* bridge_backend waits for backend_to_mux first and returns at its error.
B2mFailed == b2m \in {"unreadable", "refused"}
BackendJoined == B2mFailed \/ (b2m = "ended" /\ m2b # "running")

\* Three seconds are enough for what does not wait for the adapter.
BackendLate == m2b # "running" \/ adapter = "hung"

SessionResult ==
  IF "failed" \in {ingest[Editor], egress[Editor]} THEN "error" ELSE "ok"

\* Fault: nobody waits for the bridge to the adapter.
CloseAtOnce ==
  /\ session = "closing"
  /\ session' = SessionResult /\ LoopStops("aborted")
  /\ UNCHANGED <<mode, peers, tasks, to_upstream, outbound, m2b, b2m, adapter, adapter_in, answered,
                 shutdown, main>>

\* Fault: the wait has no timeout.
CloseWithoutTimeout ==
  /\ session = "closing" /\ BackendJoined
  /\ session' = SessionResult /\ LoopStops("aborted")
  /\ UNCHANGED <<mode, peers, tasks, to_upstream, outbound, m2b, b2m, adapter, adapter_in, answered,
                 shutdown, main>>

\* The bridge to the adapter is joined or late; the loop is aborted.
Close ==
  /\ session = "closing" /\ (BackendJoined \/ BackendLate)
  /\ session' = SessionResult /\ LoopStops("aborted")
  /\ UNCHANGED <<mode, peers, tasks, to_upstream, outbound, m2b, b2m, adapter, adapter_in, answered,
                 shutdown, main>>

\* Fault: a signal only shuts the bridge to the adapter down.
SignalWaits ==
  /\ main = "running" /\ session \in {"serving", "closing"}
  /\ main' = "stopping" /\ shutdown' = TRUE
  /\ UNCHANGED <<mode, peers, tasks, inner, back, session>>

\* SIGINT, SIGTERM or the parent's death: the task is aborted, which drops the oneshot's
\* sender.  The tasks it waited for go on.
Signal ==
  /\ main = "running" /\ session \in {"serving", "closing"}
  /\ main' = "stopping" /\ session' = "aborted" /\ shutdown' = TRUE
  /\ UNCHANGED <<mode, peers, tasks, inner, back>>

\* run_until_shutdown returned.  An error of the session returns before the guards.
MainJoins ==
  /\ main \in {"running", "stopping"} /\ session \in {"ok", "error", "aborted"}
  /\ main' = IF session = "error" THEN "returned" ELSE "guards"
  /\ UNCHANGED <<mode, peers, tasks, inner, back, shutdown, session>>

\* AdapterGuard::shutdown kills the adapter.
KillAdapter ==
  /\ main = "guards"
  /\ main' = "returned" /\ adapter' = "gone"
  /\ UNCHANGED <<mode, peers, tasks, inner, m2b, b2m, adapter_in, adapter_out,
                 answered, shutdown, session>>

\* Dropping the runtime waits for a read of stdin that is under way: its thread returns
\* only when the editor writes or leaves.
StdinRead ==
  /\ mode # "headless" /\ writes[Editor] = "open" /\ taken[Editor] = sent[Editor]
  /\ ingest[Editor] # "failed"

Exit ==
  /\ main = "returned" /\ ~StdinRead
  /\ main' = "exited"
  /\ UNCHANGED <<mode, peers, tasks, inner, back, shutdown, session>>

-----------------------------------------------------------------------------
Serve(c) ==
  AnswerLocally(c) \/ TakeRequest(c) \/ IngestEof(c) \/ BridgeEnds(c)

Drain(c) == EgressWrites(c) \/ EgressEnds(c)

Next ==
  \/ \E c \in Clients : PeerSends(c) \/ PeerLeaves(c)
  \/ EditorStopsWriting \/ EditorStopsReading
  \/ /\ Running
     /\ \/ \E r \in Range(adapter_in) \ {Disconnect} : AdapterAnswers(r)
        \/ AdapterStops("hung") \/ AdapterStops("gone")
  \/ /\ Running
     /\ \/ \E c \in Clients : Connect(c) \/ Serve(c) \/ IngestError(c) \/ Drain(c)
        \/ IdleTimeout
        \/ LoopOp \/ LoopUpstream \/ LoopEof
        \/ M2bWrite \/ M2bDisconnect \/ B2mEof \/ B2mFails
        \/ ShutDown \/ Close \/ Signal \/ MainJoins \/ KillAdapter
  \/ Exit

\* The runtime runs every task that can move, and its timers expire.  No client has to
\* send, read or leave, and the adapter does not have to answer, read or exit.
Fairness ==
  /\ \A c \in Clients : WF_vars(Running /\ Serve(c)) /\ WF_vars(Running /\ Drain(c))
  /\ WF_vars(Running /\ (LoopOp \/ LoopUpstream \/ LoopEof))
  /\ WF_vars(Running /\ (M2bWrite \/ M2bDisconnect))
  /\ WF_vars(Running /\ B2mEof)
  /\ WF_vars(Running /\ ShutDown) /\ WF_vars(Running /\ Close)
  /\ WF_vars(Running /\ (MainJoins \/ KillAdapter)) /\ WF_vars(Exit)

Spec == Init /\ [][Next]_vars
FairSpec == Spec /\ Fairness

-----------------------------------------------------------------------------
(* Properties *)

Told == Disconnect \in Range(adapter_in)
Over == session \in {"ok", "error", "aborted"}

\* Every variable has its type, and a client that is gone for the loop gets nothing more.
TypeOK ==
  /\ mode \in {"editor", "headless"}
  /\ writes \in [Clients -> {"open", "closed"}]
  /\ reads \in [Clients -> {"reading", "stalled", "closed"}]
  /\ \A c \in Clients : taken[c] \in 0..sent[c] /\ sent[c] \in 0..Limit(c)
  /\ bridge \in [Clients -> {"off", "serving", "draining", "done"}]
  /\ ingest \in [Clients -> {"reading", "ended", "failed"}]
  /\ egress \in [Clients -> {"writing", "ended", "failed"}]
  /\ \A c \in Clients : egress[c] = "failed" => outbound[c] = <<>>
  /\ loop \in {"running", "ended", "failed", "aborted"}
  /\ attached \subseteq {c \in Clients : bridge[c] # "off"}
  /\ \A c \in Clients : bridge[c] = "done" => c \notin attached \/ egress[c] = "failed"
  /\ \A c \in Clients : bridge[c] = "serving" => ingest[c] = "reading"
  /\ m2b \in {"running", "ended", "failed"}
  /\ b2m \in {"reading", "ended", "unreadable", "refused"}
  /\ adapter \in {"up", "hung", "gone"}
  /\ answered \subseteq Range(adapter_in)
  /\ shutdown \in BOOLEAN
  /\ session \in {"serving", "closing", "ok", "error", "aborted"}
  /\ main \in {"running", "stopping", "guards", "returned", "exited"}

\* Through ingest, the loop and mux_to_backend, the adapter reads what each client wrote in
\* its order, nothing twice and nothing left out, and nothing after the bridge's own
\* disconnect, whichever branch select! took.
AdapterReadsInOrder ==
  \A i \in 1..Len(adapter_in) :
    IF adapter_in[i] = Disconnect THEN i = Len(adapter_in)
    ELSE LET earlier == {adapter_in[j] : j \in 1..(i - 1)}
             c == adapter_in[i][1]
             n == adapter_in[i][2]
         IN earlier \cap ({c} \X Nat) = {c} \X ((1..(n - 1)) \ LocalRequests)

\* The bridges have their types, a client that is gone for the loop gets nothing more,
\* and the adapter reads in order (run_client_bridge, mux_to_backend).
BridgeConsistent == TypeOK /\ AdapterReadsInOrder

\* docs/editor-repl-workflow.md: closing the editor's connection sends disconnect to the
\* adapter.  When the session ends without an error, an adapter that reads was told to
\* disconnect before it is killed, unless mux_to_backend, which tells it, is still on its way
\* and nobody waits for it: bridge_backend returns when backend_to_mux has failed, be it that
\* the adapter wrote something unreadable or that its message found the loop gone.
ToldBeforeKilled ==
  [][main = "guards" /\ main' = "returned" /\ session = "ok" /\ adapter = "up"
     => Told \/ (b2m \in {"unreadable", "refused"} /\ m2b = "running")]_vars

\* The bridge of a client that stops writing ends, unless the client stops reading too and
\* stays (detach closes the channel that egress waits on).
BridgeEndsWithPeer ==
  \A c \in Clients :
    (bridge[c] = "serving" /\ writes[c] = "closed")
      ~> (bridge[c] = "done" \/ reads[c] = "stalled" \/ ~Running)

\* Once the editor's bridge is over so is the session, although the adapter may hang or
\* stay (the three seconds of BackendBridge::shutdown).
SessionEndsWithEditor == (bridge[Editor] = "done") ~> Over

\* A proxy that is told to stop returns from main, whatever its clients and its adapter do
\* (abort in run_until_shutdown).
StopHeeded == (main = "stopping") ~> (main \in {"returned", "exited"})

\* When the loop is gone before the editor, after an error or the end of the adapter's
\* output, an adapter that still reads is told to disconnect.
LoopLostTellsAdapter ==
  (loop \in {"ended", "failed"}) ~> (Told \/ adapter # "up" \/ ~Running)

\* With the loop gone, the next request the editor sends for the adapter ends the session:
\* it is neither lost in silence nor left waiting.
LostSessionEndsAtRequest ==
  (/\ loop \in {"ended", "failed"} /\ bridge[Editor] = "serving"
   /\ (taken[Editor] + 1)..sent[Editor] \ LocalRequests # {})
    ~> (Over \/ reads[Editor] = "stalled")

\* A loop that is lost before the editor leaves is noticed on both sides: by the adapter,
\* which is told, and by the editor, whose next request ends the session
\* (mux_to_backend's disconnect, the closed queue in ingest).
LossNoticed == LoopLostTellsAdapter /\ LostSessionEndsAtRequest
=============================================================================
