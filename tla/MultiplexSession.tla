-------------------------- MODULE MultiplexSession --------------------------
(***************************************************************************)
(* The multiplexer loop of crates/protocol-mux: SessionLoop (session.rs)   *)
(* with its MessageRemapper, translate_cancel and LateJoinCache.  One task *)
(* owns all the state and handles one item at a time, an operation of a    *)
(* client or a message of the debug adapter ("upstream"), chosen by an     *)
(* unbiased tokio::select!.  The two input channels are FIFO and           *)
(* unbounded, so the instant of handling stands for the instant of         *)
(* sending: an action below is one turn of the loop, or one event of the   *)
(* environment that the loop can observe.                                  *)
(*                                                                         *)
(* The environment is the one crates/dap-core/src/mux_bridge.rs builds:    *)
(* at most one Editor is attached, a bridge sends nothing after its        *)
(* Detach, messages are the typed DAP messages of dap-protocol (a request  *)
(* always has a seq, a response a request_seq), clients number their       *)
(* requests upwards, and the adapter answers a request at most once.       *)
(* Client messages that are not requests and adapter messages that are     *)
(* neither responses nor events are ignored by the loop and have no        *)
(* action.  Roles Agent and Other are never attached by the repository's   *)
(* programs, and nothing outside the tests reads the broadcast channel     *)
(* behind ClientEndpoint::events: both are left out.                       *)
(***************************************************************************)
EXTENDS Integers, Sequences, FiniteSets, HashMaps

CONSTANTS
  MaxClients,   \* bound on Attach operations
  MaxRequests,  \* bound on backend_seq
  MaxUpstream,  \* bound on messages the adapter emits
  ClientSeqs,   \* the sequence numbers clients may use
  Commands,     \* the commands clients may send
  Events,       \* the events the adapter may emit
  Outcomes,     \* the success flags the adapter may answer with
  Specs,        \* payloads of setBreakpoints requests
  NoArg         \* the argument of every other request

ASSUME BoundsAssumption ==
  /\ MaxClients \in Nat
  /\ MaxRequests \in Nat
  /\ MaxUpstream \in Nat
  /\ ClientSeqs \subseteq Nat
  /\ Outcomes \subseteq BOOLEAN

Roles == {"Editor", "Control"}
ClientIds == 1..MaxClients
Snapshot == "_dapBreakpointSnapshot"

VARIABLES
  loop,               \* "running", "ended" (upstream closed), "failed" (a handler's error)
  next_client_id,     \* client ids handed out so far
  role,               \* the role of every id handed out
  clients,            \* the keys of SessionLoop::clients
  receivers,          \* ids whose ClientEndpoint::recv has not been dropped
  backend_seq,        \* the two AtomicI64 counters
  display_seq,
  forward, reverse,   \* MessageRemapper: editor seq -> backend seq, and back
  secondary_pending,  \* backend seq -> <<client, client seq>>
  cache,              \* LateJoinCache
  to_upstream_open,   \* the task that drains to_upstream still runs
  inbox,              \* all that was sent on each client's outbound channel
  client_seq,         \* the last request number each client used
  joined,             \* history: messages emitted when each client attached
  requests,           \* history: the i-th request forwarded has backend seq i
  emitted             \* history: the i-th message of the adapter has seq i

membership == <<next_client_id, role, clients, joined>>
tables == <<forward, reverse, secondary_pending>>
vars == <<loop, membership, receivers, backend_seq, display_seq, tables, cache,
          to_upstream_open, inbox, client_seq, requests, emitted>>

-----------------------------------------------------------------------------
(* Messages *)

\* A message on a client's outbound channel.  origin is the adapter's message it
\* carries (0: the loop made it); live is FALSE for a late-join replay.
Outbound(type, seq, request_seq, origin, live, body) ==
  [type |-> type, seq |-> seq, request_seq |-> request_seq,
   origin |-> origin, live |-> live, body |-> body]

Outbounds ==
  [type : {"response", "event", "snapshot"}, seq : Nat, request_seq : Nat,
   origin : Nat, live : BOOLEAN, body : Specs \cup {NoArg}]

Args(command) ==
  CASE command = "cancel" -> ClientSeqs
    [] command = "setBreakpoints" -> Specs
    [] OTHER -> {NoArg}

\* What a client may send: any command, with a number above those it has used.
Requests(id) ==
  UNION {[command : {c}, arg : Args(c), seq : {s \in ClientSeqs : s > client_seq[id]}] :
           c \in Commands}

-----------------------------------------------------------------------------
(* LateJoinCache *)

EmptyCache ==
  [initialize_body |-> 0, initialized |-> 0, last_stopped |-> 0,
   pending |-> EmptyMap, breakpoints |-> NoArg]

\* A cached entry and the message it is replayed as.
CachedMessage(type, origin) == Outbound(type, IF type = "response" THEN 0 ELSE origin,
                                        0, origin, FALSE, NoArg)

\* Fault: the replay stops after the initialized event.
ReplayWithoutStop ==
  (IF cache.initialize_body = 0 THEN <<>> ELSE <<CachedMessage("response", cache.initialize_body)>>)
  \o (IF cache.initialized = 0 THEN <<>> ELSE <<CachedMessage("event", cache.initialized)>>)

Replay ==
  ReplayWithoutStop
  \o (IF cache.last_stopped = 0 THEN <<>> ELSE <<CachedMessage("event", cache.last_stopped)>>)

\* Fault: the breakpoints are believed set as soon as they are asked for.
ObserveRequestEagerly(b, request) ==
  IF request.command = "setBreakpoints"
  THEN [cache EXCEPT !.pending = Insert(@, b, request.arg), !.breakpoints = request.arg]
  ELSE cache

\* observe_client_request: a setBreakpoints waits under its backend seq.
ObserveRequest(b, request) ==
  IF request.command = "setBreakpoints"
  THEN [cache EXCEPT !.pending = Insert(@, b, request.arg)]
  ELSE cache

\* observe_response, called before request_seq is rewritten for the client.  A
\* failed response changes nothing: its pending entry stays.
ObserveResponse(origin, b, command, success) ==
  IF ~success THEN cache
  ELSE [cache EXCEPT
          !.initialize_body = IF command = "initialize" THEN origin ELSE @,
          !.breakpoints = IF b \in DOMAIN cache.pending THEN cache.pending[b] ELSE @,
          !.pending = Without(@, b)]

ObserveEvent(origin, event) ==
  CASE event = "initialized" -> [cache EXCEPT !.initialized = origin]
    [] event = "stopped" -> [cache EXCEPT !.last_stopped = origin]
    [] OTHER -> cache

-----------------------------------------------------------------------------
(* MessageRemapper and translate_cancel *)

Map(seq, b) ==
  /\ forward' = Insert(forward, seq, b)
  /\ reverse' = Insert(reverse, b, seq)

Unmap(b) ==
  /\ forward' = Without(forward, reverse[b])
  /\ reverse' = Without(reverse, b)

\* Fault: cancel is forwarded with the editor's own numbering.
LeaveCancel(request) == request.arg

\* The argument forwarded upstream: a cancel names a request of the editor, and is
\* rewritten when that request is still mapped.
TranslateCancel(request) ==
  IF request.command = "cancel" /\ request.arg \in DOMAIN forward
  THEN forward[request.arg]
  ELSE request.arg

-----------------------------------------------------------------------------
(* Delivery *)

Reachable == clients \cap receivers

SendTo(ids, m) ==
  inbox' = [id \in ClientIds |-> IF id \in ids THEN Append(inbox[id], m) ELSE inbox[id]]

\* Fault: a client that cannot be reached is skipped and the rest of the iteration lost.
DeliverToSome(ids, m) ==
  /\ \E reached \in SUBSET (ids \cap Reachable) : SendTo(reached, m)
  /\ UNCHANGED loop

\* deliver_to_client for each of ids, in the arbitrary order of a HashMap: the first
\* unknown id or dropped receiver is an error, which ends the loop.
Deliver(ids, m) ==
  \/ /\ ids \subseteq Reachable
     /\ SendTo(ids, m)
     /\ UNCHANGED loop
  \/ /\ ~(ids \subseteq Reachable)
     /\ \E reached \in SUBSET (ids \cap Reachable) : SendTo(reached, m)
     /\ loop' = "failed"

\* The targets of deliver_to_role(Editor) and of broadcast_to_all.
EditorTargets == {id \in clients : role[id] = "Editor"}
EventTargets == clients

\* Fault: the counter is read but does not advance.
StuckDisplaySeq == display_seq

NextDisplaySeq == display_seq + 1

-----------------------------------------------------------------------------
(* Operations of clients *)

Init ==
  /\ loop = "running"
  /\ next_client_id = 0
  /\ role = [id \in ClientIds |-> "Control"]
  /\ clients = {} /\ receivers = {}
  /\ backend_seq = 0 /\ display_seq = 0
  /\ forward = EmptyMap /\ reverse = EmptyMap /\ secondary_pending = EmptyMap
  /\ cache = EmptyCache
  /\ to_upstream_open = TRUE
  /\ inbox = [id \in ClientIds |-> <<>>]
  /\ client_seq = [id \in ClientIds |-> 0]
  /\ joined = [id \in ClientIds |-> 0]
  /\ requests = <<>> /\ emitted = <<>>

\* SessionOp::Attach.  The id is new, so the replay cannot fail.  mux_bridge attaches
\* one Editor; control connections may come before it.
Attach(r) ==
  LET id == next_client_id + 1 IN
  /\ loop = "running"
  /\ next_client_id < MaxClients
  /\ r = "Editor" => \A other \in 1..next_client_id : role[other] # "Editor"
  /\ next_client_id' = id
  /\ role' = [role EXCEPT ![id] = r]
  /\ clients' = clients \cup {id}
  /\ receivers' = receivers \cup {id}
  /\ inbox' = [inbox EXCEPT ![id] = Replay]
  /\ joined' = [joined EXCEPT ![id] = Len(emitted)]
  /\ UNCHANGED <<loop, backend_seq, display_seq, tables, cache, to_upstream_open,
                 client_seq, requests, emitted>>

\* The egress task of a client's bridge ends (a write to its socket fails) and drops
\* the receiver; the Detach comes later, when the ingest task ends too.
DropReceiver(id) ==
  /\ loop = "running"
  /\ id \in Reachable
  /\ receivers' = receivers \ {id}
  /\ UNCHANGED <<loop, membership, backend_seq, display_seq, tables, cache,
                 to_upstream_open, inbox, client_seq, requests, emitted>>

\* Fault: detaching also forgets the requests in flight of every secondary client.
DetachAndForget(id) ==
  /\ loop = "running"
  /\ id \in clients
  /\ clients' = clients \ {id}
  /\ secondary_pending' = EmptyMap
  /\ UNCHANGED <<loop, next_client_id, role, joined, receivers, backend_seq, display_seq,
                 forward, reverse, cache, to_upstream_open, inbox, client_seq,
                 requests, emitted>>

\* SessionOp::Detach: only the map of clients changes.
Detach(id) ==
  /\ loop = "running"
  /\ id \in clients
  /\ clients' = clients \ {id}
  /\ UNCHANGED <<loop, next_client_id, role, joined, receivers, backend_seq, display_seq,
                 tables, cache, to_upstream_open, inbox, client_seq, requests, emitted>>

\* A Control client's breakpoint snapshot is answered without going upstream.
AnswerSnapshot(id, request) ==
  /\ role[id] = "Control" /\ request.command = Snapshot
  /\ display_seq' = NextDisplaySeq
  /\ Deliver({id}, Outbound("snapshot", display_seq', request.seq, 0, TRUE, cache.breakpoints))
  /\ UNCHANGED <<backend_seq, tables, cache, requests>>

\* to_upstream.send, the last thing a forwarded request does: it fails, and ends the
\* loop, when the task that drains the channel is gone.
SendUpstream(id, request, arg) ==
  \/ /\ to_upstream_open
     /\ requests' = Append(requests, [from |-> id, seq |-> request.seq,
                                      command |-> request.command,
                                      asked |-> request.arg, arg |-> arg])
     /\ UNCHANGED loop
  \/ /\ ~to_upstream_open
     /\ loop' = "failed"
     /\ UNCHANGED requests

ForwardEditor(id, request) ==
  /\ role[id] = "Editor"
  /\ backend_seq < MaxRequests
  /\ backend_seq' = backend_seq + 1
  /\ Map(request.seq, backend_seq')
  /\ cache' = ObserveRequest(backend_seq', request)
  /\ SendUpstream(id, request, TranslateCancel(request))
  /\ UNCHANGED <<secondary_pending, display_seq, inbox>>

ForwardSecondary(id, request) ==
  /\ role[id] = "Control" /\ request.command # Snapshot
  /\ backend_seq < MaxRequests
  /\ backend_seq' = backend_seq + 1
  /\ secondary_pending' = Insert(secondary_pending, backend_seq', <<id, request.seq>>)
  /\ cache' = ObserveRequest(backend_seq', request)
  /\ SendUpstream(id, request, request.arg)
  /\ UNCHANGED <<forward, reverse, display_seq, inbox>>

\* SessionOp::ClientSend.
ClientSend(id, request) ==
  /\ loop = "running"
  /\ id \in clients
  /\ client_seq' = [client_seq EXCEPT ![id] = request.seq]
  /\ \/ AnswerSnapshot(id, request)
     \/ ForwardEditor(id, request)
     \/ ForwardSecondary(id, request)
  /\ UNCHANGED <<membership, receivers, to_upstream_open, emitted>>

-----------------------------------------------------------------------------
(* Messages of the adapter *)

Emission(type, request_seq, name, success, own) ==
  [type |-> type, request_seq |-> request_seq, name |-> name, success |-> success, own |-> own]

\* Fault: the response keeps the backend's request_seq.
BackendNumber(b) == b

\* The request_seq the client expects.
ClientNumber(b) == IF b \in DOMAIN reverse THEN reverse[b] ELSE secondary_pending[b][2]

\* The response to backend seq b goes to the editor under a new display seq, or to the
\* secondary client that asked under the adapter's own seq, or nowhere.
Route(b) ==
  \/ /\ b \in DOMAIN reverse
     /\ Unmap(b)
     /\ display_seq' = NextDisplaySeq
     /\ Deliver(EditorTargets,
                Outbound("response", display_seq', ClientNumber(b), Len(emitted'), TRUE, NoArg))
     /\ UNCHANGED secondary_pending
  \/ /\ b \notin DOMAIN reverse /\ b \in DOMAIN secondary_pending
     /\ secondary_pending' = Without(secondary_pending, b)
     /\ Deliver({secondary_pending[b][1]},
                Outbound("response", Len(emitted'), ClientNumber(b), Len(emitted'), TRUE, NoArg))
     /\ UNCHANGED <<forward, reverse, display_seq>>
  \/ /\ b \notin DOMAIN reverse \cup DOMAIN secondary_pending
     /\ UNCHANGED <<loop, inbox, display_seq, tables>>

HandleResponse(b, command, success, own) ==
  /\ loop = "running"
  /\ Len(emitted) < MaxUpstream
  /\ emitted' = Append(emitted, Emission("response", b, command, success, own))
  /\ cache' = ObserveResponse(Len(emitted'), b, command, success)
  /\ Route(b)
  /\ UNCHANGED <<membership, receivers, backend_seq, to_upstream_open, client_seq, requests>>

\* The adapter answers, successfully or not, a request it was sent.
UpstreamResponse(b, success) ==
  /\ b \in 1..Len(requests)
  /\ \A o \in 1..Len(emitted) :
       emitted[o].type = "response" /\ ~emitted[o].own => emitted[o].request_seq # b
  /\ HandleResponse(b, requests[b].command, success, FALSE)

\* The bridge itself sends "disconnect" with seq 1 when it stops draining to_upstream
\* (request_adapter_disconnect); the adapter's answer comes in like any other.
DisconnectAnswered(success) ==
  /\ ~to_upstream_open
  /\ \A o \in 1..Len(emitted) : ~emitted[o].own
  /\ HandleResponse(1, "disconnect", success, TRUE)

UpstreamEvent(event) ==
  /\ loop = "running"
  /\ Len(emitted) < MaxUpstream
  /\ emitted' = Append(emitted, Emission("event", 0, event, TRUE, FALSE))
  /\ cache' = ObserveEvent(Len(emitted'), event)
  /\ display_seq' = NextDisplaySeq
  /\ Deliver(EventTargets, Outbound("event", display_seq', 0, Len(emitted'), TRUE, NoArg))
  /\ UNCHANGED <<membership, receivers, backend_seq, tables, to_upstream_open,
                 client_seq, requests>>

\* mux_to_backend ends: shut down by the bridge, or a write to the adapter failed.
CloseToUpstream ==
  /\ loop = "running"
  /\ to_upstream_open
  /\ to_upstream_open' = FALSE
  /\ UNCHANGED <<loop, membership, receivers, backend_seq, display_seq, tables, cache,
                 inbox, client_seq, requests, emitted>>

\* from_upstream.recv() returns None: the adapter's output was closed.
UpstreamEof ==
  /\ loop = "running"
  /\ loop' = "ended"
  /\ UNCHANGED <<membership, receivers, backend_seq, display_seq, tables, cache,
                 to_upstream_open, inbox, client_seq, requests, emitted>>

Next ==
  \/ \E r \in Roles : Attach(r)
  \/ \E id \in ClientIds : DropReceiver(id) \/ Detach(id)
  \/ \E id \in ClientIds : \E request \in Requests(id) : ClientSend(id, request)
  \/ \E b \in 1..Len(requests), success \in Outcomes : UpstreamResponse(b, success)
  \/ \E success \in Outcomes : DisconnectAnswered(success)
  \/ \E event \in Events : UpstreamEvent(event)
  \/ CloseToUpstream
  \/ UpstreamEof

Spec == Init /\ [][Next]_vars

-----------------------------------------------------------------------------
(* Properties *)

\* Every variable has its type.
TypeOK ==
  /\ loop \in {"running", "ended", "failed"}
  /\ next_client_id \in 0..MaxClients
  /\ role \in [ClientIds -> Roles]
  /\ clients \subseteq 1..next_client_id
  /\ receivers \subseteq 1..next_client_id
  /\ backend_seq \in 0..MaxRequests
  /\ display_seq \in Nat
  /\ forward \in Maps(ClientSeqs, 1..MaxRequests)
  /\ reverse \in Maps(1..MaxRequests, ClientSeqs)
  /\ secondary_pending \in Maps(1..MaxRequests, ClientIds \X ClientSeqs)
  /\ cache \in [initialize_body : Nat, initialized : Nat, last_stopped : Nat,
                pending : Maps(1..MaxRequests, Specs), breakpoints : Specs \cup {NoArg}]
  /\ to_upstream_open \in BOOLEAN
  /\ inbox \in [ClientIds -> Seq(Outbounds)]
  /\ client_seq \in [ClientIds -> ClientSeqs \cup {0}]
  /\ joined \in [ClientIds -> 0..MaxUpstream]
  /\ requests \in Seq([from : ClientIds, seq : ClientSeqs, command : Commands,
                       asked : ClientSeqs \cup Specs \cup {NoArg},
                       arg : Nat \cup Specs \cup {NoArg}])
  /\ emitted \in Seq([type : {"response", "event"}, request_seq : Nat,
                      name : Commands \cup Events \cup {"disconnect"},
                      success : BOOLEAN, own : BOOLEAN])

\* The backend seqs the adapter has not answered: no response naming them was handled.
InFlight ==
  {b \in 1..Len(requests) :
     \A o \in 1..Len(emitted) : emitted[o].type = "response" => emitted[o].request_seq # b}

\* A forwarded request is in exactly one of the two tables until its response is
\* handled, under the number its client chose; the remapper's two maps stay inverse.
\* (session.rs handle_client_message and handle_upstream_message, remapper.rs.)
InFlightExact ==
  loop = "running" =>
    /\ DOMAIN reverse \cup DOMAIN secondary_pending = InFlight
    /\ \A b \in DOMAIN reverse :
         /\ role[requests[b].from] = "Editor"
         /\ reverse[b] = requests[b].seq
         /\ reverse[b] \in DOMAIN forward /\ forward[reverse[b]] = b
    /\ \A b \in DOMAIN secondary_pending :
         /\ role[requests[b].from] # "Editor"
         /\ secondary_pending[b] = <<requests[b].from, requests[b].seq>>
    /\ \A s \in DOMAIN forward : forward[s] \in DOMAIN reverse /\ reverse[forward[s]] = s

\* The multiplexer's tables hold what they are meant to, and just the requests in flight
\* (MessageRemapper, secondary_pending).
TablesConsistent == TypeOK /\ InFlightExact

LiveResponses(id) ==
  {k \in 1..Len(inbox[id]) : inbox[id][k].type = "response" /\ inbox[id][k].live}

\* Whoever receives a live response asked for it, under the number the response names:
\* sequence numbers of the two clients coincide all the time, responses never cross.
RoutedToRequester ==
  \A id \in ClientIds : \A k \in LiveResponses(id) :
    LET m == inbox[id][k]
        request == requests[emitted[m.origin].request_seq]
    IN request.from = id /\ request.seq = m.request_seq

\* An earlier response of the other source carried the same number: the bridge's own
\* disconnect and the first request it forwarded are both numbered 1.
NumberTaken(o) ==
  \E p \in 1..(o - 1) :
    /\ emitted[p].type = "response"
    /\ emitted[p].request_seq = emitted[o].request_seq
    /\ emitted[p].own # emitted[o].own

\* While the loop runs, a client that is attached and listening has each response under
\* the number of one of its requests exactly once, and that is the adapter's answer, with
\* one exception.  The bridge's own disconnect has seq 1 like the first request that was
\* forwarded: of the two answers the first goes to the client of request 1, even if it is
\* the disconnect's, and the other one, even if it is the client's own, goes nowhere.
AnswersDeliveredOnce ==
  loop = "running" =>
    \A o \in 1..Len(emitted) :
      (emitted[o].type = "response" /\ emitted[o].request_seq \in 1..Len(requests)) =>
        LET id == requests[emitted[o].request_seq].from IN
        id \in Reachable =>
          Cardinality({k \in LiveResponses(id) : inbox[id][k].origin = o})
            = IF NumberTaken(o) THEN 0 ELSE 1

LiveEvents(id) == {k \in 1..Len(inbox[id]) : inbox[id][k].type = "event" /\ inbox[id][k].live}

\* The adapter's events since client id attached.
EventsSince(id) == {o \in (joined[id] + 1)..Len(emitted) : emitted[o].type = "event"}

\* A client sees the adapter's events since it attached in their order and without a
\* gap, whoever joins, leaves or fails meanwhile, and all of them while it is listening
\* and the loop runs (broadcast_to_all).
EventsInOrderNoGap ==
  \A id \in 1..next_client_id :
    /\ \A k \in LiveEvents(id) :
         /\ inbox[id][k].origin \in EventsSince(id)
         /\ \A j \in LiveEvents(id) : j < k => inbox[id][j].origin < inbox[id][k].origin
         /\ \A o \in EventsSince(id) : o < inbox[id][k].origin =>
              \E j \in LiveEvents(id) : j < k /\ inbox[id][j].origin = o
    /\ (id \in Reachable /\ loop = "running") =>
         \A o \in EventsSince(id) : \E k \in LiveEvents(id) : inbox[id][k].origin = o

\* What the adapter may say of itself that a late joiner has to know, by its latest message.
Caught == {<<"response", "initialize">>, <<"event", "initialized">>, <<"event", "stopped">>}
Says(o, what) == emitted[o].success /\ <<emitted[o].type, emitted[o].name>> = what
IsLatest(o, what) == Says(o, what) /\ \A later \in (o + 1)..Len(emitted) : ~Says(later, what)

\* A listening client, however late it joined, has the adapter's last initialized and
\* stopped events, from the replay or live, and the capabilities if the adapter had
\* reported them before it joined (cache.rs replay).
LateJoinerCaughtUp ==
  loop = "running" =>
    \A id \in Reachable, o \in 1..Len(emitted), what \in Caught :
      (IsLatest(o, what) /\ (emitted[o].type = "response" => o <= joined[id]))
      => \E k \in 1..Len(inbox[id]) :
           inbox[id][k].type = emitted[o].type /\ inbox[id][k].origin = o

\* What the loop sends the editor carries strictly increasing seqs: responses and events
\* are numbered by one counter although they come from two paths (next_display_seq).
EditorSeqIncreases ==
  \A id \in 1..next_client_id :
    role[id] = "Editor" =>
      \A j, k \in 1..Len(inbox[id]) :
        (j < k /\ inbox[id][j].live) => inbox[id][j].seq < inbox[id][k].seq

\* The adapter answered request b itself with success.
AdapterConfirmed(b) ==
  \E o \in 1..Len(emitted) :
    /\ emitted[o].type = "response" /\ emitted[o].success /\ ~emitted[o].own
    /\ emitted[o].request_seq = b

\* The adapter answered the bridge's own disconnect, which has seq 1, with success.
DisconnectSucceeded == \E o \in 1..Len(emitted) : emitted[o].own /\ emitted[o].success

\* A breakpoint snapshot shows the payload of a setBreakpoints that the adapter answered
\* with success, with one exception: a setBreakpoints that was the first request forwarded
\* is also taken for confirmed when the bridge's own disconnect succeeds, as that carries
\* the same number (cache.rs observe_response asks for the number, not for the command).
SnapshotConfirmed ==
  \A id \in ClientIds : \A k \in 1..Len(inbox[id]) :
    LET m == inbox[id][k] IN
    (m.type = "snapshot" /\ m.body # NoArg) =>
      \E b \in 1..Len(requests) :
        /\ requests[b].command = "setBreakpoints" /\ requests[b].arg = m.body
        /\ AdapterConfirmed(b) \/ (b = 1 /\ DisconnectSucceeded)

\* An editor's cancel that names a request in flight reaches the adapter with that
\* request's backend seq, so it cancels that one (translate_cancel runs before map).
CancelNamesItsRequest ==
  [][\A c \in 1..Len(requests') :
       (/\ c > Len(requests)
        /\ requests'[c].command = "cancel"
        /\ role[requests'[c].from] = "Editor")
       => \A b \in InFlight :
            (requests[b].from = requests'[c].from /\ requests[b].seq = requests'[c].asked)
            => requests'[c].arg = b]_vars

-----------------------------------------------------------------------------
(* What the repository says and the code does not do *)

\* docs/editor-repl-workflow.md: quitting a control client leaves the editor session
\* running.  The loop does not fail while the editor listens and the adapter reads.
SurvivesControlQuit ==
  (to_upstream_open /\ \E id \in Reachable : role[id] = "Editor") => loop # "failed"

\* tests/multiplex_e2e.rs: an editor's cancel references the backend seq of the request
\* it names, also when that request has been answered already.
CancelReferencesBackendSeq ==
  \A b, c \in 1..Len(requests) :
    (/\ b < c
     /\ requests[c].command = "cancel"
     /\ role[requests[c].from] = "Editor" /\ requests[b].from = requests[c].from
     /\ requests[b].seq = requests[c].asked)
    => requests[c].arg = b
=============================================================================
