----------------------- MODULE MultiplexSessionProofs -----------------------
(***************************************************************************)
(* Proofs about the multiplexer loop, for every number of clients,         *)
(* requests and messages: type correctness, the exactness of the tables of *)
(* requests in flight, the routing of responses, and what each client is   *)
(* given: when, how often and in which order.                              *)
(***************************************************************************)
EXTENDS MultiplexSession, CollectionLemmas, SequenceTheorems, TLAPS

\* The records the two histories hold.
RequestRecords ==
  [from : ClientIds, seq : ClientSeqs, command : Commands,
   asked : ClientSeqs \cup Specs \cup {NoArg}, arg : Nat \cup Specs \cup {NoArg}]
EmissionRecords ==
  [type : {"response", "event"}, request_seq : Nat,
   name : Commands \cup Events \cup {"disconnect"}, success : BOOLEAN, own : BOOLEAN]

CacheRecords ==
  [initialize_body : Nat, initialized : Nat, last_stopped : Nat,
   pending : Maps(1..MaxRequests, Specs), breakpoints : Specs \cup {NoArg}]

-----------------------------------------------------------------------------
(* The operators the actions are built from *)

\* A request a client may send has a number of its own and an argument of a known kind.
LEMMA RequestsType ==
  ASSUME NEW id \in ClientIds, NEW request \in Requests(id)
  PROVE  /\ request.command \in Commands
         /\ request.arg \in ClientSeqs \cup Specs \cup {NoArg}
         /\ request.command = "setBreakpoints" => request.arg \in Specs
         /\ request.seq \in ClientSeqs
         /\ request.seq > client_seq[id]
<1>1. PICK c \in Commands :
        request \in [command : {c}, arg : Args(c), seq : {s \in ClientSeqs : s > client_seq[id]}]
  BY DEF Requests
<1>2. Args(c) \subseteq ClientSeqs \cup Specs \cup {NoArg}
  BY DEF Args
<1>3. c = "setBreakpoints" => Args(c) = Specs
  BY DEF Args
<1>4. QED
  BY <1>1, <1>2, <1>3

\* The replay consists of cached messages, none of them live.
LEMMA ReplayType ==
  ASSUME TypeOK
  PROVE  /\ Replay \in Seq(Outbounds)
         /\ \A k \in 1..Len(Replay) : ~Replay[k].live
<1> DEFINE Cached == {m \in Outbounds : ~m.live}
           One(type, origin) == IF origin = 0 THEN <<>> ELSE <<CachedMessage(type, origin)>>
<1>1. cache.initialize_body \in Nat /\ cache.initialized \in Nat /\ cache.last_stopped \in Nat
  BY DEF TypeOK
<1>2. \A type \in {"response", "event"}, origin \in Nat : One(type, origin) \in Seq(Cached)
  <2>1. TAKE type \in {"response", "event"}, origin \in Nat
  <2>2. CachedMessage(type, origin) \in Cached
    BY DEF CachedMessage, Outbound, Outbounds
  <2>3. <<CachedMessage(type, origin)>> \in Seq(Cached)
    <3> HIDE DEF Cached
    <3> QED BY <2>2
  <2>4. <<>> \in Seq(Cached)
    <3> HIDE DEF Cached
    <3> QED OBVIOUS
  <2>5. QED
    BY <2>3, <2>4
<1>3. Replay = One("response", cache.initialize_body) \o One("event", cache.initialized)
               \o One("event", cache.last_stopped)
  BY DEF Replay, ReplayWithoutStop
<1>4. Replay \in Seq(Cached)
  <2>1. /\ One("response", cache.initialize_body) \in Seq(Cached)
        /\ One("event", cache.initialized) \in Seq(Cached)
        /\ One("event", cache.last_stopped) \in Seq(Cached)
    <3> HIDE DEF One, Cached
    <3> QED BY <1>1, <1>2
  <2> HIDE DEF One, Cached
  <2>2. QED
    BY <1>3, <2>1, ConcatProperties
<1>5. \A k \in 1..Len(Replay) : Replay[k] \in Cached
  BY <1>4, ElementOfSeq
<1>6. \A k \in 1..Len(Replay) : Replay[k] \in Outbounds
  BY <1>5
<1>7. QED
  BY <1>4, <1>5, <1>6

\* Sending appends at most one message to each inbox, and only to the inboxes of ids.
LEMMA SendToLemma ==
  ASSUME NEW ids, NEW m, SendTo(ids, m), inbox \in [ClientIds -> Seq(Outbounds)], m \in Outbounds
  PROVE  /\ inbox' \in [ClientIds -> Seq(Outbounds)]
         /\ \A id \in ClientIds : \A k \in 1..Len(inbox'[id]) :
              \/ k \in 1..Len(inbox[id]) /\ inbox'[id][k] = inbox[id][k]
              \/ id \in ids /\ inbox'[id][k] = m
BY DEF SendTo

\* Delivering is sending to some of the targets, and is all that changes the loop.
LEMMA DeliverLemma ==
  ASSUME NEW ids, NEW m, Deliver(ids, m), TypeOK, m \in Outbounds
  PROVE  /\ loop' \in {loop, "failed"}
         /\ inbox' \in [ClientIds -> Seq(Outbounds)]
         /\ \A id \in ClientIds : \A k \in 1..Len(inbox'[id]) :
              \/ k \in 1..Len(inbox[id]) /\ inbox'[id][k] = inbox[id][k]
              \/ id \in ids /\ inbox'[id][k] = m
<1>1. PICK reached : SendTo(reached, m) /\ reached \subseteq ids
  BY DEF Deliver
<1>2. QED
  BY <1>1, SendToLemma DEF Deliver, TypeOK

-----------------------------------------------------------------------------
(* The inductive invariant *)

\* What the counters and the histories say of each other.
Bookkeeping ==
  /\ Len(requests) <= backend_seq
  /\ loop = "running" => backend_seq = Len(requests)
  /\ Len(emitted) <= MaxUpstream
  /\ \A b \in 1..Len(requests) :
       /\ requests[b].from \in 1..next_client_id
       /\ requests[b].seq <= client_seq[requests[b].from]
  /\ \A i, j \in 1..next_client_id : role[i] = "Editor" /\ role[j] = "Editor" => i = j
  /\ to_upstream_open =>
       \A o \in 1..Len(emitted) :
         emitted[o].type = "response" => emitted[o].request_seq \in 1..Len(requests)

TableInv == TypeOK /\ Bookkeeping /\ InFlightExact

\* The bounds, the type of the histories, and what the loop's flag can be.
LEMMA TypeFacts ==
  ASSUME TypeOK
  PROVE  /\ requests \in Seq(RequestRecords) /\ Len(requests) \in Nat
         /\ emitted \in Seq(EmissionRecords) /\ Len(emitted) \in Nat
         /\ cache \in CacheRecords
BY DEF TypeOK, RequestRecords, EmissionRecords, CacheRecords

LEMMA InitTables == Init => TableInv
<1> SUFFICES ASSUME Init PROVE TableInv
  OBVIOUS
<1>1. TypeOK
  <2>1. /\ \A K, V : EmptyMap \in Maps(K, V)
        /\ DOMAIN EmptyMap = {}
    BY EmptyMapType
  <2>2. inbox \in [ClientIds -> Seq(Outbounds)] /\ requests \in Seq(RequestRecords)
        /\ emitted \in Seq(EmissionRecords)
    BY DEF Init
  <2>3. QED
    BY <2>1, <2>2, BoundsAssumption
       DEF Init, TypeOK, EmptyCache, Roles, RequestRecords, EmissionRecords
<1>2. Bookkeeping
  BY BoundsAssumption DEF Init, Bookkeeping
<1>3. InFlightExact
  BY EmptyMapType DEF Init, InFlightExact, InFlight
<1>4. QED
  BY <1>1, <1>2, <1>3 DEF TableInv

-----------------------------------------------------------------------------
(* Attaching, detaching, and the end of the connections *)

LEMMA AttachTables == ASSUME TableInv, NEW r \in Roles, Attach(r) PROVE TableInv'
<1> DEFINE id == next_client_id + 1
<1> USE DEF TableInv
<1>1. id \in ClientIds /\ next_client_id \in 0..MaxClients /\ id \in 0..MaxClients
  BY BoundsAssumption DEF Attach, TypeOK, ClientIds
<1>2. /\ loop' = loop /\ backend_seq' = backend_seq /\ display_seq' = display_seq
      /\ forward' = forward /\ reverse' = reverse /\ secondary_pending' = secondary_pending
      /\ cache' = cache /\ to_upstream_open' = to_upstream_open /\ client_seq' = client_seq
      /\ requests' = requests /\ emitted' = emitted
  BY DEF Attach, tables
<1>3. /\ next_client_id' = id
      /\ role' = [role EXCEPT ![id] = r]
      /\ clients' = clients \cup {id} /\ receivers' = receivers \cup {id}
      /\ inbox' = [inbox EXCEPT ![id] = Replay]
      /\ joined' = [joined EXCEPT ![id] = Len(emitted)]
      /\ r = "Editor" => \A other \in 1..next_client_id : role[other] # "Editor"
  BY DEF Attach
<1> HIDE DEF id
<1>4. TypeOK'
  <2>1. inbox' \in [ClientIds -> Seq(Outbounds)]
    BY ReplayType, <1>1, <1>3 DEF TypeOK
  <2>2. joined' \in [ClientIds -> 0..MaxUpstream]
    BY <1>1, <1>3, BoundsAssumption, TypeFacts DEF TypeOK, Bookkeeping
  <2>3. role' \in [ClientIds -> Roles]
    BY <1>1, <1>3 DEF TypeOK
  <2>4. clients' \subseteq 1..next_client_id' /\ receivers' \subseteq 1..next_client_id'
    BY <1>1, <1>3 DEF TypeOK, id
  <2>5. QED
    BY <1>1, <1>2, <1>3, <2>1, <2>2, <2>3, <2>4 DEF TypeOK
<1>5. \A other \in 1..next_client_id : role'[other] = role[other]
  BY <1>1, <1>3 DEF TypeOK, ClientIds, id
<1>6. Bookkeeping'
  <2>1. \A b \in 1..Len(requests) : requests[b].from \in 1..next_client_id'
    BY <1>1, <1>3 DEF Bookkeeping, id
  <2>2. \A i, j \in 1..next_client_id' : role'[i] = "Editor" /\ role'[j] = "Editor" => i = j
    <3>1. role'[id] = r
      BY <1>1, <1>3 DEF TypeOK
    <3>2. 1..next_client_id' = 1..next_client_id \cup {id}
      BY <1>1, <1>3 DEF id
    <3>3. \A i, j \in 1..next_client_id : role[i] = "Editor" /\ role[j] = "Editor" => i = j
      BY DEF Bookkeeping
    <3>4. QED
      BY <1>3, <1>5, <3>1, <3>2, <3>3
  <2>3. \A b \in 1..Len(requests) : requests[b].seq <= client_seq[requests[b].from]
    BY DEF Bookkeeping
  <2>4. QED
    BY <1>2, <2>1, <2>2, <2>3 DEF Bookkeeping
<1>7. InFlightExact'
  <2>1. \A b \in 1..Len(requests) : role'[requests[b].from] = role[requests[b].from]
    BY <1>5 DEF Bookkeeping
  <2>2. InFlight' = InFlight /\ InFlight \subseteq 1..Len(requests)
    BY <1>2 DEF InFlight
  <2>3. QED
    BY <1>2, <2>1, <2>2 DEF InFlightExact
<1>8. QED
  BY <1>4, <1>6, <1>7

\* A step that leaves the tables and the histories alone preserves the invariant.
LEMMA QuietTables ==
  ASSUME TableInv,
         loop' \in {loop, "ended"}, clients' \subseteq clients, receivers' \subseteq receivers,
         to_upstream_open' \in {to_upstream_open, FALSE},
         UNCHANGED <<next_client_id, role, joined, backend_seq, display_seq, forward,
                     reverse, secondary_pending, cache, inbox, client_seq, requests, emitted>>
  PROVE  TableInv'
<1> USE DEF TableInv
<1>1. /\ next_client_id' = next_client_id /\ role' = role /\ joined' = joined
      /\ backend_seq' = backend_seq /\ display_seq' = display_seq
      /\ forward' = forward /\ reverse' = reverse /\ secondary_pending' = secondary_pending
      /\ cache' = cache /\ inbox' = inbox /\ client_seq' = client_seq
      /\ requests' = requests /\ emitted' = emitted
  OBVIOUS
<1>2. /\ loop' \in {loop, "ended"}
      /\ clients' \subseteq clients /\ receivers' \subseteq receivers
      /\ to_upstream_open' \in {to_upstream_open, FALSE}
  OBVIOUS
<1>3. TypeOK'
  <2>1. /\ clients' \subseteq 1..next_client_id /\ receivers' \subseteq 1..next_client_id
        /\ loop' \in {"running", "ended", "failed"} /\ to_upstream_open' \in BOOLEAN
    BY <1>2 DEF TypeOK
  <2>2. QED
    BY <1>1, <2>1 DEF TypeOK
<1>4. Bookkeeping'
  <2>1. loop' = "running" => loop = "running"
    BY <1>2
  <2>2. to_upstream_open' => to_upstream_open
    BY <1>2, Zenon
  <2>3. QED
    BY <1>1, <2>1, <2>2 DEF Bookkeeping
<1>5. InFlight' = InFlight
  BY <1>1 DEF InFlight
<1>6. InFlightExact'
  BY <1>1, <1>2, <1>5 DEF InFlightExact
<1>7. QED
  BY <1>3, <1>4, <1>6

LEMMA DropReceiverTables ==
  ASSUME TableInv, NEW id \in ClientIds, DropReceiver(id) PROVE TableInv'
BY QuietTables DEF DropReceiver, membership, tables

LEMMA DetachTables ==
  ASSUME TableInv, NEW id \in ClientIds, Detach(id) PROVE TableInv'
BY QuietTables DEF Detach, tables

LEMMA CloseToUpstreamTables == ASSUME TableInv, CloseToUpstream PROVE TableInv'
BY QuietTables DEF CloseToUpstream, membership, tables

LEMMA UpstreamEofTables == ASSUME TableInv, UpstreamEof PROVE TableInv'
BY QuietTables DEF UpstreamEof, membership, tables

-----------------------------------------------------------------------------
(* Requests of clients *)

\* A forwarded request is appended to the history, or the loop fails.
LEMMA SendUpstreamLemma ==
  ASSUME TypeOK, NEW id \in ClientIds, NEW request \in Requests(id),
         NEW arg \in Nat \cup Specs \cup {NoArg}, SendUpstream(id, request, arg)
  PROVE  /\ requests' \in Seq(RequestRecords)
         /\ \/ requests' = requests /\ loop' = "failed"
            \/ /\ to_upstream_open /\ loop' = loop
               /\ Len(requests') = Len(requests) + 1
               /\ \A b \in 1..Len(requests) : requests'[b] = requests[b]
               /\ requests'[Len(requests) + 1].from = id
               /\ requests'[Len(requests) + 1].seq = request.seq
<1> DEFINE entry == [from |-> id, seq |-> request.seq, command |-> request.command,
                     asked |-> request.arg, arg |-> arg]
<1>1. entry \in RequestRecords
  BY RequestsType DEF RequestRecords
<1>2. requests \in Seq(RequestRecords)
  BY TypeFacts
<1>3. entry.from = id /\ entry.seq = request.seq
  OBVIOUS
<1>4. \/ to_upstream_open /\ requests' = Append(requests, entry) /\ loop' = loop
      \/ requests' = requests /\ loop' = "failed"
  BY DEF SendUpstream
<1> HIDE DEF entry
<1>5. CASE requests' = requests /\ loop' = "failed"
  BY <1>2, <1>5
<1>6. CASE to_upstream_open /\ requests' = Append(requests, entry) /\ loop' = loop
  BY <1>1, <1>2, <1>3, <1>6, AppendProperties
<1>7. QED
  BY <1>4, <1>5, <1>6

\* What forwarding a request does whatever table it is entered in.
Forwards(id, request, arg) ==
  /\ loop = "running" /\ id \in clients
  /\ backend_seq < MaxRequests /\ backend_seq' = backend_seq + 1
  /\ cache' = ObserveRequest(backend_seq', request)
  /\ SendUpstream(id, request, arg)
  /\ client_seq' = [client_seq EXCEPT ![id] = request.seq]
  /\ next_client_id' = next_client_id /\ role' = role /\ joined' = joined
  /\ clients' = clients /\ receivers' = receivers
  /\ to_upstream_open' = to_upstream_open /\ emitted' = emitted
  /\ display_seq' = display_seq /\ inbox' = inbox

\* The types and the counters stay right, and the new request is the one new request
\* in flight.
LEMMA Forwarding ==
  ASSUME TableInv, NEW id \in ClientIds, NEW request \in Requests(id),
         NEW arg \in Nat \cup Specs \cup {NoArg}, Forwards(id, request, arg),
         forward' \in Maps(ClientSeqs, 1..MaxRequests),
         reverse' \in Maps(1..MaxRequests, ClientSeqs),
         secondary_pending' \in Maps(1..MaxRequests, ClientIds \X ClientSeqs)
  PROVE  /\ TypeOK' /\ Bookkeeping'
         /\ backend_seq' = Len(requests) + 1 /\ backend_seq' \in 1..MaxRequests
         /\ loop' = "running" =>
              /\ InFlight' = InFlight \cup {backend_seq'}
              /\ \A b \in InFlight : requests'[b] = requests[b]
              /\ requests'[backend_seq'].from = id
              /\ requests'[backend_seq'].seq = request.seq
<1>0. TypeOK /\ Bookkeeping
  BY DEF TableInv
<1>1. /\ id \in 1..next_client_id /\ next_client_id \in 0..MaxClients
      /\ backend_seq \in 0..MaxRequests
  BY <1>0 DEF TypeOK, Forwards
<1> /\ Len(requests) \in Nat /\ Len(emitted) \in Nat
    /\ ClientSeqs \subseteq Nat /\ MaxClients \in Nat /\ MaxRequests \in Nat
  BY <1>0, TypeFacts, BoundsAssumption
<1>2. backend_seq' = Len(requests) + 1 /\ backend_seq' \in 1..MaxRequests
  BY <1>0, <1>1 DEF Bookkeeping, Forwards
<1>3. /\ requests' \in Seq(RequestRecords)
      /\ \/ requests' = requests /\ loop' = "failed"
         \/ /\ to_upstream_open /\ loop' = loop
            /\ Len(requests') = Len(requests) + 1
            /\ \A b \in 1..Len(requests) : requests'[b] = requests[b]
            /\ requests'[Len(requests) + 1].from = id
            /\ requests'[Len(requests) + 1].seq = request.seq
  BY <1>0, SendUpstreamLemma DEF Forwards
<1>4. request.seq \in Nat /\ request.seq \in ClientSeqs /\ request.seq > client_seq[id]
  BY RequestsType
<1>5. cache' \in CacheRecords
  <2>1. cache \in CacheRecords /\ cache' = ObserveRequest(backend_seq', request)
    BY <1>0, TypeFacts DEF Forwards
  <2>2. CASE request.command = "setBreakpoints"
    <3>1. request.arg \in Specs
      BY <2>2, RequestsType
    <3>2. Insert(cache.pending, backend_seq', request.arg) \in Maps(1..MaxRequests, Specs)
      BY <1>2, <2>1, <3>1, InsertType DEF CacheRecords
    <3>3. QED
      BY <2>1, <2>2, <3>2 DEF ObserveRequest, CacheRecords
  <2>3. CASE request.command # "setBreakpoints"
    BY <2>1, <2>3 DEF ObserveRequest
  <2>4. QED
    BY <2>2, <2>3
<1>6. /\ client_seq \in [ClientIds -> Nat] /\ client_seq' \in [ClientIds -> Nat]
      /\ client_seq' \in [ClientIds -> ClientSeqs \cup {0}]
      /\ client_seq'[id] = request.seq
      /\ \A c \in ClientIds : c # id => client_seq'[c] = client_seq[c]
  <2>1. client_seq \in [ClientIds -> ClientSeqs \cup {0}]
    BY <1>0 DEF TypeOK
  <2>2. client_seq' = [client_seq EXCEPT ![id] = request.seq]
    BY DEF Forwards
  <2>3. ClientSeqs \cup {0} \subseteq Nat
    OBVIOUS
  <2>4. client_seq \in [ClientIds -> Nat]
    BY <2>1, <2>3
  <2>5. QED
    BY <1>4, <2>1, <2>2, <2>4
<1>7. /\ loop' \in {"running", "ended", "failed"}
      /\ next_client_id' = next_client_id /\ role' = role /\ joined' = joined
      /\ clients' = clients /\ receivers' = receivers
      /\ to_upstream_open' = to_upstream_open /\ emitted' = emitted
      /\ display_seq' = display_seq /\ inbox' = inbox
  BY <1>3 DEF Forwards
<1>8. TypeOK'
  <2>1. requests' \in Seq([from : ClientIds, seq : ClientSeqs, command : Commands,
                           asked : ClientSeqs \cup Specs \cup {NoArg},
                           arg : Nat \cup Specs \cup {NoArg}])
    BY <1>3 DEF RequestRecords
  <2>2. cache' \in [initialize_body : Nat, initialized : Nat, last_stopped : Nat,
                    pending : Maps(1..MaxRequests, Specs), breakpoints : Specs \cup {NoArg}]
    BY <1>5 DEF CacheRecords
  <2>3. backend_seq' \in 0..MaxRequests
    BY <1>2
  <2>4. QED
    BY <1>0, <1>6, <1>7, <2>1, <2>2, <2>3 DEF TypeOK
<1>9. \A c \in ClientIds : client_seq'[c] >= client_seq[c]
  BY <1>4, <1>6
<1>10. \A b \in 1..Len(requests) :
         /\ requests[b].from \in 1..next_client_id
         /\ requests[b].seq <= client_seq'[requests[b].from]
  <2>1. TAKE b \in 1..Len(requests)
  <2>2. /\ requests[b].from \in 1..next_client_id
        /\ requests[b].seq <= client_seq[requests[b].from]
    BY <1>0 DEF Bookkeeping
  <2>3. requests[b].from \in ClientIds /\ requests[b].seq \in Nat
    <3>1. requests[b] \in RequestRecords
      BY <1>0, TypeFacts, ElementOfSeq
    <3>2. QED
      BY <3>1 DEF RequestRecords
  <2>4. client_seq[requests[b].from] \in Nat /\ client_seq'[requests[b].from] \in Nat
        /\ client_seq'[requests[b].from] >= client_seq[requests[b].from]
    BY <1>6, <1>9, <2>3
  <2>5. QED
    BY <2>2, <2>3, <2>4
<1>11. /\ \A i, j \in 1..next_client_id : role[i] = "Editor" /\ role[j] = "Editor" => i = j
       /\ Len(emitted) <= MaxUpstream
       /\ to_upstream_open =>
            \A o \in 1..Len(emitted) :
              emitted[o].type = "response" => emitted[o].request_seq \in 1..Len(requests)
  BY <1>0 DEF Bookkeeping
<1>12. CASE requests' = requests /\ loop' = "failed"
  <2>1. Len(requests') <= backend_seq'
    BY <1>2, <1>12
  <2>2. Bookkeeping'
    BY <1>7, <1>10, <1>11, <1>12, <2>1 DEF Bookkeeping
  <2>3. QED
    BY <1>2, <1>8, <1>12, <2>2
<1>13. CASE /\ to_upstream_open /\ loop' = loop
            /\ Len(requests') = Len(requests) + 1
            /\ \A b \in 1..Len(requests) : requests'[b] = requests[b]
            /\ requests'[Len(requests) + 1].from = id
            /\ requests'[Len(requests) + 1].seq = request.seq
  <2>1. /\ 1..Len(requests') = 1..Len(requests) \cup {backend_seq'}
        /\ backend_seq' \notin 1..Len(requests)
    BY <1>2, <1>13
  <2>2. \A b \in 1..Len(requests') :
          /\ requests'[b].from \in 1..next_client_id
          /\ requests'[b].seq <= client_seq'[requests'[b].from]
    <3>1. TAKE b \in 1..Len(requests')
    <3>2. CASE b = backend_seq'
      BY <1>1, <1>2, <1>4, <1>6, <1>13, <3>2
    <3>3. CASE b \in 1..Len(requests)
      BY <1>10, <1>13, <3>3
    <3>4. QED
      BY <2>1, <3>2, <3>3
  <2>3. \A o \in 1..Len(emitted) :
          emitted[o].type = "response" => emitted[o].request_seq \in 1..Len(requests)
    BY <1>11, <1>13
  <2>4. Bookkeeping'
    <3>1. Len(requests') = backend_seq'
      BY <1>2, <1>13
    <3>2. \A o \in 1..Len(emitted) :
            emitted[o].type = "response" => emitted[o].request_seq \in 1..Len(requests')
      BY <2>1, <2>3
    <3>3. QED
      BY <1>2, <1>7, <1>11, <2>2, <3>1, <3>2 DEF Bookkeeping
  <2>5. InFlight' = InFlight \cup {backend_seq'}
    BY <1>7, <2>1, <2>3 DEF InFlight
  <2>6. InFlight \subseteq 1..Len(requests)
    BY DEF InFlight
  <2>7. QED
    BY <1>2, <1>8, <1>13, <2>4, <2>5, <2>6
<1>14. QED
  BY <1>3, <1>12, <1>13

\* A request of the editor is entered in the remapper under a number not yet mapped.
LEMMA ForwardEditorTables ==
  ASSUME TableInv, NEW id \in ClientIds, NEW request \in Requests(id),
         ClientSend(id, request), ForwardEditor(id, request)
  PROVE  TableInv'
<1> DEFINE arg == TranslateCancel(request)
           b == backend_seq'
<1>1. TypeOK /\ Bookkeeping /\ InFlightExact
  BY DEF TableInv
<1>2. Forwards(id, request, arg)
  BY DEF ClientSend, ForwardEditor, Forwards, membership
<1>3. arg \in Nat \cup Specs \cup {NoArg}
  <2>1. request.arg \in Nat \cup Specs \cup {NoArg}
    BY RequestsType, BoundsAssumption
  <2>2. \A s \in DOMAIN forward : forward[s] \in Nat
    <3>1. forward \in Maps(ClientSeqs, 1..MaxRequests)
      BY <1>1 DEF TypeOK
    <3>2. forward \in [DOMAIN forward -> 1..MaxRequests]
      BY <3>1, MapsDef
    <3>3. QED
      BY <3>2, BoundsAssumption
  <2>3. QED
    BY <2>1, <2>2 DEF TranslateCancel
<1>4. /\ loop = "running" /\ id \in clients /\ role[id] = "Editor" /\ role' = role
      /\ secondary_pending' = secondary_pending
      /\ forward' = Insert(forward, request.seq, b)
      /\ reverse' = Insert(reverse, b, request.seq)
      /\ b = backend_seq + 1 /\ backend_seq < MaxRequests
  BY <1>2 DEF ForwardEditor, Map, Forwards
<1>5. request.seq \in ClientSeqs /\ request.seq > client_seq[id]
  BY RequestsType
<1>6. b \in 1..MaxRequests
  BY <1>1, <1>4, BoundsAssumption DEF TypeOK
<1>7. /\ forward' \in Maps(ClientSeqs, 1..MaxRequests)
      /\ reverse' \in Maps(1..MaxRequests, ClientSeqs)
      /\ secondary_pending' \in Maps(1..MaxRequests, ClientIds \X ClientSeqs)
  BY <1>1, <1>4, <1>5, <1>6, InsertType DEF TypeOK
<1>8. /\ TypeOK' /\ Bookkeeping'
      /\ b = Len(requests) + 1
      /\ loop' = "running" =>
           /\ InFlight' = InFlight \cup {b}
           /\ \A q \in InFlight : requests'[q] = requests[q]
           /\ requests'[b].from = id
           /\ requests'[b].seq = request.seq
  BY <1>2, <1>3, <1>7, Forwarding
<1>9. request.seq \notin DOMAIN forward
  <2>1. SUFFICES ASSUME request.seq \in DOMAIN forward PROVE FALSE
    OBVIOUS
  <2>2. PICK q \in DOMAIN reverse : reverse[q] = request.seq
    BY <1>1, <1>4, <2>1 DEF InFlightExact
  <2>3. q \in 1..Len(requests) /\ role[requests[q].from] = "Editor"
        /\ requests[q].seq = request.seq
    BY <1>1, <1>4, <2>2 DEF InFlightExact, InFlight
  <2>4. requests[q].from \in 1..next_client_id /\ id \in 1..next_client_id
        /\ requests[q].seq <= client_seq[requests[q].from]
    BY <1>1, <1>4, <2>3 DEF Bookkeeping, TypeOK
  <2>5. requests[q].from = id
    BY <1>1, <1>4, <2>3, <2>4 DEF Bookkeeping
  <2>6. client_seq[id] \in Nat /\ request.seq \in Nat
    BY <1>1, <1>5, BoundsAssumption DEF TypeOK
  <2>7. QED
    BY <1>5, <2>3, <2>4, <2>5, <2>6
<1>10. /\ DOMAIN forward' = DOMAIN forward \cup {request.seq}
       /\ forward'[request.seq] = b
       /\ \A s \in DOMAIN forward : forward'[s] = forward[s]
       /\ DOMAIN reverse' = DOMAIN reverse \cup {b}
       /\ reverse'[b] = request.seq
       /\ \A q \in DOMAIN reverse : q # b => reverse'[q] = reverse[q]
  BY <1>4, <1>9 DEF Insert
<1>11. b \notin InFlight
  BY <1>1, <1>8, TypeFacts DEF InFlight
<1> HIDE DEF b
<1>12. InFlightExact'
  <2>1. SUFFICES ASSUME loop' = "running" PROVE InFlightExact'
    BY DEF InFlightExact
  <2>2. /\ InFlight' = InFlight \cup {b}
        /\ \A q \in InFlight : requests'[q] = requests[q]
        /\ requests'[b].from = id
        /\ requests'[b].seq = request.seq
    BY <1>8, <2>1
  <2>3. /\ DOMAIN reverse \cup DOMAIN secondary_pending = InFlight
        /\ \A q \in DOMAIN reverse :
             /\ role[requests[q].from] = "Editor"
             /\ reverse[q] = requests[q].seq
             /\ reverse[q] \in DOMAIN forward /\ forward[reverse[q]] = q
        /\ \A q \in DOMAIN secondary_pending :
             /\ role[requests[q].from] # "Editor"
             /\ secondary_pending[q] = <<requests[q].from, requests[q].seq>>
        /\ \A s \in DOMAIN forward : forward[s] \in DOMAIN reverse /\ reverse[forward[s]] = s
    BY <1>1, <1>4 DEF InFlightExact
  <2>4. DOMAIN reverse' \cup DOMAIN secondary_pending' = InFlight'
    BY <1>4, <1>10, <2>2, <2>3
  <2>5. \A q \in DOMAIN reverse' :
          /\ role'[requests'[q].from] = "Editor"
          /\ reverse'[q] = requests'[q].seq
          /\ reverse'[q] \in DOMAIN forward' /\ forward'[reverse'[q]] = q
    BY <1>4, <1>10, <1>11, <2>2, <2>3
  <2>6. \A q \in DOMAIN secondary_pending' :
          /\ role'[requests'[q].from] # "Editor"
          /\ secondary_pending'[q] = <<requests'[q].from, requests'[q].seq>>
    BY <1>4, <2>2, <2>3
  <2>7. \A s \in DOMAIN forward' : forward'[s] \in DOMAIN reverse' /\ reverse'[forward'[s]] = s
    BY <1>10, <1>11, <2>3
  <2>8. QED
    BY <2>4, <2>5, <2>6, <2>7 DEF InFlightExact
<1>13. QED
  BY <1>8, <1>12 DEF TableInv

\* A request of a Control client is entered in secondary_pending.
LEMMA ForwardSecondaryTables ==
  ASSUME TableInv, NEW id \in ClientIds, NEW request \in Requests(id),
         ClientSend(id, request), ForwardSecondary(id, request)
  PROVE  TableInv'
<1> DEFINE b == backend_seq'
<1>1. TypeOK /\ Bookkeeping /\ InFlightExact
  BY DEF TableInv
<1>2. Forwards(id, request, request.arg)
  BY DEF ClientSend, ForwardSecondary, Forwards, membership
<1>3. request.arg \in Nat \cup Specs \cup {NoArg} /\ request.seq \in ClientSeqs
  BY RequestsType, BoundsAssumption
<1>4. /\ loop = "running" /\ role[id] = "Control" /\ role' = role
      /\ secondary_pending' = Insert(secondary_pending, b, <<id, request.seq>>)
      /\ forward' = forward /\ reverse' = reverse
      /\ b = backend_seq + 1 /\ backend_seq < MaxRequests
  BY <1>2 DEF ForwardSecondary, Forwards
<1>5. b \in 1..MaxRequests
  BY <1>1, <1>4, BoundsAssumption DEF TypeOK
<1>6. /\ forward' \in Maps(ClientSeqs, 1..MaxRequests)
      /\ reverse' \in Maps(1..MaxRequests, ClientSeqs)
      /\ secondary_pending' \in Maps(1..MaxRequests, ClientIds \X ClientSeqs)
  <2>1. <<id, request.seq>> \in ClientIds \X ClientSeqs
    BY <1>3
  <2>2. QED
    BY <1>1, <1>4, <1>5, <2>1, InsertType DEF TypeOK
<1>7. /\ TypeOK' /\ Bookkeeping'
      /\ b = Len(requests) + 1
      /\ loop' = "running" =>
           /\ InFlight' = InFlight \cup {b}
           /\ \A q \in InFlight : requests'[q] = requests[q]
           /\ requests'[b].from = id
           /\ requests'[b].seq = request.seq
  BY <1>2, <1>3, <1>6, Forwarding
<1>8. /\ DOMAIN secondary_pending' = DOMAIN secondary_pending \cup {b}
      /\ secondary_pending'[b] = <<id, request.seq>>
      /\ \A q \in DOMAIN secondary_pending : q # b => secondary_pending'[q] = secondary_pending[q]
  BY <1>4 DEF Insert
<1>9. b \notin InFlight
  BY <1>1, <1>7, TypeFacts DEF InFlight
<1> HIDE DEF b
<1>10. InFlightExact'
  <2>1. SUFFICES ASSUME loop' = "running" PROVE InFlightExact'
    BY DEF InFlightExact
  <2>2. /\ InFlight' = InFlight \cup {b}
        /\ \A q \in InFlight : requests'[q] = requests[q]
        /\ requests'[b].from = id
        /\ requests'[b].seq = request.seq
    BY <1>7, <2>1
  <2>3. /\ DOMAIN reverse \cup DOMAIN secondary_pending = InFlight
        /\ \A q \in DOMAIN reverse :
             /\ role[requests[q].from] = "Editor"
             /\ reverse[q] = requests[q].seq
             /\ reverse[q] \in DOMAIN forward /\ forward[reverse[q]] = q
        /\ \A q \in DOMAIN secondary_pending :
             /\ role[requests[q].from] # "Editor"
             /\ secondary_pending[q] = <<requests[q].from, requests[q].seq>>
        /\ \A s \in DOMAIN forward : forward[s] \in DOMAIN reverse /\ reverse[forward[s]] = s
    BY <1>1, <1>4 DEF InFlightExact
  <2>4. DOMAIN reverse' \cup DOMAIN secondary_pending' = InFlight'
    BY <1>4, <1>8, <2>2, <2>3
  <2>5. \A q \in DOMAIN reverse' :
          /\ role'[requests'[q].from] = "Editor"
          /\ reverse'[q] = requests'[q].seq
          /\ reverse'[q] \in DOMAIN forward' /\ forward'[reverse'[q]] = q
    BY <1>4, <2>2, <2>3
  <2>6. \A q \in DOMAIN secondary_pending' :
          /\ role'[requests'[q].from] # "Editor"
          /\ secondary_pending'[q] = <<requests'[q].from, requests'[q].seq>>
    BY <1>4, <1>8, <1>9, <2>2, <2>3
  <2>7. QED
    BY <1>4, <2>3, <2>4, <2>5, <2>6 DEF InFlightExact
<1>11. QED
  BY <1>7, <1>10 DEF TableInv

\* A message made of the expected parts is one of Outbounds.
LEMMA OutboundType ==
  ASSUME NEW type \in {"response", "event", "snapshot"}, NEW seq \in Nat,
         NEW request_seq \in Nat, NEW origin \in Nat, NEW body \in Specs \cup {NoArg}
  PROVE  /\ Outbound(type, seq, request_seq, origin, TRUE, body) \in Outbounds
         /\ Outbound(type, seq, request_seq, origin, TRUE, body).type = type
         /\ Outbound(type, seq, request_seq, origin, TRUE, body).origin = origin
         /\ Outbound(type, seq, request_seq, origin, TRUE, body).request_seq = request_seq
BY DEF Outbound, Outbounds

LEMMA AnswerSnapshotTables ==
  ASSUME TableInv, NEW id \in ClientIds, NEW request \in Requests(id),
         ClientSend(id, request), AnswerSnapshot(id, request)
  PROVE  TableInv'
<1> DEFINE m == Outbound("snapshot", display_seq', request.seq, 0, TRUE, cache.breakpoints)
<1>1. TypeOK /\ Bookkeeping /\ InFlightExact
  BY DEF TableInv
<1>2. /\ loop = "running" /\ id \in clients
      /\ client_seq' = [client_seq EXCEPT ![id] = request.seq]
      /\ next_client_id' = next_client_id /\ role' = role /\ joined' = joined
      /\ clients' = clients /\ receivers' = receivers
      /\ to_upstream_open' = to_upstream_open /\ emitted' = emitted
  BY DEF ClientSend, membership
<1>3. /\ display_seq' = display_seq + 1
      /\ backend_seq' = backend_seq /\ cache' = cache /\ requests' = requests
      /\ forward' = forward /\ reverse' = reverse /\ secondary_pending' = secondary_pending
      /\ Deliver({id}, m)
  BY DEF AnswerSnapshot, NextDisplaySeq, tables
<1>4. display_seq' \in Nat
  BY <1>1, <1>3 DEF TypeOK
<1>5. request.seq \in ClientSeqs /\ request.seq \in Nat /\ request.seq > client_seq[id]
  BY RequestsType, BoundsAssumption
<1>6. cache.breakpoints \in Specs \cup {NoArg}
  BY <1>1 DEF TypeOK
<1>7. m \in Outbounds
  BY <1>4, <1>5, <1>6, OutboundType
<1> HIDE DEF m
<1>8. loop' \in {loop, "failed"} /\ inbox' \in [ClientIds -> Seq(Outbounds)]
  BY <1>1, <1>3, <1>7, DeliverLemma
<1>9. client_seq' \in [ClientIds -> ClientSeqs \cup {0}]
  BY <1>1, <1>2, <1>5 DEF TypeOK
<1>10. TypeOK'
  <2>1. loop' \in {"running", "ended", "failed"}
    BY <1>2, <1>8
  <2>2. QED
    BY <1>1, <1>2, <1>3, <1>4, <1>8, <1>9, <2>1 DEF TypeOK
<1>11. Bookkeeping'
  <2>1. \A b \in 1..Len(requests) : requests[b].seq <= client_seq'[requests[b].from]
    <3>1. TAKE b \in 1..Len(requests)
    <3>2. requests[b] \in RequestRecords
      BY <1>1, TypeFacts, ElementOfSeq
    <3>3. requests[b].from \in ClientIds /\ requests[b].seq \in Nat
      BY <3>2, BoundsAssumption DEF RequestRecords
    <3>4. requests[b].seq <= client_seq[requests[b].from]
      BY <1>1 DEF Bookkeeping
    <3>5. client_seq \in [ClientIds -> ClientSeqs \cup {0}] /\ ClientSeqs \cup {0} \subseteq Nat
      BY <1>1, BoundsAssumption, SMTT(40) DEF TypeOK
    <3>6. client_seq \in [ClientIds -> Nat]
      BY <3>5
    <3>7. QED
      BY <1>2, <1>5, <3>3, <3>4, <3>6
  <2>2. QED
    BY <1>1, <1>2, <1>3, <1>8, <2>1 DEF Bookkeeping
<1>12. InFlight' = InFlight
  BY <1>2, <1>3 DEF InFlight
<1>13. InFlightExact'
  BY <1>1, <1>2, <1>3, <1>12 DEF InFlightExact
<1>14. QED
  BY <1>10, <1>11, <1>13 DEF TableInv

LEMMA ClientSendTables ==
  ASSUME TableInv, NEW id \in ClientIds, NEW request \in Requests(id), ClientSend(id, request)
  PROVE  TableInv'
<1>1. CASE AnswerSnapshot(id, request)
  BY <1>1, AnswerSnapshotTables
<1>2. CASE ForwardEditor(id, request)
  BY <1>2, ForwardEditorTables
<1>3. CASE ForwardSecondary(id, request)
  BY <1>3, ForwardSecondaryTables
<1>4. QED
  BY <1>1, <1>2, <1>3 DEF ClientSend

-----------------------------------------------------------------------------
(* Messages of the adapter *)

\* The adapter's message is appended to the history.
LEMMA AppendEmission ==
  ASSUME emitted \in Seq(EmissionRecords), NEW e \in EmissionRecords,
         emitted' = Append(emitted, e)
  PROVE  /\ emitted' \in Seq(EmissionRecords)
         /\ Len(emitted) \in Nat /\ Len(emitted') = Len(emitted) + 1
         /\ emitted'[Len(emitted')] = e
         /\ \A o \in 1..Len(emitted) : emitted'[o] = emitted[o]
BY AppendProperties

LEMMA EmissionType ==
  ASSUME NEW type \in {"response", "event"}, NEW b \in Nat,
         NEW name \in Commands \cup Events \cup {"disconnect"},
         NEW success \in BOOLEAN, NEW own \in BOOLEAN
  PROVE  /\ Emission(type, b, name, success, own) \in EmissionRecords
         /\ Emission(type, b, name, success, own).type = type
         /\ Emission(type, b, name, success, own).request_seq = b
BY DEF Emission, EmissionRecords

LEMMA ObserveResponseType ==
  ASSUME cache \in CacheRecords, NEW origin \in Nat, NEW b, NEW command, NEW success \in BOOLEAN
  PROVE  ObserveResponse(origin, b, command, success) \in CacheRecords
<1>1. Without(cache.pending, b) \in Maps(1..MaxRequests, Specs)
  BY WithoutType DEF CacheRecords
<1>2. b \in DOMAIN cache.pending => cache.pending[b] \in Specs
  BY MapsDef DEF CacheRecords
<1>3. QED
  BY <1>1, <1>2 DEF ObserveResponse, CacheRecords

\* The conjuncts of InFlightExact, with the requests in flight as a parameter.
TablesFor(inflight) ==
  /\ DOMAIN reverse \cup DOMAIN secondary_pending = inflight
  /\ \A b \in DOMAIN reverse :
       /\ role[requests[b].from] = "Editor"
       /\ reverse[b] = requests[b].seq
       /\ reverse[b] \in DOMAIN forward /\ forward[reverse[b]] = b
  /\ \A b \in DOMAIN secondary_pending :
       /\ role[requests[b].from] # "Editor"
       /\ secondary_pending[b] = <<requests[b].from, requests[b].seq>>
  /\ \A s \in DOMAIN forward : forward[s] \in DOMAIN reverse /\ reverse[forward[s]] = s

\* What routing the response to b has to achieve.
Routed(b, m) ==
  /\ loop' \in {loop, "failed"} /\ display_seq' \in Nat
  /\ inbox' \in [ClientIds -> Seq(Outbounds)]
  /\ \A id \in ClientIds : \A k \in 1..Len(inbox'[id]) :
       \/ k \in 1..Len(inbox[id]) /\ inbox'[id][k] = inbox[id][k]
       \/ /\ b \in 1..Len(requests) /\ requests[b].from = id
          /\ inbox'[id][k] = m /\ m.request_seq = requests[b].seq

\* A response to the editor's request b is delivered to the one Editor there is.
LEMMA RouteToEditor ==
  ASSUME TableInv, NEW b \in InFlight, NEW m \in Outbounds, TablesFor(InFlight),
         b \in DOMAIN reverse, m.request_seq = ClientNumber(b),
         display_seq' = NextDisplaySeq, Deliver(EditorTargets, m)
  PROVE  Routed(b, m)
<1>1. TypeOK /\ Bookkeeping
  BY DEF TableInv
<1>2. display_seq' \in Nat
  BY <1>1 DEF NextDisplaySeq, TypeOK
<1>3. /\ loop' \in {loop, "failed"} /\ inbox' \in [ClientIds -> Seq(Outbounds)]
      /\ \A id \in ClientIds : \A k \in 1..Len(inbox'[id]) :
           \/ k \in 1..Len(inbox[id]) /\ inbox'[id][k] = inbox[id][k]
           \/ id \in EditorTargets /\ inbox'[id][k] = m
  BY <1>1, DeliverLemma
<1>4. /\ role[requests[b].from] = "Editor" /\ b \in 1..Len(requests)
      /\ m.request_seq = requests[b].seq
  BY DEF TablesFor, ClientNumber, InFlight
<1>5. \A id \in EditorTargets : id = requests[b].from
  BY <1>1, <1>4 DEF EditorTargets, TypeOK, Bookkeeping
<1>6. QED
  BY <1>2, <1>3, <1>4, <1>5 DEF Routed

\* A response to a Control client's request b is delivered to that client.
LEMMA RouteToSecondary ==
  ASSUME TableInv, NEW b \in InFlight, NEW m \in Outbounds, TablesFor(InFlight),
         b \notin DOMAIN reverse, m.request_seq = ClientNumber(b),
         display_seq' = display_seq, Deliver({secondary_pending[b][1]}, m)
  PROVE  Routed(b, m)
<1>1. TypeOK
  BY DEF TableInv
<1>2. display_seq' \in Nat
  BY <1>1 DEF TypeOK
<1>3. /\ loop' \in {loop, "failed"} /\ inbox' \in [ClientIds -> Seq(Outbounds)]
      /\ \A id \in ClientIds : \A k \in 1..Len(inbox'[id]) :
           \/ k \in 1..Len(inbox[id]) /\ inbox'[id][k] = inbox[id][k]
           \/ id \in {secondary_pending[b][1]} /\ inbox'[id][k] = m
  BY <1>1, DeliverLemma
<1>4. /\ secondary_pending[b] = <<requests[b].from, requests[b].seq>>
      /\ b \in 1..Len(requests)
  BY DEF TablesFor, InFlight
<1>5. m.request_seq = requests[b].seq /\ secondary_pending[b][1] = requests[b].from
  BY <1>4 DEF ClientNumber
<1>6. QED
  BY <1>2, <1>3, <1>4, <1>5 DEF Routed

\* Unmapping the editor's request b keeps the other requests where they were.
LEMMA UnmapTables ==
  ASSUME TypeOK, NEW b \in DOMAIN reverse, NEW others, TablesFor(others \cup {b}),
         b \notin others, Unmap(b), secondary_pending' = secondary_pending,
         role' = role, requests' = requests
  PROVE  /\ forward' \in Maps(ClientSeqs, 1..MaxRequests)
         /\ reverse' \in Maps(1..MaxRequests, ClientSeqs)
         /\ TablesFor(others)'
<1>1. forward \in Maps(ClientSeqs, 1..MaxRequests) /\ reverse \in Maps(1..MaxRequests, ClientSeqs)
  BY DEF TypeOK
<1>2. forward' = Without(forward, reverse[b]) /\ reverse' = Without(reverse, b)
  BY DEF Unmap
<1>3. /\ DOMAIN forward' = DOMAIN forward \ {reverse[b]}
      /\ \A s \in DOMAIN forward' : forward'[s] = forward[s]
      /\ DOMAIN reverse' = DOMAIN reverse \ {b}
      /\ \A q \in DOMAIN reverse' : reverse'[q] = reverse[q]
  BY <1>2 DEF Without, Restrict
<1>4. /\ forward' \in Maps(ClientSeqs, 1..MaxRequests)
      /\ reverse' \in Maps(1..MaxRequests, ClientSeqs)
  BY <1>1, <1>2, WithoutType
<1>5. b \notin DOMAIN secondary_pending
  BY DEF TablesFor
<1>6. TablesFor(others)'
  BY <1>3, <1>5 DEF TablesFor
<1>7. QED
  BY <1>4, <1>6

\* Removing a Control client's request b keeps the other requests where they were.
LEMMA RemoveSecondaryTables ==
  ASSUME TypeOK, NEW b, NEW others, TablesFor(others \cup {b}), b \notin others,
         b \notin DOMAIN reverse,
         secondary_pending' = Without(secondary_pending, b),
         forward' = forward, reverse' = reverse, role' = role, requests' = requests
  PROVE  /\ secondary_pending' \in Maps(1..MaxRequests, ClientIds \X ClientSeqs)
         /\ TablesFor(others)'
<1>1. secondary_pending \in Maps(1..MaxRequests, ClientIds \X ClientSeqs)
  BY DEF TypeOK
<1>2. /\ DOMAIN secondary_pending' = DOMAIN secondary_pending \ {b}
      /\ \A q \in DOMAIN secondary_pending' : secondary_pending'[q] = secondary_pending[q]
  BY DEF Without, Restrict
<1>3. TablesFor(others)'
  BY <1>2 DEF TablesFor
<1>4. QED
  BY <1>1, <1>3, WithoutType

\* The message a routed response becomes.
ResponseTo(b) == Outbound("response", IF b \in DOMAIN reverse THEN display_seq' ELSE Len(emitted'),
                          ClientNumber(b), Len(emitted'), TRUE, NoArg)

\* Route, in each of its three cases.
LEMMA RouteLemma ==
  ASSUME TableInv, loop = "running", NEW b \in Nat, Route(b), Len(emitted') \in Nat,
         role' = role, requests' = requests, NEW others, others = InFlight \ {b}
  PROVE  /\ forward' \in Maps(ClientSeqs, 1..MaxRequests)
         /\ reverse' \in Maps(1..MaxRequests, ClientSeqs)
         /\ secondary_pending' \in Maps(1..MaxRequests, ClientIds \X ClientSeqs)
         /\ TablesFor(others)'
         /\ \E m : Routed(b, m) /\ m.origin = Len(emitted')
<1>1. TypeOK /\ Bookkeeping /\ TablesFor(InFlight)
  BY DEF TableInv, InFlightExact, TablesFor
<1>2. /\ forward \in Maps(ClientSeqs, 1..MaxRequests)
      /\ reverse \in Maps(1..MaxRequests, ClientSeqs)
      /\ secondary_pending \in Maps(1..MaxRequests, ClientIds \X ClientSeqs)
      /\ display_seq \in Nat /\ inbox \in [ClientIds -> Seq(Outbounds)]
  BY <1>1 DEF TypeOK
<1>3. ASSUME b \in InFlight
      PROVE  ClientNumber(b) \in Nat
  <2>1. b \in DOMAIN reverse \cup DOMAIN secondary_pending
    BY <1>1, <1>3 DEF TablesFor
  <2>2. b \in DOMAIN reverse => reverse[b] \in ClientSeqs
    BY <1>2, MapsDef
  <2>3. b \in DOMAIN secondary_pending => secondary_pending[b] \in ClientIds \X ClientSeqs
    BY <1>2, MapsDef
  <2>4. QED
    BY <2>1, <2>2, <2>3, BoundsAssumption DEF ClientNumber
<1>4. ASSUME b \in InFlight, display_seq' \in Nat
      PROVE  /\ ResponseTo(b) \in Outbounds
             /\ ResponseTo(b).request_seq = ClientNumber(b)
             /\ ResponseTo(b).origin = Len(emitted')
  BY <1>3, <1>4 DEF ResponseTo, Outbound, Outbounds
<1>5. CASE b \in DOMAIN reverse
  <2>1. /\ Unmap(b) /\ display_seq' = NextDisplaySeq
        /\ Deliver(EditorTargets, ResponseTo(b))
        /\ secondary_pending' = secondary_pending
    BY <1>5 DEF Route, ResponseTo
  <2>2. b \in InFlight
    BY <1>1, <1>5 DEF TablesFor
  <2>3. display_seq' \in Nat
    BY <1>2, <2>1 DEF NextDisplaySeq
  <2>4. Routed(b, ResponseTo(b))
    BY <1>1, <1>4, <1>5, <2>1, <2>2, <2>3, RouteToEditor
  <2>5. InFlight = others \cup {b} /\ b \notin others
    BY <2>2
  <2>6. TablesFor(others \cup {b})
    BY <1>1, <2>5
  <2>7. /\ forward' \in Maps(ClientSeqs, 1..MaxRequests)
        /\ reverse' \in Maps(1..MaxRequests, ClientSeqs)
        /\ TablesFor(others)'
    BY <1>1, <1>5, <2>1, <2>5, <2>6, UnmapTables
  <2>8. QED
    BY <1>2, <1>4, <2>1, <2>2, <2>3, <2>4, <2>7
<1>6. CASE b \notin DOMAIN reverse /\ b \in DOMAIN secondary_pending
  <2>1. /\ secondary_pending' = Without(secondary_pending, b)
        /\ Deliver({secondary_pending[b][1]}, ResponseTo(b))
        /\ forward' = forward /\ reverse' = reverse /\ display_seq' = display_seq
    BY <1>6 DEF Route, ResponseTo
  <2>2. b \in InFlight
    BY <1>1, <1>6 DEF TablesFor
  <2>3. display_seq' \in Nat
    BY <1>2, <2>1
  <2>4. Routed(b, ResponseTo(b))
    BY <1>1, <1>4, <1>6, <2>1, <2>2, <2>3, RouteToSecondary
  <2>5. InFlight = others \cup {b} /\ b \notin others
    BY <2>2
  <2>6. TablesFor(others \cup {b})
    BY <1>1, <2>5
  <2>7. /\ secondary_pending' \in Maps(1..MaxRequests, ClientIds \X ClientSeqs)
        /\ TablesFor(others)'
    BY <1>1, <1>6, <2>1, <2>5, <2>6, RemoveSecondaryTables
  <2>8. QED
    BY <1>2, <1>4, <2>1, <2>2, <2>3, <2>4, <2>7
<1>7. CASE b \notin DOMAIN reverse \cup DOMAIN secondary_pending
  <2>1. /\ loop' = loop /\ inbox' = inbox /\ display_seq' = display_seq
        /\ forward' = forward /\ reverse' = reverse /\ secondary_pending' = secondary_pending
    BY <1>7 DEF Route, tables
  <2>2. InFlight = others
    BY <1>1, <1>7 DEF TablesFor
  <2>3. TablesFor(others)'
    BY <1>1, <2>1, <2>2 DEF TablesFor
  <2>4. \A m : Routed(b, m)
    BY <1>2, <2>1 DEF Routed
  <2>5. [origin |-> Len(emitted')].origin = Len(emitted')
    OBVIOUS
  <2>6. QED
    BY <1>2, <2>1, <2>3, <2>4, <2>5
<1>8. QED
  BY <1>5, <1>6, <1>7

\* Handling a response to b ends b's flight and nobody else's.
LEMMA ResponseTables ==
  ASSUME TableInv, NEW b \in Nat, NEW command \in Commands \cup {"disconnect"},
         NEW success \in BOOLEAN, NEW own \in BOOLEAN,
         to_upstream_open => b \in 1..Len(requests),
         HandleResponse(b, command, success, own)
  PROVE  TableInv'
<1> DEFINE e == Emission("response", b, command, success, own)
<1>1. TypeOK /\ Bookkeeping
  BY DEF TableInv
<1>2. /\ loop = "running" /\ Len(emitted) < MaxUpstream /\ Route(b)
      /\ emitted' = Append(emitted, e)
      /\ cache' = ObserveResponse(Len(emitted'), b, command, success)
      /\ next_client_id' = next_client_id /\ role' = role /\ joined' = joined
      /\ clients' = clients /\ receivers' = receivers /\ backend_seq' = backend_seq
      /\ to_upstream_open' = to_upstream_open /\ client_seq' = client_seq
      /\ requests' = requests
  BY DEF HandleResponse, membership
<1>3. e \in EmissionRecords /\ e.type = "response" /\ e.request_seq = b
  BY EmissionType
<1> HIDE DEF e
<1>4. /\ emitted' \in Seq(EmissionRecords)
      /\ Len(emitted) \in Nat /\ Len(emitted') = Len(emitted) + 1
      /\ emitted'[Len(emitted')] = e
      /\ \A o \in 1..Len(emitted) : emitted'[o] = emitted[o]
  BY <1>1, <1>2, <1>3, TypeFacts, AppendEmission
<1>5. Len(emitted') \in Nat /\ 1..Len(emitted') = 1..Len(emitted) \cup {Len(emitted')}
  BY <1>4
<1>6. cache' \in CacheRecords
  BY <1>1, <1>2, <1>5, TypeFacts, ObserveResponseType
<1>7. PICK others : others = InFlight \ {b}
  OBVIOUS
<1>8. /\ forward' \in Maps(ClientSeqs, 1..MaxRequests)
      /\ reverse' \in Maps(1..MaxRequests, ClientSeqs)
      /\ secondary_pending' \in Maps(1..MaxRequests, ClientIds \X ClientSeqs)
      /\ TablesFor(others)'
      /\ \E m : Routed(b, m)
  BY <1>2, <1>5, <1>7, RouteLemma
<1>9. /\ loop' \in {loop, "failed"} /\ display_seq' \in Nat
      /\ inbox' \in [ClientIds -> Seq(Outbounds)]
  BY <1>8 DEF Routed
<1>10. InFlight' = others
  <2>1. \A o \in 1..Len(emitted) : emitted'[o] = emitted[o]
    BY <1>4
  <2>2. \A q \in 1..Len(requests) :
          (\A o \in 1..Len(emitted') :
             emitted'[o].type = "response" => emitted'[o].request_seq # q)
          <=> q \in InFlight /\ q # b
    BY <1>3, <1>4, <1>5, <2>1 DEF InFlight
  <2>3. InFlight' = {q \in 1..Len(requests) :
                       \A o \in 1..Len(emitted') :
                         emitted'[o].type = "response" => emitted'[o].request_seq # q}
    BY <1>2 DEF InFlight
  <2>4. QED
    BY <1>7, <2>2, <2>3 DEF InFlight
<1>11. TypeOK'
  <2>1. loop' \in {"running", "ended", "failed"}
    BY <1>2, <1>9
  <2>2. QED
    BY <1>1, <1>2, <1>4, <1>6, <1>8, <1>9, <2>1 DEF TypeOK, CacheRecords, EmissionRecords
<1>12. Bookkeeping'
  <2>1. Len(emitted') <= MaxUpstream
    BY <1>2, <1>4, BoundsAssumption
  <2>2. to_upstream_open =>
          \A o \in 1..Len(emitted') :
            emitted'[o].type = "response" => emitted'[o].request_seq \in 1..Len(requests)
    BY <1>1, <1>3, <1>4, <1>5 DEF Bookkeeping
  <2>3. QED
    BY <1>1, <1>2, <1>9, <2>1, <2>2 DEF Bookkeeping
<1>13. InFlightExact'
  BY <1>8, <1>10 DEF InFlightExact, TablesFor
<1>14. QED
  BY <1>11, <1>12, <1>13 DEF TableInv

LEMMA UpstreamResponseTables ==
  ASSUME TableInv, NEW b \in 1..Len(requests), NEW success \in Outcomes,
         UpstreamResponse(b, success)
  PROVE  TableInv'
<1>1. TypeOK
  BY DEF TableInv
<1>2. requests[b].command \in Commands
  <2>1. requests[b] \in RequestRecords
    BY <1>1, TypeFacts, ElementOfSeq
  <2>2. QED
    BY <2>1 DEF RequestRecords
<1>3. b \in Nat /\ success \in BOOLEAN
  BY BoundsAssumption
<1>4. HandleResponse(b, requests[b].command, success, FALSE)
  BY DEF UpstreamResponse
<1>5. QED
  BY <1>2, <1>3, <1>4, ResponseTables

LEMMA DisconnectAnsweredTables ==
  ASSUME TableInv, NEW success \in Outcomes, DisconnectAnswered(success)
  PROVE  TableInv'
<1>1. HandleResponse(1, "disconnect", success, TRUE) /\ ~to_upstream_open
  BY DEF DisconnectAnswered
<1>2. success \in BOOLEAN
  BY BoundsAssumption
<1>3. QED
  BY <1>1, <1>2, ResponseTables

\* An event is delivered and cached; no request is concerned.
LEMMA UpstreamEventTables ==
  ASSUME TableInv, NEW event \in Events, UpstreamEvent(event)
  PROVE  TableInv'
<1> DEFINE e == Emission("event", 0, event, TRUE, FALSE)
           m == Outbound("event", display_seq', 0, Len(emitted'), TRUE, NoArg)
<1>1. TypeOK /\ Bookkeeping /\ InFlightExact
  BY DEF TableInv
<1>2. /\ loop = "running" /\ Len(emitted) < MaxUpstream
      /\ emitted' = Append(emitted, e)
      /\ cache' = ObserveEvent(Len(emitted'), event)
      /\ display_seq' = display_seq + 1
      /\ Deliver(EventTargets, m)
      /\ next_client_id' = next_client_id /\ role' = role /\ joined' = joined
      /\ clients' = clients /\ receivers' = receivers /\ backend_seq' = backend_seq
      /\ forward' = forward /\ reverse' = reverse /\ secondary_pending' = secondary_pending
      /\ to_upstream_open' = to_upstream_open /\ client_seq' = client_seq
      /\ requests' = requests
  BY DEF UpstreamEvent, NextDisplaySeq, membership, tables
<1>3. e \in EmissionRecords /\ e.type = "event"
  BY DEF Emission, EmissionRecords
<1> HIDE DEF e
<1>4. /\ emitted' \in Seq(EmissionRecords)
      /\ Len(emitted) \in Nat /\ Len(emitted') = Len(emitted) + 1
      /\ emitted'[Len(emitted')] = e
      /\ \A o \in 1..Len(emitted) : emitted'[o] = emitted[o]
  BY <1>1, <1>2, <1>3, TypeFacts, AppendEmission
<1>5. /\ Len(emitted') \in Nat /\ 1..Len(emitted') = 1..Len(emitted) \cup {Len(emitted')}
      /\ display_seq' \in Nat
  BY <1>1, <1>2, <1>4 DEF TypeOK
<1>6. m \in Outbounds
  BY <1>5 DEF Outbound, Outbounds
<1> HIDE DEF m
<1>7. loop' \in {loop, "failed"} /\ inbox' \in [ClientIds -> Seq(Outbounds)]
  BY <1>1, <1>2, <1>6, DeliverLemma
<1>8. cache' \in CacheRecords
  <2>1. cache \in CacheRecords
    BY <1>1, TypeFacts
  <2>2. QED
    BY <1>2, <1>5, <2>1 DEF ObserveEvent, CacheRecords
<1>9. TypeOK'
  <2>1. loop' \in {"running", "ended", "failed"}
    BY <1>2, <1>7
  <2>2. QED
    BY <1>1, <1>2, <1>4, <1>5, <1>7, <1>8, <2>1 DEF TypeOK, CacheRecords, EmissionRecords
<1>10. Bookkeeping'
  <2>1. Len(emitted') <= MaxUpstream
    BY <1>2, <1>4, BoundsAssumption
  <2>2. to_upstream_open =>
          \A o \in 1..Len(emitted') :
            emitted'[o].type = "response" => emitted'[o].request_seq \in 1..Len(requests)
    BY <1>1, <1>3, <1>4, <1>5 DEF Bookkeeping
  <2>3. QED
    BY <1>1, <1>2, <1>7, <2>1, <2>2 DEF Bookkeeping
<1>11. InFlight' = InFlight
  BY <1>2, <1>3, <1>4, <1>5 DEF InFlight
<1>12. InFlightExact'
  BY <1>1, <1>2, <1>11 DEF InFlightExact
<1>13. QED
  BY <1>9, <1>10, <1>12 DEF TableInv

-----------------------------------------------------------------------------
(* The invariant holds *)

LEMMA NextTables == TableInv /\ [Next]_vars => TableInv'
<1> SUFFICES ASSUME TableInv, [Next]_vars PROVE TableInv'
  OBVIOUS
<1>1. CASE \E r \in Roles : Attach(r)
  BY <1>1, AttachTables
<1>2. CASE \E id \in ClientIds : DropReceiver(id) \/ Detach(id)
  BY <1>2, DropReceiverTables, DetachTables
<1>3. CASE \E id \in ClientIds : \E request \in Requests(id) : ClientSend(id, request)
  BY <1>3, ClientSendTables
<1>4. CASE \E b \in 1..Len(requests), success \in Outcomes : UpstreamResponse(b, success)
  BY <1>4, UpstreamResponseTables
<1>5. CASE \E success \in Outcomes : DisconnectAnswered(success)
  BY <1>5, DisconnectAnsweredTables
<1>6. CASE \E event \in Events : UpstreamEvent(event)
  BY <1>6, UpstreamEventTables
<1>7. CASE CloseToUpstream
  BY <1>7, CloseToUpstreamTables
<1>8. CASE UpstreamEof
  BY <1>8, UpstreamEofTables
<1>9. CASE UNCHANGED vars
  <2>1. /\ loop' = loop /\ clients' = clients /\ receivers' = receivers
        /\ to_upstream_open' = to_upstream_open
        /\ UNCHANGED <<next_client_id, role, joined, backend_seq, display_seq, forward,
                       reverse, secondary_pending, cache, inbox, client_seq, requests, emitted>>
    BY <1>9 DEF vars, membership, tables
  <2>2. QED
    BY <2>1, QuietTables
<1>10. QED
  BY <1>1, <1>2, <1>3, <1>4, <1>5, <1>6, <1>7, <1>8, <1>9 DEF Next

\* The bookkeeping, the types and the tables are right in every reachable state.
THEOREM TablesInvariant == Spec => []TableInv
BY InitTables, NextTables, PTL DEF Spec

\* Type correctness of the loop, whatever the bounds and the messages.
THEOREM TypeCorrect == Spec => []TypeOK
<1>1. TableInv => TypeOK
  BY DEF TableInv
<1>2. QED
  BY <1>1, TablesInvariant, PTL

\* Every request in flight is in exactly one table, and only those are: no response is
\* ever misrouted, dropped or counted twice because of a stale or a missing entry
\* (handle_client_message, handle_upstream_message, MessageRemapper).
THEOREM TablesExact == Spec => []TablesConsistent
<1>1. TableInv => TablesConsistent
  BY DEF TableInv, TablesConsistent
<1>2. QED
  BY <1>1, TablesInvariant, PTL

-----------------------------------------------------------------------------
(* Responses are routed to their requesters *)

\* The message m answers a request of client id: RoutedToRequester for one message, and
\* that the histories it is read from go far enough.
Answers(id, m) ==
  /\ m.origin \in 1..Len(emitted)
  /\ emitted[m.origin].request_seq \in 1..Len(requests)
  /\ requests[emitted[m.origin].request_seq].from = id
  /\ requests[emitted[m.origin].request_seq].seq = m.request_seq

RoutedInv ==
  \A id \in ClientIds : \A k \in 1..Len(inbox[id]) :
    inbox[id][k].type = "response" /\ inbox[id][k].live => Answers(id, inbox[id][k])

\* The histories only grow.
Extends ==
  /\ Len(requests') >= Len(requests) /\ Len(emitted') >= Len(emitted)
  /\ \A b \in 1..Len(requests) : requests'[b] = requests[b]
  /\ \A o \in 1..Len(emitted) : emitted'[o] = emitted[o]

\* Messages that were routed well stay so; a step has to show it for the new ones.
LEMMA RoutedExtend ==
  ASSUME TypeOK, RoutedInv, Extends, Len(requests') \in Nat, Len(emitted') \in Nat,
         \A id \in ClientIds : \A k \in 1..Len(inbox'[id]) :
           \/ k \in 1..Len(inbox[id]) /\ inbox'[id][k] = inbox[id][k]
           \/ ~(inbox'[id][k].type = "response" /\ inbox'[id][k].live)
           \/ /\ inbox'[id][k].origin \in 1..Len(emitted')
              /\ emitted'[inbox'[id][k].origin].request_seq \in 1..Len(requests')
              /\ requests'[emitted'[inbox'[id][k].origin].request_seq].from = id
              /\ requests'[emitted'[inbox'[id][k].origin].request_seq].seq
                   = inbox'[id][k].request_seq
  PROVE  RoutedInv'
<1>1. Len(requests) \in Nat /\ Len(emitted) \in Nat
  BY TypeFacts
<1>2. 1..Len(requests) \subseteq 1..Len(requests') /\ 1..Len(emitted) \subseteq 1..Len(emitted')
  BY <1>1 DEF Extends
<1>3. SUFFICES ASSUME NEW id \in ClientIds, NEW k \in 1..Len(inbox'[id]),
                      inbox'[id][k].type = "response" /\ inbox'[id][k].live
               PROVE  Answers(id, inbox[id][k])'
  BY DEF RoutedInv
<1>4. CASE k \in 1..Len(inbox[id]) /\ inbox'[id][k] = inbox[id][k]
  <2>1. Answers(id, inbox[id][k])
    BY <1>3, <1>4 DEF RoutedInv
  <2>2. PICK m : m = inbox[id][k]
    OBVIOUS
  <2>3. /\ m.origin \in 1..Len(emitted)
        /\ emitted[m.origin].request_seq \in 1..Len(requests)
        /\ requests[emitted[m.origin].request_seq].from = id
        /\ requests[emitted[m.origin].request_seq].seq = m.request_seq
    BY <2>1, <2>2 DEF Answers
  <2>4. PICK b : b = emitted[m.origin].request_seq
    OBVIOUS
  <2>5. emitted'[m.origin] = emitted[m.origin] /\ requests'[b] = requests[b]
    BY <2>3, <2>4 DEF Extends
  <2>6. m.origin \in 1..Len(emitted') /\ b \in 1..Len(requests')
    BY <1>2, <2>3, <2>4
  <2>7. inbox'[id][k] = m
    BY <1>4, <2>2
  <2>8. QED
    BY <2>3, <2>4, <2>5, <2>6, <2>7 DEF Answers
<1>5. CASE ~(k \in 1..Len(inbox[id]) /\ inbox'[id][k] = inbox[id][k])
  BY <1>3, <1>5 DEF Answers
<1>6. QED
  BY <1>4, <1>5

\* A step that touches no inbox and no history.
LEMMA RoutedQuiet ==
  ASSUME TypeOK, RoutedInv, inbox' = inbox, requests' = requests, emitted' = emitted
  PROVE  RoutedInv'
BY DEF RoutedInv, Answers

LEMMA AttachRouted ==
  ASSUME TableInv, RoutedInv, NEW r \in Roles, Attach(r) PROVE RoutedInv'
<1> DEFINE new == next_client_id + 1
<1>1. TypeOK
  BY DEF TableInv
<1>2. new \in ClientIds
  BY <1>1, BoundsAssumption DEF Attach, TypeOK, ClientIds
<1>3. inbox' = [inbox EXCEPT ![new] = Replay] /\ requests' = requests /\ emitted' = emitted
  BY DEF Attach
<1>4. inbox \in [ClientIds -> Seq(Outbounds)] /\ inbox'[new] = Replay
  BY <1>1, <1>2, <1>3 DEF TypeOK
<1>5. \A id \in ClientIds : \A k \in 1..Len(inbox'[id]) :
        \/ inbox'[id] = inbox[id]
        \/ ~inbox'[id][k].live
  BY <1>1, <1>3, <1>4, ReplayType
<1>6. Extends
  BY <1>1, <1>3, TypeFacts DEF Extends
<1>7. QED
  BY <1>1, <1>3, <1>5, <1>6, TypeFacts, RoutedExtend

LEMMA ClientSendRouted ==
  ASSUME TableInv, RoutedInv, NEW id \in ClientIds, NEW request \in Requests(id),
         ClientSend(id, request)
  PROVE  RoutedInv'
<1>1. TypeOK /\ emitted' = emitted /\ Len(requests) \in Nat /\ Len(emitted) \in Nat
  BY TypeFacts DEF TableInv, ClientSend
<1>2. CASE AnswerSnapshot(id, request)
  <2> DEFINE m == Outbound("snapshot", display_seq', request.seq, 0, TRUE, cache.breakpoints)
  <2>1. requests' = requests /\ Deliver({id}, m)
    BY <1>2 DEF AnswerSnapshot
  <2>2. display_seq' \in Nat /\ cache.breakpoints \in Specs \cup {NoArg} /\ request.seq \in Nat
    <3>1. display_seq \in Nat /\ cache.breakpoints \in Specs \cup {NoArg}
      BY <1>1 DEF TypeOK
    <3>2. display_seq' = display_seq + 1
      BY <1>2 DEF AnswerSnapshot, NextDisplaySeq
    <3>3. request.seq \in Nat
      BY RequestsType, BoundsAssumption
    <3>4. QED
      BY <3>1, <3>2, <3>3
  <2>3. m \in Outbounds /\ m.type = "snapshot"
    BY <2>2 DEF Outbound, Outbounds
  <2> HIDE DEF m
  <2>4. \A c \in ClientIds : \A k \in 1..Len(inbox'[c]) :
          \/ k \in 1..Len(inbox[c]) /\ inbox'[c][k] = inbox[c][k]
          \/ inbox'[c][k] = m
    BY <1>1, <2>1, <2>3, DeliverLemma
  <2>5. Extends
    BY <1>1, <2>1 DEF Extends
  <2>6. QED
    BY <1>1, <2>1, <2>3, <2>4, <2>5, RoutedExtend
<1>3. ASSUME NEW arg \in Nat \cup Specs \cup {NoArg}, SendUpstream(id, request, arg),
             inbox' = inbox
      PROVE  RoutedInv'
  <2>1. /\ Len(requests') \in Nat /\ Len(requests') >= Len(requests)
        /\ \A b \in 1..Len(requests) : requests'[b] = requests[b]
    BY <1>1, <1>3, SendUpstreamLemma
  <2>2. Extends
    BY <1>1, <2>1 DEF Extends
  <2>3. QED
    BY <1>1, <1>3, <2>1, <2>2, RoutedExtend
<1>4. CASE ForwardEditor(id, request)
  <2>1. TranslateCancel(request) \in Nat \cup Specs \cup {NoArg}
    <3>1. forward \in Maps(ClientSeqs, 1..MaxRequests)
      BY <1>1 DEF TypeOK
    <3>2. forward \in [DOMAIN forward -> 1..MaxRequests]
      BY <3>1, MapsDef
    <3>3. \A s \in DOMAIN forward : forward[s] \in Nat
      BY <3>2, BoundsAssumption
    <3>4. request.arg \in Nat \cup Specs \cup {NoArg}
      BY RequestsType, BoundsAssumption
    <3>5. QED
      BY <3>3, <3>4 DEF TranslateCancel
  <2>2. QED
    BY <1>3, <1>4, <2>1 DEF ForwardEditor
<1>5. CASE ForwardSecondary(id, request)
  <2>1. request.arg \in Nat \cup Specs \cup {NoArg}
    BY RequestsType, BoundsAssumption
  <2>2. QED
    BY <1>3, <1>5, <2>1 DEF ForwardSecondary
<1>6. QED
  BY <1>2, <1>4, <1>5 DEF ClientSend

LEMMA ResponseRouted ==
  ASSUME TableInv, RoutedInv, NEW b \in Nat, NEW command \in Commands \cup {"disconnect"},
         NEW success \in BOOLEAN, NEW own \in BOOLEAN,
         HandleResponse(b, command, success, own)
  PROVE  RoutedInv'
<1> DEFINE e == Emission("response", b, command, success, own)
<1>1. TypeOK /\ Len(requests) \in Nat /\ emitted \in Seq(EmissionRecords)
  BY TypeFacts DEF TableInv
<1>2. /\ loop = "running" /\ Route(b) /\ emitted' = Append(emitted, e)
      /\ role' = role /\ requests' = requests
  BY DEF HandleResponse, membership
<1>3. e \in EmissionRecords /\ e.request_seq = b
  BY EmissionType
<1> HIDE DEF e
<1>4. /\ Len(emitted) \in Nat /\ Len(emitted') = Len(emitted) + 1
      /\ emitted'[Len(emitted')] = e
      /\ \A o \in 1..Len(emitted) : emitted'[o] = emitted[o]
  BY <1>1, <1>2, <1>3, AppendEmission
<1>5. Len(emitted') \in Nat /\ Len(emitted') \in 1..Len(emitted')
  BY <1>4
<1>6. PICK others : others = InFlight \ {b}
  OBVIOUS
<1>7. PICK m : Routed(b, m) /\ m.origin = Len(emitted')
  BY <1>2, <1>5, <1>6, RouteLemma
<1>8. \A id \in ClientIds : \A k \in 1..Len(inbox'[id]) :
        \/ k \in 1..Len(inbox[id]) /\ inbox'[id][k] = inbox[id][k]
        \/ /\ b \in 1..Len(requests) /\ requests[b].from = id
           /\ inbox'[id][k] = m /\ m.request_seq = requests[b].seq
  BY <1>7 DEF Routed
<1>9. \A id \in ClientIds : \A k \in 1..Len(inbox'[id]) :
        \/ k \in 1..Len(inbox[id]) /\ inbox'[id][k] = inbox[id][k]
        \/ /\ inbox'[id][k].origin \in 1..Len(emitted')
           /\ emitted'[inbox'[id][k].origin].request_seq \in 1..Len(requests')
           /\ requests'[emitted'[inbox'[id][k].origin].request_seq].from = id
           /\ requests'[emitted'[inbox'[id][k].origin].request_seq].seq
                = inbox'[id][k].request_seq
  BY <1>2, <1>3, <1>4, <1>5, <1>7, <1>8
<1>10. Extends
  BY <1>1, <1>2, <1>4 DEF Extends
<1>11. QED
  BY <1>1, <1>2, <1>5, <1>9, <1>10, RoutedExtend

LEMMA UpstreamEventRouted ==
  ASSUME TableInv, RoutedInv, NEW event \in Events, UpstreamEvent(event)
  PROVE  RoutedInv'
<1> DEFINE e == Emission("event", 0, event, TRUE, FALSE)
           m == Outbound("event", display_seq', 0, Len(emitted'), TRUE, NoArg)
<1>1. TypeOK /\ Len(requests) \in Nat /\ emitted \in Seq(EmissionRecords)
      /\ display_seq \in Nat
  BY TypeFacts DEF TableInv, TypeOK
<1>2. /\ emitted' = Append(emitted, e) /\ display_seq' = display_seq + 1
      /\ Deliver(EventTargets, m) /\ requests' = requests
  BY DEF UpstreamEvent, NextDisplaySeq
<1>3. e \in EmissionRecords
  BY DEF Emission, EmissionRecords
<1> HIDE DEF e
<1>4. /\ Len(emitted) \in Nat /\ Len(emitted') = Len(emitted) + 1
      /\ \A o \in 1..Len(emitted) : emitted'[o] = emitted[o]
  BY <1>1, <1>2, <1>3, AppendEmission
<1>5. m \in Outbounds /\ m.type = "event"
  BY <1>1, <1>2, <1>4 DEF Outbound, Outbounds
<1> HIDE DEF m
<1>6. \A id \in ClientIds : \A k \in 1..Len(inbox'[id]) :
        \/ k \in 1..Len(inbox[id]) /\ inbox'[id][k] = inbox[id][k]
        \/ id \in EventTargets /\ inbox'[id][k] = m
  BY <1>1, <1>2, <1>5, DeliverLemma
<1>7. Extends
  BY <1>1, <1>2, <1>4 DEF Extends
<1>8. Len(requests') \in Nat /\ Len(emitted') \in Nat
  BY <1>1, <1>2, <1>4
<1>9. QED
  BY <1>1, <1>5, <1>6, <1>7, <1>8, RoutedExtend

LEMMA NextRouted == TableInv /\ RoutedInv /\ [Next]_vars => RoutedInv'
<1> SUFFICES ASSUME TableInv, RoutedInv, [Next]_vars PROVE RoutedInv'
  OBVIOUS
<1>1. TypeOK
  BY DEF TableInv
<1>2. CASE \E r \in Roles : Attach(r)
  BY <1>2, AttachRouted
<1>3. CASE \E id \in ClientIds : \E request \in Requests(id) : ClientSend(id, request)
  BY <1>3, ClientSendRouted
<1>4. CASE \E b \in 1..Len(requests), success \in Outcomes : UpstreamResponse(b, success)
  <2>1. PICK b \in 1..Len(requests), success \in Outcomes : UpstreamResponse(b, success)
    BY <1>4
  <2>2. requests[b].command \in Commands
    <3>1. requests[b] \in RequestRecords
      BY <1>1, TypeFacts, ElementOfSeq
    <3>2. QED
      BY <3>1 DEF RequestRecords
  <2>3. b \in Nat /\ success \in BOOLEAN
    BY BoundsAssumption
  <2>4. HandleResponse(b, requests[b].command, success, FALSE)
    BY <2>1 DEF UpstreamResponse
  <2>5. QED
    BY <2>2, <2>3, <2>4, ResponseRouted
<1>5. CASE \E success \in Outcomes : DisconnectAnswered(success)
  <2>1. PICK success \in Outcomes : DisconnectAnswered(success)
    BY <1>5
  <2>2. HandleResponse(1, "disconnect", success, TRUE) /\ success \in BOOLEAN
    BY <2>1, BoundsAssumption DEF DisconnectAnswered
  <2>3. QED
    BY <2>2, ResponseRouted
<1>6. CASE \E event \in Events : UpstreamEvent(event)
  BY <1>6, UpstreamEventRouted
<1>7. CASE \/ \E id \in ClientIds : DropReceiver(id) \/ Detach(id)
           \/ CloseToUpstream
           \/ UpstreamEof
           \/ UNCHANGED vars
  <2>1. inbox' = inbox /\ requests' = requests /\ emitted' = emitted
    BY <1>7 DEF DropReceiver, Detach, CloseToUpstream, UpstreamEof, vars
  <2>2. QED
    BY <1>1, <2>1, RoutedQuiet
<1>8. QED
  BY <1>2, <1>3, <1>4, <1>5, <1>6, <1>7 DEF Next

\* Whoever receives a response asked for it, under the number the response names, for any
\* number of clients that use the same numbers (Route: the remapper, secondary_pending).
THEOREM RoutingCorrect == Spec => []RoutedToRequester
<1>1. Init => RoutedInv
  BY DEF Init, RoutedInv
<1>2. TableInv /\ RoutedInv => RoutedToRequester
  BY DEF RoutedToRequester, RoutedInv, LiveResponses, Answers
<1>3. QED
  BY <1>1, <1>2, TablesInvariant, NextRouted, PTL DEF Spec

-----------------------------------------------------------------------------
(* The kinds of steps *)

Appends(id, m) == inbox'[id] = Append(inbox[id], m)

\* What a turn of the loop that sends the message m does to the inboxes.
Sends(m) ==
  /\ loop = "running" /\ m \in Outbounds /\ m.live
  /\ UNCHANGED <<next_client_id, role, joined, clients, receivers, requests>>
  /\ \A id \in ClientIds : inbox'[id] = inbox[id] \/ Appends(id, m)
  /\ display_seq' \in {display_seq, display_seq + 1}
  /\ \A id \in ClientIds :
       (role[id] = "Editor" /\ inbox'[id] # inbox[id])
         => display_seq' = display_seq + 1 /\ m.seq = display_seq'

SendsSnapshot(m) ==
  /\ Sends(m) /\ m.type = "snapshot" /\ m.body = cache.breakpoints
  /\ UNCHANGED <<emitted, cache>>

\* The response goes to the client that asked, if it is known and listening.
SendsResponse(m, b, command, success, own) ==
  /\ Sends(m) /\ m.type = "response" /\ m.origin = Len(emitted) + 1
  /\ emitted' = Append(emitted, Emission("response", b, command, success, own))
  /\ cache' = ObserveResponse(Len(emitted) + 1, b, command, success)
  /\ \A id \in ClientIds : inbox'[id] # inbox[id] => b \in InFlight /\ requests[b].from = id
  /\ (loop' = "running" /\ b \in InFlight /\ requests[b].from \in Reachable)
       => Appends(requests[b].from, m)

\* The event goes to all clients, unless that fails.
SendsEvent(m, event) ==
  /\ Sends(m) /\ m.type = "event" /\ m.origin = Len(emitted) + 1
  /\ emitted' = Append(emitted, Emission("event", 0, event, TRUE, FALSE))
  /\ cache' = ObserveEvent(Len(emitted) + 1, event)
  /\ \A id \in ClientIds : inbox'[id] # inbox[id] => id \in Reachable
  /\ loop' = "running" => \A id \in Reachable : Appends(id, m)

\* A turn that sends nothing: of the cache, only what is pending changes, by a request.
Quiet ==
  /\ UNCHANGED <<next_client_id, role, joined, inbox, display_seq, emitted>>
  /\ Reachable' \subseteq Reachable /\ (loop' = "running" => loop = "running") /\ Extends
  /\ cache'.initialize_body = cache.initialize_body /\ cache'.initialized = cache.initialized
  /\ cache'.last_stopped = cache.last_stopped /\ cache'.breakpoints = cache.breakpoints
  /\ loop' = "running" =>
       \A b \in DOMAIN cache'.pending :
         \/ b \in DOMAIN cache.pending /\ cache'.pending[b] = cache.pending[b]
         \/ /\ b \in 1..Len(requests') /\ requests'[b].command = "setBreakpoints"
            /\ requests'[b].arg = cache'.pending[b]

\* A client attaches: its inbox begins with the replay.
Joins(new) ==
  /\ loop = "running" /\ new = next_client_id + 1 /\ new \in ClientIds /\ next_client_id' = new
  /\ UNCHANGED <<loop, display_seq, cache, requests, emitted>>
  /\ inbox'[new] = Replay /\ joined'[new] = Len(emitted)
  /\ \A id \in ClientIds \ {new} :
       inbox'[id] = inbox[id] /\ joined'[id] = joined[id] /\ role'[id] = role[id]
  /\ Reachable' \subseteq Reachable \cup {new}

\* Whose response it is: the bridge's own disconnect, or a request the adapter was sent
\* and had not answered.
AnswerOf(b, command, own) ==
  IF own
  THEN /\ b = 1 /\ command = "disconnect" /\ ~to_upstream_open
       /\ \A o \in 1..Len(emitted) : ~emitted[o].own
  ELSE /\ b \in 1..Len(requests) /\ command = requests[b].command
       /\ \A o \in 1..Len(emitted) :
            emitted[o].type = "response" /\ ~emitted[o].own => emitted[o].request_seq # b

-----------------------------------------------------------------------------
(* Every step is of one of these kinds *)

\* What is delivered, exactly.
LEMMA DeliverExact ==
  ASSUME TypeOK, loop = "running", NEW ids, NEW m, Deliver(ids, m)
  PROVE  /\ \A id \in ClientIds :
              inbox'[id] = inbox[id] \/ (id \in ids \cap Reachable /\ Appends(id, m))
         /\ loop' \in {loop, "failed"}
         /\ loop' = "running" => \A id \in ids \cap ClientIds : Appends(id, m)
<1>1. CASE ids \subseteq Reachable /\ SendTo(ids, m) /\ UNCHANGED loop
  BY <1>1 DEF SendTo, Appends
<1>2. ASSUME NEW reached \in SUBSET (ids \cap Reachable), SendTo(reached, m), loop' = "failed"
      PROVE  \A id \in ClientIds :
               inbox'[id] = inbox[id] \/ (id \in ids \cap Reachable /\ Appends(id, m))
  BY <1>2 DEF SendTo, Appends
<1>3. QED
  BY <1>1, <1>2 DEF Deliver

\* The ids of clients are ids, and who is reachable is a client.
LEMMA ClientsAreIds ==
  ASSUME TypeOK
  PROVE  clients \subseteq ClientIds /\ Reachable \subseteq clients /\ next_client_id \in Nat
         /\ 1..next_client_id \subseteq ClientIds
BY BoundsAssumption DEF TypeOK, ClientIds, Reachable

LEMMA SnapshotStep ==
  ASSUME TableInv, NEW id \in ClientIds, NEW request \in Requests(id),
         ClientSend(id, request), AnswerSnapshot(id, request)
  PROVE  \E m : SendsSnapshot(m)
<1> DEFINE m == Outbound("snapshot", display_seq', request.seq, 0, TRUE, cache.breakpoints)
<1>1. TypeOK /\ loop = "running" /\ role[id] = "Control"
      /\ UNCHANGED <<next_client_id, role, joined, clients, receivers, requests, emitted, cache>>
      /\ display_seq' = display_seq + 1 /\ Deliver({id}, m)
  BY DEF TableInv, ClientSend, AnswerSnapshot, membership, NextDisplaySeq
<1>2. display_seq \in Nat /\ cache.breakpoints \in Specs \cup {NoArg} /\ request.seq \in Nat
  BY <1>1, RequestsType, BoundsAssumption DEF TypeOK
<1>3. m \in Outbounds /\ m.live /\ m.type = "snapshot" /\ m.body = cache.breakpoints
  BY <1>1, <1>2 DEF Outbound, Outbounds
<1> HIDE DEF m
<1>4. \A c \in ClientIds : inbox'[c] = inbox[c] \/ (c = id /\ Appends(c, m))
  BY <1>1, DeliverExact
<1>5. QED
  BY <1>1, <1>3, <1>4 DEF SendsSnapshot, Sends

LEMMA EventStep ==
  ASSUME TableInv, NEW event \in Events, UpstreamEvent(event)
  PROVE  \E m : SendsEvent(m, event)
<1> DEFINE e == Emission("event", 0, event, TRUE, FALSE)
           m == Outbound("event", display_seq', 0, Len(emitted'), TRUE, NoArg)
<1>1. /\ TypeOK /\ emitted \in Seq(EmissionRecords) /\ display_seq \in Nat
      /\ loop = "running" /\ emitted' = Append(emitted, e)
      /\ UNCHANGED <<next_client_id, role, joined, clients, receivers, requests>>
      /\ cache' = ObserveEvent(Len(emitted'), event)
      /\ display_seq' = display_seq + 1 /\ Deliver(clients, m)
  BY TypeFacts DEF TableInv, TypeOK, UpstreamEvent, NextDisplaySeq, membership, EventTargets
<1>2. e \in EmissionRecords
  BY EmissionType DEF Emission, EmissionRecords
<1> HIDE DEF e
<1>3. Len(emitted') = Len(emitted) + 1 /\ Len(emitted') \in Nat
  BY <1>1, <1>2, AppendEmission
<1>4. /\ m \in Outbounds /\ m.live /\ m.type = "event" /\ m.origin = Len(emitted')
      /\ m.seq = display_seq'
  BY <1>1, <1>3 DEF Outbound, Outbounds
<1> HIDE DEF m
<1>5. /\ \A id \in ClientIds : inbox'[id] = inbox[id] \/ (id \in clients \cap Reachable /\ Appends(id, m))
      /\ loop' = "running" => \A id \in clients \cap ClientIds : Appends(id, m)
  BY <1>1, DeliverExact
<1>6. Reachable \subseteq clients \cap ClientIds
  BY <1>1, ClientsAreIds
<1>7. Sends(m)
  BY <1>1, <1>4, <1>5 DEF Sends
<1>8. QED
  BY <1>1, <1>3, <1>4, <1>5, <1>6, <1>7 DEF SendsEvent, e

LEMMA ResponseStep ==
  ASSUME TableInv, NEW b \in Nat, NEW command \in Commands \cup {"disconnect"},
         NEW success \in BOOLEAN, NEW own \in BOOLEAN, HandleResponse(b, command, success, own)
  PROVE  \E m : SendsResponse(m, b, command, success, own)
<1> DEFINE e == Emission("response", b, command, success, own)
           from == requests[b].from
<1>1. /\ TypeOK /\ Bookkeeping /\ TablesFor(InFlight)
      /\ emitted \in Seq(EmissionRecords) /\ display_seq \in Nat
      /\ loop = "running" /\ emitted' = Append(emitted, e) /\ Route(b)
      /\ cache' = ObserveResponse(Len(emitted'), b, command, success)
      /\ UNCHANGED <<next_client_id, role, joined, clients, receivers, requests>>
  BY TypeFacts DEF TableInv, TypeOK, HandleResponse, membership, InFlightExact, TablesFor
<1>2. e \in EmissionRecords
  BY EmissionType
<1> HIDE DEF e
<1>3. Len(emitted') = Len(emitted) + 1 /\ Len(emitted') \in Nat
  BY <1>1, <1>2, AppendEmission
<1>4. SUFFICES \E m : /\ Sends(m) /\ m.type = "response" /\ m.origin = Len(emitted')
                      /\ \A id \in ClientIds : inbox'[id] # inbox[id] => b \in InFlight /\ from = id
                      /\ (loop' = "running" /\ b \in InFlight /\ from \in Reachable) => Appends(from, m)
  BY <1>1, <1>3 DEF SendsResponse, e
<1>5. ASSUME b \in InFlight
      PROVE  b \in 1..Len(requests) /\ from \in 1..next_client_id /\ from \in ClientIds
             /\ ClientNumber(b) \in Nat
  <2>1. b \in 1..Len(requests) /\ b \in DOMAIN reverse \cup DOMAIN secondary_pending
    BY <1>1, <1>5 DEF InFlight, TablesFor
  <2>2. from \in 1..next_client_id /\ from \in ClientIds
    BY <1>1, <2>1, ClientsAreIds DEF Bookkeeping
  <2>3. b \in DOMAIN reverse => reverse[b] \in ClientSeqs
    BY <1>1, MapsEntries DEF TypeOK
  <2>4. b \in DOMAIN secondary_pending => secondary_pending[b] \in ClientIds \X ClientSeqs
    BY <1>1, MapsEntries DEF TypeOK
  <2>5. QED
    BY <2>1, <2>2, <2>3, <2>4, BoundsAssumption DEF ClientNumber
<1>6. CASE b \in DOMAIN reverse
  <2> DEFINE m == Outbound("response", display_seq', ClientNumber(b), Len(emitted'), TRUE, NoArg)
  <2>1. display_seq' = display_seq + 1 /\ Deliver(EditorTargets, m)
    BY <1>1, <1>6 DEF Route, NextDisplaySeq
  <2>2. b \in InFlight /\ role[from] = "Editor"
    BY <1>1, <1>6 DEF TablesFor
  <2>3. m \in Outbounds /\ m.live /\ m.type = "response" /\ m.origin = Len(emitted') /\ m.seq = display_seq'
    <3>1. display_seq' \in Nat /\ ClientNumber(b) \in Nat
      BY <1>1, <1>5, <2>1, <2>2
    <3>2. QED
      BY <1>3, <3>1 DEF Outbound, Outbounds
  <2> HIDE DEF m
  <2>4. /\ \A id \in ClientIds : inbox'[id] = inbox[id] \/ (id \in EditorTargets /\ Appends(id, m))
        /\ loop' = "running" => \A id \in EditorTargets \cap ClientIds : Appends(id, m)
    BY <1>1, <2>1, DeliverExact
  <2>5. \A id \in EditorTargets : id = from
    BY <1>1, <1>5, <2>2 DEF EditorTargets, Bookkeeping, TypeOK
  <2>6. from \in Reachable => from \in EditorTargets
    BY <1>1, <2>2, ClientsAreIds DEF EditorTargets
  <2>7. Sends(m)
    BY <1>1, <2>1, <2>3, <2>4 DEF Sends
  <2>8. QED
    BY <1>5, <2>2, <2>3, <2>4, <2>5, <2>6, <2>7
<1>7. CASE b \notin DOMAIN reverse /\ b \in DOMAIN secondary_pending
  <2> DEFINE m == Outbound("response", Len(emitted'), ClientNumber(b), Len(emitted'), TRUE, NoArg)
  <2>1. display_seq' = display_seq /\ Deliver({secondary_pending[b][1]}, m)
    BY <1>1, <1>7 DEF Route
  <2>2. b \in InFlight /\ role[from] # "Editor" /\ secondary_pending[b][1] = from
    BY <1>1, <1>7 DEF TablesFor
  <2>3. m \in Outbounds /\ m.live /\ m.type = "response" /\ m.origin = Len(emitted')
    BY <1>3, <1>5, <2>2 DEF Outbound, Outbounds
  <2> HIDE DEF m
  <2>4. /\ \A id \in ClientIds : inbox'[id] = inbox[id] \/ (id = from /\ Appends(id, m))
        /\ loop' = "running" => Appends(from, m)
    BY <1>1, <1>5, <2>1, <2>2, DeliverExact
  <2>5. Sends(m)
    BY <1>1, <2>1, <2>2, <2>3, <2>4 DEF Sends
  <2>6. QED
    BY <2>2, <2>3, <2>4, <2>5
<1>8. CASE b \notin DOMAIN reverse \cup DOMAIN secondary_pending
  <2> DEFINE m == Outbound("response", 0, 0, Len(emitted'), TRUE, NoArg)
  <2>1. display_seq' = display_seq /\ inbox' = inbox /\ b \notin InFlight
    BY <1>1, <1>8 DEF Route, TablesFor
  <2>2. m \in Outbounds /\ m.live /\ m.type = "response" /\ m.origin = Len(emitted')
    BY <1>3 DEF Outbound, Outbounds
  <2> HIDE DEF m
  <2>3. Sends(m)
    BY <1>1, <2>1, <2>2 DEF Sends
  <2>4. QED
    BY <2>1, <2>2, <2>3
<1>9. QED
  BY <1>6, <1>7, <1>8

LEMMA AttachStep ==
  ASSUME TableInv, NEW r \in Roles, Attach(r)
  PROVE  Joins(next_client_id + 1)
<1> DEFINE new == next_client_id + 1
<1>1. TypeOK /\ new \in ClientIds
  <2>1. TypeOK /\ next_client_id \in 0..MaxClients /\ next_client_id < MaxClients
    BY DEF TableInv, TypeOK, Attach
  <2>2. QED
    BY <2>1, BoundsAssumption DEF ClientIds
<1>2. /\ loop = "running" /\ next_client_id' = new
      /\ UNCHANGED <<loop, display_seq, cache, requests, emitted>>
      /\ role' = [role EXCEPT ![new] = r]
      /\ clients' = clients \cup {new} /\ receivers' = receivers \cup {new}
      /\ inbox' = [inbox EXCEPT ![new] = Replay]
      /\ joined' = [joined EXCEPT ![new] = Len(emitted)]
  BY DEF Attach
<1>3. Reachable' \subseteq Reachable \cup {new}
  BY <1>2 DEF Reachable
<1> HIDE DEF new
<1>4. /\ inbox'[new] = Replay /\ joined'[new] = Len(emitted)
      /\ \A id \in ClientIds \ {new} :
           inbox'[id] = inbox[id] /\ joined'[id] = joined[id] /\ role'[id] = role[id]
  BY <1>1, <1>2 DEF TypeOK
<1>5. QED
  BY <1>1, <1>2, <1>3, <1>4 DEF Joins, new

\* What the argument forwarded upstream can be.
LEMMA TranslatedType ==
  ASSUME TypeOK, NEW id \in ClientIds, NEW request \in Requests(id)
  PROVE  TranslateCancel(request) \in Nat \cup Specs \cup {NoArg}
<1>1. forward \in Maps(ClientSeqs, 1..MaxRequests)
  BY DEF TypeOK
<1>2. \A s \in DOMAIN forward : forward[s] \in Nat
  BY <1>1, MapsEntries, BoundsAssumption
<1>3. request.arg \in Nat \cup Specs \cup {NoArg}
  BY RequestsType, BoundsAssumption
<1>4. QED
  BY <1>2, <1>3 DEF TranslateCancel

\* A request that is forwarded, or that the loop fails to forward, is quiet.
LEMMA ForwardStep ==
  ASSUME TableInv, NEW id \in ClientIds, NEW request \in Requests(id),
         NEW arg \in Nat \cup Specs \cup {NoArg},
         request.command = "setBreakpoints" => arg = request.arg,
         loop = "running", SendUpstream(id, request, arg),
         cache' = ObserveRequest(backend_seq + 1, request),
         UNCHANGED <<next_client_id, role, joined, clients, receivers, inbox, display_seq, emitted>>
  PROVE  Quiet
<1> DEFINE b == backend_seq + 1
           entry == [from |-> id, seq |-> request.seq, command |-> request.command,
                     asked |-> request.arg, arg |-> arg]
<1>1. /\ TypeOK /\ b = Len(requests) + 1 /\ Len(requests) \in Nat /\ Len(emitted) \in Nat
      /\ requests \in Seq(RequestRecords) /\ cache \in CacheRecords
  BY TypeFacts DEF TableInv, Bookkeeping
<1>2. entry \in RequestRecords
  BY RequestsType DEF RequestRecords
<1>3. \/ requests' = Append(requests, entry)
      \/ requests' = requests /\ loop' = "failed"
  BY DEF SendUpstream
<1>4. entry.command = request.command /\ entry.arg = arg
  OBVIOUS
<1> HIDE DEF entry
<1>5. requests' = Append(requests, entry) =>
        /\ Len(requests') = Len(requests) + 1 /\ requests'[Len(requests) + 1] = entry
        /\ \A c \in 1..Len(requests) : requests'[c] = requests[c]
  BY <1>1, <1>2, AppendProperties
<1>6. Extends
  BY <1>1, <1>3, <1>5 DEF Extends
<1>7. CASE request.command # "setBreakpoints"
  BY <1>1, <1>6, <1>7 DEF Quiet, ObserveRequest, Reachable
<1>8. CASE request.command = "setBreakpoints"
  <2>1. cache' = [cache EXCEPT !.pending = Insert(@, b, request.arg)]
    BY <1>8 DEF ObserveRequest
  <2>2. /\ cache'.pending = Insert(cache.pending, b, request.arg)
        /\ cache'.initialize_body = cache.initialize_body /\ cache'.initialized = cache.initialized
        /\ cache'.last_stopped = cache.last_stopped /\ cache'.breakpoints = cache.breakpoints
    BY <1>1, <2>1 DEF CacheRecords
  <2>3. \A c \in DOMAIN cache'.pending :
          \/ c \in DOMAIN cache.pending /\ cache'.pending[c] = cache.pending[c]
          \/ c = b /\ cache'.pending[c] = request.arg
    BY <2>2 DEF Insert
  <2>4. loop' = "running" =>
          b \in 1..Len(requests') /\ requests'[b].command = "setBreakpoints"
          /\ requests'[b].arg = request.arg
    BY <1>1, <1>3, <1>4, <1>5, <1>8
  <2>5. QED
    BY <1>6, <2>2, <2>3, <2>4 DEF Quiet, Reachable
<1>9. QED
  BY <1>7, <1>8

LEMMA ClientSendStep ==
  ASSUME TableInv, NEW id \in ClientIds, NEW request \in Requests(id), ClientSend(id, request)
  PROVE  Quiet \/ \E m : SendsSnapshot(m)
<1>1. /\ TypeOK /\ loop = "running"
      /\ UNCHANGED <<next_client_id, role, joined, clients, receivers, emitted>>
  BY DEF TableInv, ClientSend, membership
<1>2. request.arg \in Nat \cup Specs \cup {NoArg}
  BY RequestsType, BoundsAssumption
<1>3. CASE AnswerSnapshot(id, request)
  BY <1>3, SnapshotStep
<1>4. CASE ForwardEditor(id, request)
  <2>1. TranslateCancel(request) \in Nat \cup Specs \cup {NoArg}
    BY <1>1, TranslatedType
  <2>2. request.command = "setBreakpoints" => TranslateCancel(request) = request.arg
    BY DEF TranslateCancel
  <2>3. /\ SendUpstream(id, request, TranslateCancel(request))
        /\ cache' = ObserveRequest(backend_seq + 1, request)
        /\ UNCHANGED <<display_seq, inbox>>
    BY <1>4 DEF ForwardEditor
  <2>4. QED
    BY <1>1, <2>1, <2>2, <2>3, ForwardStep
<1>5. CASE ForwardSecondary(id, request)
  <2>1. /\ SendUpstream(id, request, request.arg)
        /\ cache' = ObserveRequest(backend_seq + 1, request)
        /\ UNCHANGED <<display_seq, inbox>>
    BY <1>5 DEF ForwardSecondary
  <2>2. QED
    BY <1>1, <1>2, <2>1, ForwardStep
<1>6. QED
  BY <1>3, <1>4, <1>5 DEF ClientSend

LEMMA StepKinds ==
  ASSUME TableInv, [Next]_vars
  PROVE  \/ \E new : Joins(new)
         \/ Quiet
         \/ \E m : SendsSnapshot(m)
         \/ \E m : \E event \in Events : SendsEvent(m, event)
         \/ \E m : \E b \in Nat, command \in Commands \cup {"disconnect"},
                       success \in BOOLEAN, own \in BOOLEAN :
              SendsResponse(m, b, command, success, own) /\ AnswerOf(b, command, own)
<1>1. TypeOK /\ Len(requests) \in Nat /\ Len(emitted) \in Nat
  BY TypeFacts DEF TableInv
<1>2. CASE \E r \in Roles : Attach(r)
  BY <1>2, AttachStep
<1>3. CASE \E id \in ClientIds : \E request \in Requests(id) : ClientSend(id, request)
  BY <1>3, ClientSendStep
<1>4. CASE \E b \in 1..Len(requests), success \in Outcomes : UpstreamResponse(b, success)
  <2>1. PICK b \in 1..Len(requests), success \in Outcomes : UpstreamResponse(b, success)
    BY <1>4
  <2>2. PICK command : command = requests[b].command
    OBVIOUS
  <2>3. command \in Commands
    <3>1. requests[b] \in RequestRecords
      BY <1>1, TypeFacts, ElementOfSeq
    <3>2. QED
      BY <2>2, <3>1 DEF RequestRecords
  <2>4. b \in Nat /\ success \in BOOLEAN
    BY BoundsAssumption
  <2>5. HandleResponse(b, command, success, FALSE)
    BY <2>1, <2>2 DEF UpstreamResponse
  <2>6. PICK m : SendsResponse(m, b, command, success, FALSE)
    BY <2>3, <2>4, <2>5, ResponseStep
  <2>7. AnswerOf(b, command, FALSE)
    BY <2>1, <2>2 DEF AnswerOf, UpstreamResponse
  <2>8. QED
    BY <2>3, <2>4, <2>6, <2>7
<1>5. CASE \E success \in Outcomes : DisconnectAnswered(success)
  <2>1. PICK success \in Outcomes : DisconnectAnswered(success)
    BY <1>5
  <2>2. HandleResponse(1, "disconnect", success, TRUE) /\ success \in BOOLEAN
    BY <2>1, BoundsAssumption DEF DisconnectAnswered
  <2>3. PICK m : SendsResponse(m, 1, "disconnect", success, TRUE)
    BY <2>2, ResponseStep
  <2>4. AnswerOf(1, "disconnect", TRUE)
    BY <2>1 DEF AnswerOf, DisconnectAnswered
  <2>5. QED
    BY <2>2, <2>3, <2>4
<1>6. CASE \E event \in Events : UpstreamEvent(event)
  BY <1>6, EventStep
<1>7. CASE \/ \E id \in ClientIds : DropReceiver(id) \/ Detach(id)
           \/ CloseToUpstream
           \/ UpstreamEof
           \/ UNCHANGED vars
  <2>1. /\ UNCHANGED <<next_client_id, role, joined, inbox, display_seq, emitted, requests, cache>>
        /\ clients' \subseteq clients /\ receivers' \subseteq receivers
        /\ loop' = "running" => loop = "running"
    BY <1>7 DEF DropReceiver, Detach, CloseToUpstream, UpstreamEof, vars, membership
  <2>2. Extends
    BY <1>1, <2>1 DEF Extends
  <2>3. QED
    BY <2>1, <2>2 DEF Quiet, Reachable
<1>8. QED
  BY <1>2, <1>3, <1>4, <1>5, <1>6, <1>7 DEF Next

\* What sending the message m leaves of an inbox, and adds to it.
LEMMA InboxGrows ==
  ASSUME TypeOK, NEW m, Sends(m), NEW id \in ClientIds
  PROVE  /\ Len(inbox[id]) \in Nat
         /\ \/ inbox'[id] = inbox[id]
            \/ Appends(id, m)
         /\ Appends(id, m) =>
              /\ inbox'[id] # inbox[id]
              /\ Len(inbox'[id]) = Len(inbox[id]) + 1 /\ inbox'[id][Len(inbox[id]) + 1] = m
         /\ Len(inbox[id]) <= Len(inbox'[id])
         /\ \A k \in 1..Len(inbox[id]) : inbox'[id][k] = inbox[id][k]
<1>1. PICK box : box = inbox[id] /\ box \in Seq(Outbounds)
  BY DEF TypeOK
<1>2. m \in Outbounds
  BY DEF Sends
<1>3. /\ Len(box) \in Nat /\ Len(Append(box, m)) = Len(box) + 1 /\ Append(box, m)[Len(box) + 1] = m
      /\ \A k \in 1..Len(box) : Append(box, m)[k] = box[k]
  BY <1>1, <1>2, AppendProperties
<1>4. box # Append(box, m)
  BY <1>3
<1>5. QED
  BY <1>1, <1>3, <1>4 DEF Sends, Appends

LEMMA InboxEntries ==
  ASSUME TypeOK, NEW id \in ClientIds, NEW k \in 1..Len(inbox[id])
  PROVE  /\ inbox[id][k] \in Outbounds /\ inbox[id][k].live \in BOOLEAN
         /\ inbox[id][k].seq \in Nat /\ inbox[id][k].origin \in Nat
<1>1. inbox[id][k] \in Outbounds
  BY ElementOfSeq DEF TypeOK
<1>2. QED
  BY <1>1 DEF Outbounds

-----------------------------------------------------------------------------
(* The editor's numbering *)

NumberedInv ==
  \A id \in 1..next_client_id : role[id] = "Editor" =>
    /\ \A k \in 1..Len(inbox[id]) : inbox[id][k].live => inbox[id][k].seq <= display_seq
    /\ \A j, k \in 1..Len(inbox[id]) :
         (j < k /\ inbox[id][j].live) => inbox[id][j].seq < inbox[id][k].seq

LEMMA SendNumbered ==
  ASSUME TypeOK, NumberedInv, NEW m, Sends(m) PROVE NumberedInv'
<1>1. UNCHANGED <<next_client_id, role>> /\ display_seq \in Nat
      /\ display_seq' \in {display_seq, display_seq + 1}
  BY DEF Sends, TypeOK
<1> SUFFICES ASSUME NEW id \in 1..next_client_id, role[id] = "Editor"
             PROVE  /\ \A k \in 1..Len(inbox'[id]) : inbox'[id][k].live => inbox'[id][k].seq <= display_seq'
                    /\ \A j, k \in 1..Len(inbox'[id]) :
                         (j < k /\ inbox'[id][j].live) => inbox'[id][j].seq < inbox'[id][k].seq
  BY <1>1 DEF NumberedInv
<1>2. id \in ClientIds
  BY ClientsAreIds
<1>3. \A k \in 1..Len(inbox[id]) : inbox[id][k].live => inbox[id][k].seq <= display_seq
  BY DEF NumberedInv
<1>4. \A j, k \in 1..Len(inbox[id]) :
        (j < k /\ inbox[id][j].live) => inbox[id][j].seq < inbox[id][k].seq
  BY DEF NumberedInv
<1>5. \A k \in 1..Len(inbox[id]) : inbox[id][k].seq \in Nat
  BY <1>2, InboxEntries
<1>6. CASE inbox'[id] = inbox[id]
  BY <1>1, <1>3, <1>4, <1>5, <1>6
<1>7. CASE Appends(id, m)
  <2>1. /\ Len(inbox[id]) \in Nat /\ inbox'[id] # inbox[id]
        /\ Len(inbox'[id]) = Len(inbox[id]) + 1 /\ inbox'[id][Len(inbox[id]) + 1] = m
        /\ \A k \in 1..Len(inbox[id]) : inbox'[id][k] = inbox[id][k]
    BY <1>2, <1>7, InboxGrows
  <2>2. display_seq' = display_seq + 1 /\ m.seq = display_seq'
    BY <1>2, <2>1 DEF Sends
  <2>3. PICK n \in Nat : n = Len(inbox[id])
    BY <2>1
  <2>4. \A k \in 1..Len(inbox'[id]) : k \in 1..n \/ k = n + 1
    BY <2>1, <2>3
  <2>5. ASSUME NEW k \in 1..Len(inbox'[id]), inbox'[id][k].live
        PROVE  inbox'[id][k].seq <= display_seq'
    <3>1. CASE k \in 1..n
      <4>1. inbox[id][k].seq <= display_seq /\ inbox[id][k].seq \in Nat
            /\ inbox'[id][k] = inbox[id][k]
        BY <1>3, <1>5, <2>1, <2>3, <2>5, <3>1
      <4>2. QED
        BY <1>1, <4>1
    <3>2. CASE k = n + 1
      BY <1>1, <2>1, <2>2, <2>3, <3>2
    <3>3. QED
      BY <2>4, <3>1, <3>2
  <2>6. ASSUME NEW j \in 1..Len(inbox'[id]), NEW k \in 1..Len(inbox'[id]),
               j < k, inbox'[id][j].live
        PROVE  inbox'[id][j].seq < inbox'[id][k].seq
    <3>1. j \in 1..n /\ inbox'[id][j] = inbox[id][j]
      BY <2>1, <2>3, <2>4, <2>6
    <3>2. CASE k \in 1..n
      BY <1>4, <2>1, <2>3, <2>6, <3>1, <3>2
    <3>3. CASE k = n + 1
      <4>1. inbox[id][j].seq <= display_seq /\ inbox[id][j].seq \in Nat
        BY <1>3, <1>5, <2>3, <2>6, <3>1
      <4>2. inbox'[id][k].seq = display_seq + 1
        BY <2>1, <2>2, <2>3, <3>3
      <4>3. QED
        BY <1>1, <3>1, <4>1, <4>2
    <3>4. QED
      BY <2>4, <3>2, <3>3
  <2>7. QED
    BY <2>5, <2>6
<1>8. QED
  BY <1>2, <1>6, <1>7 DEF Sends

LEMMA NextNumbered ==
  ASSUME TableInv, NumberedInv, [Next]_vars PROVE NumberedInv'
<1>1. TypeOK
  BY DEF TableInv
<1>2. ASSUME NEW m, Sends(m) PROVE NumberedInv'
  BY <1>1, <1>2, SendNumbered
<1>3. CASE Quiet
  BY <1>3 DEF Quiet, NumberedInv
<1>4. ASSUME NEW new, Joins(new) PROVE NumberedInv'
  <2>1. /\ new = next_client_id + 1 /\ next_client_id' = new /\ display_seq' = display_seq
        /\ inbox'[new] = Replay
        /\ \A id \in ClientIds \ {new} : inbox'[id] = inbox[id] /\ role'[id] = role[id]
    BY <1>4 DEF Joins
  <2>2. \A id \in 1..next_client_id' : id = new \/ (id \in 1..next_client_id /\ id \in ClientIds \ {new})
    BY <1>1, <2>1, ClientsAreIds
  <2>3. \A k \in 1..Len(Replay) : ~Replay[k].live
    BY <1>1, ReplayType
  <2>4. QED
    BY <2>1, <2>2, <2>3 DEF NumberedInv
<1>5. QED
  BY <1>2, <1>3, <1>4, StepKinds DEF SendsSnapshot, SendsEvent, SendsResponse

\* What the loop sends the editor is numbered strictly upwards, although responses and
\* events are numbered on two paths (next_display_seq).
THEOREM NumberingCorrect == Spec => []EditorSeqIncreases
<1>1. Init => NumberedInv
  BY DEF Init, NumberedInv
<1>2. NumberedInv => EditorSeqIncreases
  BY DEF NumberedInv, EditorSeqIncreases
<1>3. TableInv /\ NumberedInv /\ [Next]_vars => NumberedInv'
  BY NextNumbered
<1>4. QED
  BY <1>1, <1>2, <1>3, TablesInvariant, PTL DEF Spec

-----------------------------------------------------------------------------
(* Snapshots *)

\* A response of the adapter confirmed the breakpoints of this body: the answer to the
\* request that asked for them, or the one to the bridge's disconnect.
Confirmed(body) ==
  body # NoArg =>
    \E o \in 1..Len(emitted) :
      /\ emitted[o].type = "response" /\ emitted[o].success
      /\ emitted[o].own => emitted[o].request_seq = 1
      /\ emitted[o].request_seq \in 1..Len(requests)
      /\ requests[emitted[o].request_seq].command = "setBreakpoints"
      /\ requests[emitted[o].request_seq].arg = body

\* What is pending are the payloads of the requests it is pending under.
PendingNamed ==
  loop = "running" =>
    \A b \in DOMAIN cache.pending :
      /\ b \in 1..Len(requests) /\ requests[b].command = "setBreakpoints"
      /\ requests[b].arg = cache.pending[b]

ConfirmedInv ==
  /\ PendingNamed
  /\ Confirmed(cache.breakpoints)
  /\ \A id \in ClientIds : \A k \in 1..Len(inbox[id]) :
       inbox[id][k].type = "snapshot" => Confirmed(inbox[id][k].body)

\* Confirmed with the histories after a step.
ConfirmedNext(body) ==
  body # NoArg =>
    \E o \in 1..Len(emitted') :
      /\ emitted'[o].type = "response" /\ emitted'[o].success
      /\ emitted'[o].own => emitted'[o].request_seq = 1
      /\ emitted'[o].request_seq \in 1..Len(requests')
      /\ requests'[emitted'[o].request_seq].command = "setBreakpoints"
      /\ requests'[emitted'[o].request_seq].arg = body

LEMMA StaysConfirmed ==
  ASSUME TypeOK, Extends, Len(requests') \in Nat, Len(emitted') \in Nat, NEW body, Confirmed(body)
  PROVE  ConfirmedNext(body)
<1>1. Len(requests) \in Nat /\ Len(emitted) \in Nat
  BY TypeFacts
<1>2. CASE body = NoArg
  BY <1>2 DEF ConfirmedNext
<1>3. CASE body # NoArg
  <2>1. PICK o \in 1..Len(emitted) :
          /\ emitted[o].type = "response" /\ emitted[o].success
          /\ emitted[o].own => emitted[o].request_seq = 1
          /\ emitted[o].request_seq \in 1..Len(requests)
          /\ requests[emitted[o].request_seq].command = "setBreakpoints"
          /\ requests[emitted[o].request_seq].arg = body
    BY <1>3 DEF Confirmed
  <2>2. PICK b \in 1..Len(requests) : b = emitted[o].request_seq
    BY <2>1
  <2>3. o \in 1..Len(emitted') /\ b \in 1..Len(requests')
        /\ emitted'[o] = emitted[o] /\ requests'[b] = requests[b]
    BY <1>1 DEF Extends
  <2>4. QED
    BY <2>1, <2>2, <2>3 DEF ConfirmedNext
<1>4. QED
  BY <1>2, <1>3

\* The histories, and the inboxes' snapshots, after a step of any kind.
LEMMA HistoriesExtend ==
  ASSUME TableInv, [Next]_vars
  PROVE  Extends /\ Len(requests') \in Nat /\ Len(emitted') \in Nat
<1>1. TypeOK /\ TypeOK'
  BY NextTables DEF TableInv
<1>2. /\ Len(requests) \in Nat /\ Len(emitted) \in Nat
      /\ emitted \in Seq(EmissionRecords)
  BY <1>1, TypeFacts
<1>3. Len(requests') \in Nat /\ Len(emitted') \in Nat
  BY <1>1, SMTT(30) DEF TypeOK
<1>4. ASSUME NEW e \in EmissionRecords, emitted' = Append(emitted, e), requests' = requests
      PROVE  Extends
  BY <1>2, <1>4, AppendEmission DEF Extends
<1>5. ASSUME NEW m, NEW b \in Nat, NEW command \in Commands \cup {"disconnect"},
             NEW success \in BOOLEAN, NEW own \in BOOLEAN,
             SendsResponse(m, b, command, success, own)
      PROVE  Extends
  BY <1>4, <1>5, EmissionType, SMTT(30) DEF SendsResponse, Sends
<1>6. ASSUME NEW m, NEW event \in Events, SendsEvent(m, event)
      PROVE  Extends
  BY <1>4, <1>6, EmissionType DEF SendsEvent, Sends
<1>7. ASSUME UNCHANGED <<requests, emitted>> PROVE Extends
  BY <1>2, <1>7 DEF Extends
<1>8. QED
  BY <1>3, <1>5, <1>6, <1>7, StepKinds DEF SendsSnapshot, Sends, Joins, Quiet

\* Of what the replay consists, and that every cached message is in it.
LEMMA ReplayContents ==
  ASSUME TypeOK
  PROVE  /\ \A k \in 1..Len(Replay) : Replay[k].type # "snapshot"
         /\ cache.initialize_body # 0 =>
              \E k \in 1..Len(Replay) :
                Replay[k].type = "response" /\ Replay[k].origin = cache.initialize_body
         /\ cache.initialized # 0 =>
              \E k \in 1..Len(Replay) :
                Replay[k].type = "event" /\ Replay[k].origin = cache.initialized
         /\ cache.last_stopped # 0 =>
              \E k \in 1..Len(Replay) :
                Replay[k].type = "event" /\ Replay[k].origin = cache.last_stopped
<1> DEFINE i == CachedMessage("response", cache.initialize_body)
           d == CachedMessage("event", cache.initialized)
           p == CachedMessage("event", cache.last_stopped)
           A == IF cache.initialize_body = 0 THEN <<>> ELSE <<i>>
           B == IF cache.initialized = 0 THEN <<>> ELSE <<d>>
           C == IF cache.last_stopped = 0 THEN <<>> ELSE <<p>>
<1>1. /\ i.type = "response" /\ i.origin = cache.initialize_body
      /\ d.type = "event" /\ d.origin = cache.initialized
      /\ p.type = "event" /\ p.origin = cache.last_stopped
  BY DEF CachedMessage, Outbound
<1>2. Replay = (A \o B) \o C
  BY DEF Replay, ReplayWithoutStop
<1> HIDE DEF i, d, p
<1>3. A \in Seq({i, d, p}) /\ B \in Seq({i, d, p}) /\ C \in Seq({i, d, p})
  <2>1. PICK S : S = {i, d, p}
    OBVIOUS
  <2>2. i \in S /\ d \in S /\ p \in S
    BY <2>1
  <2>3. <<>> \in Seq(S) /\ <<i>> \in Seq(S) /\ <<d>> \in Seq(S) /\ <<p>> \in Seq(S)
    BY <2>2
  <2>4. A \in Seq(S) /\ B \in Seq(S) /\ C \in Seq(S)
    BY <2>3
  <2>5. QED
    BY <2>1, <2>4
<1>4. /\ cache.initialize_body # 0 => Len(A) = 1 /\ A[1] = i
      /\ cache.initialized # 0 => Len(B) = 1 /\ B[1] = d
      /\ cache.last_stopped # 0 => Len(C) = 1 /\ C[1] = p
  OBVIOUS
<1> HIDE DEF A, B, C
<1>5. /\ A \o B \in Seq({i, d, p}) /\ Replay \in Seq({i, d, p})
      /\ Len(A) \in Nat /\ Len(B) \in Nat /\ Len(C) \in Nat /\ Len(A \o B) = Len(A) + Len(B)
      /\ Len(Replay) = Len(A) + Len(B) + Len(C)
      /\ \A k \in 1..Len(A) : (A \o B)[k] = A[k]
      /\ \A k \in 1..Len(B) : (A \o B)[Len(A) + k] = B[k]
      /\ \A k \in 1..(Len(A) + Len(B)) : Replay[k] = (A \o B)[k]
      /\ \A k \in 1..Len(C) : Replay[Len(A) + Len(B) + k] = C[k]
  BY <1>2, <1>3, ConcatProperties
<1>6. \A k \in 1..Len(Replay) : Replay[k] \in {i, d, p}
  BY <1>5, ElementOfSeq
<1>7. cache.initialize_body # 0 => 1 \in 1..Len(Replay) /\ Replay[1] = i
  BY <1>4, <1>5
<1>8. cache.initialized # 0 => Len(A) + 1 \in 1..Len(Replay) /\ Replay[Len(A) + 1] = d
  BY <1>4, <1>5
<1>9. cache.last_stopped # 0 =>
        Len(A) + Len(B) + 1 \in 1..Len(Replay) /\ Replay[Len(A) + Len(B) + 1] = p
  BY <1>4, <1>5
<1>10. QED
  BY <1>1, <1>6, <1>7, <1>8, <1>9

LEMMA NextConfirmed ==
  ASSUME TableInv, ConfirmedInv, [Next]_vars PROVE ConfirmedInv'
<1> DEFINE Named == loop' = "running" =>
                      \A b \in DOMAIN cache'.pending :
                        /\ b \in 1..Len(requests') /\ requests'[b].command = "setBreakpoints"
                        /\ requests'[b].arg = cache'.pending[b]
           Shown == \A id \in ClientIds : \A k \in 1..Len(inbox'[id]) :
                      inbox'[id][k].type = "snapshot" => ConfirmedNext(inbox'[id][k].body)
<1>1. /\ TypeOK /\ Extends /\ Len(requests) \in Nat /\ Len(emitted) \in Nat
      /\ Len(requests') \in Nat /\ Len(emitted') \in Nat
      /\ cache \in CacheRecords /\ emitted \in Seq(EmissionRecords)
  BY HistoriesExtend, TypeFacts DEF TableInv
<1>2. \A body : Confirmed(body) => ConfirmedNext(body)
  BY <1>1, StaysConfirmed
<1>3. ConfirmedNext(cache.breakpoints)
  BY <1>2 DEF ConfirmedInv
<1>4. \A id \in ClientIds : \A k \in 1..Len(inbox[id]) :
        inbox[id][k].type = "snapshot" => ConfirmedNext(inbox[id][k].body)
  BY <1>2 DEF ConfirmedInv
<1>5. SUFFICES Named /\ ConfirmedNext(cache'.breakpoints) /\ Shown
  BY DEF ConfirmedInv, PendingNamed, Confirmed, ConfirmedNext
<1>6. ASSUME NEW m, Sends(m), m.type = "snapshot" => ConfirmedNext(m.body)
      PROVE  Shown
  <2> SUFFICES ASSUME NEW id \in ClientIds, NEW k \in 1..Len(inbox'[id]),
                      inbox'[id][k].type = "snapshot"
               PROVE  ConfirmedNext(inbox'[id][k].body)
    OBVIOUS
  <2>1. \/ k \in 1..Len(inbox[id]) /\ inbox'[id][k] = inbox[id][k]
        \/ inbox'[id][k] = m
    BY <1>1, <1>6, InboxGrows
  <2>2. QED
    BY <1>4, <1>6, <2>1
<1>7. ASSUME loop' = "running" => loop = "running",
             loop' = "running" =>
               \A b \in DOMAIN cache'.pending :
                 b \in DOMAIN cache.pending /\ cache'.pending[b] = cache.pending[b]
      PROVE  Named
  <2> SUFFICES ASSUME loop' = "running", NEW b \in DOMAIN cache'.pending
               PROVE  /\ b \in 1..Len(requests') /\ requests'[b].command = "setBreakpoints"
                      /\ requests'[b].arg = cache'.pending[b]
    OBVIOUS
  <2>1. b \in DOMAIN cache.pending /\ cache'.pending[b] = cache.pending[b] /\ loop = "running"
    BY <1>7
  <2>2. /\ b \in 1..Len(requests) /\ requests[b].command = "setBreakpoints"
        /\ requests[b].arg = cache.pending[b]
    BY <2>1 DEF ConfirmedInv, PendingNamed
  <2>3. b \in 1..Len(requests') /\ requests'[b] = requests[b]
    BY <1>1, <2>2 DEF Extends
  <2>4. QED
    BY <2>1, <2>2, <2>3
<1> HIDE DEF Named
<1>8. CASE Quiet
  <2>1. Shown
    BY <1>4, <1>8 DEF Quiet
  <2>2. cache'.breakpoints = cache.breakpoints
    BY <1>8 DEF Quiet
  <2>3. Named
    <3> SUFFICES ASSUME loop' = "running", NEW b \in DOMAIN cache'.pending
                 PROVE  /\ b \in 1..Len(requests') /\ requests'[b].command = "setBreakpoints"
                        /\ requests'[b].arg = cache'.pending[b]
      BY DEF Named
    <3>1. loop = "running"
      BY <1>8 DEF Quiet
    <3>2. CASE b \in DOMAIN cache.pending /\ cache'.pending[b] = cache.pending[b]
      <4>1. /\ b \in 1..Len(requests) /\ requests[b].command = "setBreakpoints"
            /\ requests[b].arg = cache.pending[b]
        BY <3>1, <3>2 DEF ConfirmedInv, PendingNamed
      <4>2. b \in 1..Len(requests') /\ requests'[b] = requests[b]
        BY <1>1, <4>1 DEF Extends
      <4>3. QED
        BY <3>2, <4>1, <4>2
    <3>3. QED
      BY <1>8, <3>2 DEF Quiet
  <2>4. QED
    BY <1>3, <2>1, <2>2, <2>3
<1>9. ASSUME NEW new, Joins(new) PROVE Named /\ ConfirmedNext(cache'.breakpoints) /\ Shown
  <2>1. /\ loop' = loop /\ cache' = cache /\ inbox'[new] = Replay /\ new \in ClientIds
        /\ \A id \in ClientIds \ {new} : inbox'[id] = inbox[id]
    BY <1>9 DEF Joins
  <2>2. Shown
    BY <1>1, <1>4, <2>1, ReplayContents
  <2>3. QED
    BY <1>3, <1>7, <2>1, <2>2
<1>10. ASSUME NEW m, SendsSnapshot(m) PROVE Named /\ ConfirmedNext(cache'.breakpoints) /\ Shown
  <2>1. cache' = cache /\ Sends(m) /\ m.body = cache.breakpoints /\ loop = "running"
    BY <1>10 DEF SendsSnapshot, Sends
  <2>2. QED
    BY <1>3, <1>6, <1>7, <2>1
<1>11. ASSUME NEW m, NEW event \in Events, SendsEvent(m, event)
       PROVE  Named /\ ConfirmedNext(cache'.breakpoints) /\ Shown
  <2>1. Sends(m) /\ m.type = "event" /\ loop = "running"
    BY <1>11 DEF SendsEvent, Sends
  <2>2. cache'.pending = cache.pending /\ cache'.breakpoints = cache.breakpoints
    BY <1>1, <1>11 DEF SendsEvent, ObserveEvent, CacheRecords
  <2>3. QED
    BY <1>3, <1>6, <1>7, <2>1, <2>2
<1>12. ASSUME NEW m, NEW b \in Nat, NEW command \in Commands \cup {"disconnect"},
              NEW success \in BOOLEAN, NEW own \in BOOLEAN,
              SendsResponse(m, b, command, success, own), AnswerOf(b, command, own)
       PROVE  Named /\ ConfirmedNext(cache'.breakpoints) /\ Shown
  <2>1. /\ Sends(m) /\ m.type = "response" /\ loop = "running" /\ requests' = requests
        /\ cache' = ObserveResponse(Len(emitted) + 1, b, command, success)
        /\ emitted' = Append(emitted, Emission("response", b, command, success, own))
    BY <1>12 DEF SendsResponse, Sends
  <2>2. CASE ~success
    <3>1. cache' = cache
      BY <2>1, <2>2 DEF ObserveResponse
    <3>2. QED
      BY <1>3, <1>6, <1>7, <2>1, <3>1
  <2>3. CASE success
    <3>1. /\ cache'.pending = Without(cache.pending, b)
          /\ cache'.breakpoints = IF b \in DOMAIN cache.pending THEN cache.pending[b]
                                                                ELSE cache.breakpoints
      BY <1>1, <2>1, <2>3 DEF ObserveResponse, CacheRecords
    <3>2. Named
      <4>1. \A c \in DOMAIN cache'.pending :
              c \in DOMAIN cache.pending /\ cache'.pending[c] = cache.pending[c]
        <5>1. PICK old : old = cache.pending
          OBVIOUS
        <5>2. \A c \in DOMAIN Without(old, b) : c \in DOMAIN old /\ Without(old, b)[c] = old[c]
          BY DEF Without, Restrict
        <5>3. QED
          BY <3>1, <5>1, <5>2
      <4>2. QED
        BY <1>7, <2>1, <4>1
    <3>3. CASE b \in DOMAIN cache.pending
      <4>1. /\ b \in 1..Len(requests) /\ requests[b].command = "setBreakpoints"
            /\ requests[b].arg = cache.pending[b]
        BY <2>1, <3>3 DEF ConfirmedInv, PendingNamed
      <4>2. PICK e \in EmissionRecords : e = Emission("response", b, command, success, own)
        BY EmissionType
      <4>3. e.type = "response" /\ e.success /\ e.request_seq = b /\ (e.own => b = 1)
        BY <1>12, <2>3, <4>2 DEF Emission, AnswerOf
      <4>4. Len(emitted') \in 1..Len(emitted') /\ emitted'[Len(emitted')] = e
        BY <1>1, <2>1, <4>2, AppendEmission
      <4>5. ConfirmedNext(cache'.breakpoints)
        BY <2>1, <3>1, <3>3, <4>1, <4>3, <4>4 DEF ConfirmedNext
      <4>6. QED
        BY <1>6, <2>1, <3>2, <4>5
    <3>4. CASE b \notin DOMAIN cache.pending
      BY <1>3, <1>6, <2>1, <3>1, <3>2, <3>4
    <3>5. QED
      BY <3>3, <3>4
  <2>4. QED
    BY <2>2, <2>3
<1>13. QED
  BY <1>8, <1>9, <1>10, <1>11, <1>12, StepKinds

\* A snapshot shows the payload of a setBreakpoints that the adapter answered with success,
\* or that was request 1 when the bridge's own disconnect, numbered 1 as well, succeeded
\* (LateJoinCache, observed on both paths).
THEOREM SnapshotsConfirmed == Spec => []SnapshotConfirmed
<1>1. Init => ConfirmedInv
  BY EmptyMapType, SMTT(40) DEF Init, ConfirmedInv, PendingNamed, Confirmed, EmptyCache
<1>2. ConfirmedInv => SnapshotConfirmed
  <2> SUFFICES ASSUME ConfirmedInv, NEW id \in ClientIds, NEW k \in 1..Len(inbox[id]), NEW body,
                      body = inbox[id][k].body, inbox[id][k].type = "snapshot", body # NoArg
               PROVE  \E b \in 1..Len(requests) :
                        /\ requests[b].command = "setBreakpoints" /\ requests[b].arg = body
                        /\ AdapterConfirmed(b) \/ (b = 1 /\ DisconnectSucceeded)
    BY DEF SnapshotConfirmed
  <2>1. PICK o \in 1..Len(emitted) :
          /\ emitted[o].type = "response" /\ emitted[o].success
          /\ emitted[o].own => emitted[o].request_seq = 1
          /\ emitted[o].request_seq \in 1..Len(requests)
          /\ requests[emitted[o].request_seq].command = "setBreakpoints"
          /\ requests[emitted[o].request_seq].arg = body
    BY DEF ConfirmedInv, Confirmed
  <2>2. CASE emitted[o].own
    BY <2>1, <2>2 DEF DisconnectSucceeded
  <2>3. CASE ~emitted[o].own
    BY <2>1, <2>3 DEF AdapterConfirmed
  <2>4. QED
    BY <2>1, <2>2, <2>3
<1>3. TableInv /\ ConfirmedInv /\ [Next]_vars => ConfirmedInv'
  BY NextConfirmed
<1>4. QED
  BY <1>1, <1>2, <1>3, TablesInvariant, PTL DEF Spec

-----------------------------------------------------------------------------
(* Answers *)

\* What was in an inbox stays there; nobody who was not reachable becomes so, but a
\* client that attaches; and a loop that ended stays ended.
Keeps ==
  /\ \A id \in 1..next_client_id :
       /\ id \in Reachable' => id \in Reachable
       /\ \A k \in 1..Len(inbox[id]) : k \in 1..Len(inbox'[id]) /\ inbox'[id][k] = inbox[id][k]
  /\ loop' = "running" => loop = "running"

LEMMA InboxesKept ==
  ASSUME TableInv, [Next]_vars PROVE Keeps
<1>1. TypeOK /\ next_client_id \in Nat /\ 1..next_client_id \subseteq ClientIds
  BY ClientsAreIds DEF TableInv
<1>2. ASSUME NEW m, Sends(m) PROVE Keeps
  <2>1. \A id \in ClientIds :
          /\ Len(inbox[id]) \in Nat /\ Len(inbox'[id]) \in Nat /\ Len(inbox[id]) <= Len(inbox'[id])
          /\ \A k \in 1..Len(inbox[id]) : inbox'[id][k] = inbox[id][k]
    <3>1. TAKE id \in ClientIds
    <3>2. Len(inbox'[id]) = Len(inbox[id]) \/ Len(inbox'[id]) = Len(inbox[id]) + 1
      BY <1>1, <1>2, InboxGrows
    <3>3. QED
      BY <1>1, <1>2, <3>2, InboxGrows
  <2>2. \A id \in ClientIds : \A k \in 1..Len(inbox[id]) : k \in 1..Len(inbox'[id])
    BY <2>1
  <2>3. Reachable' = Reachable /\ loop = "running"
    BY <1>2 DEF Sends, Reachable
  <2>4. QED
    BY <1>1, <2>1, <2>2, <2>3 DEF Keeps
<1>3. CASE Quiet
  BY <1>3 DEF Quiet, Keeps
<1>4. ASSUME NEW new, Joins(new) PROVE Keeps
  <2>1. /\ new = next_client_id + 1 /\ loop = "running"
        /\ \A id \in ClientIds \ {new} : inbox'[id] = inbox[id]
        /\ Reachable' \subseteq Reachable \cup {new}
    BY <1>4 DEF Joins
  <2>2. \A id \in 1..next_client_id : id # new
    BY <1>1, <2>1
  <2>3. QED
    BY <1>1, <2>1, <2>2 DEF Keeps
<1>5. QED
  BY <1>2, <1>3, <1>4, StepKinds DEF SendsSnapshot, SendsEvent, SendsResponse

IsLiveResponse(m) == m.type = "response" /\ m.live

\* The adapter's message o is the first response under its number.
FirstResponse(o) ==
  /\ emitted[o].type = "response"
  /\ \A p \in 1..(o - 1) :
       emitted[p].type = "response" => emitted[p].request_seq # emitted[o].request_seq

\* If it is, and the client that asked is listening, that client has it.
Answered(o) ==
  (/\ FirstResponse(o) /\ emitted[o].request_seq \in 1..Len(requests)
   /\ requests[emitted[o].request_seq].from \in Reachable) =>
    \E k \in 1..Len(inbox[requests[emitted[o].request_seq].from]) :
      LET m == inbox[requests[emitted[o].request_seq].from][k]
      IN  IsLiveResponse(m) /\ m.origin = o

\* A request's answer names a request; the disconnect's comes when none is forwarded any more.
AnswersNamed ==
  \A o \in 1..Len(emitted) :
    emitted[o].type = "response" =>
      IF emitted[o].own THEN ~to_upstream_open ELSE emitted[o].request_seq \in 1..Len(requests)

\* Neither source answers under one number twice.
OncePerSource ==
  \A o, p \in 1..Len(emitted) :
    (/\ emitted[o].type = "response" /\ emitted[p].type = "response"
     /\ emitted[o].request_seq = emitted[p].request_seq
     /\ emitted[o].own <=> emitted[p].own) => o = p

NoAnswerTwice ==
  \A id \in ClientIds : \A j, k \in 1..Len(inbox[id]) :
    (IsLiveResponse(inbox[id][j]) /\ IsLiveResponse(inbox[id][k])
     /\ inbox[id][j].origin = inbox[id][k].origin) => j = k

\* What was delivered was the first under its number.
OnlyFirst ==
  \A id \in ClientIds : \A k \in 1..Len(inbox[id]) :
    IsLiveResponse(inbox[id][k]) => FirstResponse(inbox[id][k].origin)

DeliveredInv ==
  /\ AnswersNamed
  /\ OncePerSource
  /\ NoAnswerTwice
  /\ OnlyFirst
  /\ loop = "running" => \A o \in 1..Len(emitted) : Answered(o)

\* When the channel to the adapter is closed it stays so, and nothing more is forwarded.
LEMMA ClosedForGood ==
  ASSUME [Next]_vars, ~to_upstream_open PROVE ~to_upstream_open' /\ requests' = requests
<1>1. ASSUME NEW id \in ClientIds, NEW request \in Requests(id), ClientSend(id, request)
      PROVE  ~to_upstream_open' /\ requests' = requests
  BY <1>1 DEF ClientSend, AnswerSnapshot, ForwardEditor, ForwardSecondary, SendUpstream
<1>2. ASSUME NEW b, NEW command, NEW success, NEW own, HandleResponse(b, command, success, own)
      PROVE  ~to_upstream_open' /\ requests' = requests
  BY <1>2 DEF HandleResponse
<1>3. CASE \/ \E r \in Roles : Attach(r)
           \/ \E id \in ClientIds : DropReceiver(id) \/ Detach(id)
           \/ \E event \in Events : UpstreamEvent(event)
           \/ CloseToUpstream
           \/ UpstreamEof
           \/ UNCHANGED vars
  <2>1. ASSUME NEW r \in Roles, Attach(r) PROVE ~to_upstream_open' /\ requests' = requests
    BY <2>1 DEF Attach
  <2>2. ASSUME NEW event \in Events, UpstreamEvent(event)
        PROVE  ~to_upstream_open' /\ requests' = requests
    BY <2>2 DEF UpstreamEvent
  <2>3. QED
    BY <1>3, <2>1, <2>2 DEF vars, DropReceiver, Detach, CloseToUpstream, UpstreamEof
<1>4. QED
  BY <1>1, <1>2, <1>3 DEF Next, UpstreamResponse, DisconnectAnswered

\* Being the first under a number does not depend on what comes later.
LEMMA StaysFirst ==
  ASSUME Extends, Len(emitted) \in Nat, NEW o \in 1..Len(emitted)
  PROVE  FirstResponse(o)' <=> FirstResponse(o)
<1>1. \A p \in 1..o : emitted'[p] = emitted[p]
  BY DEF Extends
<1>2. o \in 1..o /\ \A p \in 1..(o - 1) : p \in 1..o
  OBVIOUS
<1>3. QED
  BY <1>1, <1>2 DEF FirstResponse

\* An answer that was delivered remains so.
LEMMA StaysAnswered ==
  ASSUME TableInv, [Next]_vars, AnswersNamed, NEW o \in 1..Len(emitted), Answered(o)
  PROVE  Answered(o)'
<1>1. /\ TypeOK /\ Bookkeeping /\ Extends /\ Keeps
      /\ Len(requests) \in Nat /\ Len(emitted) \in Nat
      /\ Len(requests') \in Nat /\ Len(emitted') \in Nat
  BY HistoriesExtend, InboxesKept, TypeFacts DEF TableInv
<1>2. emitted'[o] = emitted[o]
  BY <1>1 DEF Extends
<1>3. SUFFICES ASSUME FirstResponse(o)', emitted'[o].request_seq \in 1..Len(requests'),
                      requests'[emitted'[o].request_seq].from \in Reachable'
               PROVE  \E k \in 1..Len(inbox'[requests'[emitted'[o].request_seq].from]) :
                        LET m == inbox'[requests'[emitted'[o].request_seq].from][k]
                        IN  IsLiveResponse(m) /\ m.origin = o
  BY DEF Answered, IsLiveResponse
<1>4. FirstResponse(o)
  BY <1>1, <1>3, StaysFirst
<1>5. emitted[o].request_seq \in 1..Len(requests)
  <2>1. CASE emitted[o].own
    <3>1. requests' = requests
      BY <1>4, <2>1, ClosedForGood DEF AnswersNamed, FirstResponse
    <3>2. QED
      BY <1>2, <1>3, <3>1
  <2>2. CASE ~emitted[o].own
    BY <1>4, <2>2 DEF AnswersNamed, FirstResponse
  <2>3. QED
    BY <2>1, <2>2
<1>6. PICK b \in 1..Len(requests) : b = emitted[o].request_seq
  BY <1>5
<1>7. PICK from \in 1..next_client_id : from = requests[b].from
  BY <1>1 DEF Bookkeeping
<1>8. emitted'[o].request_seq = b /\ requests'[b] = requests[b]
  BY <1>1, <1>2, <1>6 DEF Extends
<1>9. from \in Reachable
  BY <1>1, <1>3, <1>7, <1>8 DEF Keeps
<1>10. PICK k \in 1..Len(inbox[from]) : IsLiveResponse(inbox[from][k]) /\ inbox[from][k].origin = o
  BY <1>4, <1>6, <1>7, <1>9 DEF Answered
<1>11. k \in 1..Len(inbox'[from]) /\ inbox'[from][k] = inbox[from][k]
  BY <1>1 DEF Keeps
<1>12. QED
  BY <1>7, <1>8, <1>10, <1>11

\* A message sent is no copy of an answer that was sent before.
LEMMA SendOnce ==
  ASSUME TypeOK, RoutedInv, NoAnswerTwice, NEW m, Sends(m),
         m.type = "response" => m.origin = Len(emitted) + 1
  PROVE  NoAnswerTwice'
<1> SUFFICES ASSUME NEW id \in ClientIds, NEW j \in 1..Len(inbox'[id]), NEW k \in 1..Len(inbox'[id]),
                    IsLiveResponse(inbox'[id][j]), IsLiveResponse(inbox'[id][k]),
                    inbox'[id][j].origin = inbox'[id][k].origin
             PROVE  j = k
  BY DEF NoAnswerTwice, IsLiveResponse
<1>1. Len(inbox[id]) \in Nat /\ Len(emitted) \in Nat
  BY InboxGrows, TypeFacts
<1>2. \A i \in 1..Len(inbox[id]) : inbox'[id][i] = inbox[id][i]
  BY InboxGrows
<1>3. CASE inbox'[id] = inbox[id]
  BY <1>3 DEF NoAnswerTwice
<1>4. CASE Appends(id, m)
  <2>1. Len(inbox'[id]) = Len(inbox[id]) + 1 /\ inbox'[id][Len(inbox[id]) + 1] = m
    BY <1>4, InboxGrows
  <2>2. \A i \in 1..Len(inbox'[id]) : i \in 1..Len(inbox[id]) \/ i = Len(inbox[id]) + 1
    BY <1>1, <2>1
  <2>3. \A i \in 1..Len(inbox[id]) :
          IsLiveResponse(inbox'[id][i]) => inbox'[id][i].origin \in 1..Len(emitted)
    BY <1>2 DEF RoutedInv, Answers, IsLiveResponse
  <2>4. CASE m.type = "response"
    <3>1. m.origin \notin 1..Len(emitted)
      BY <1>1, <2>4
    <3>2. CASE j \in 1..Len(inbox[id]) /\ k \in 1..Len(inbox[id])
      BY <1>2, <3>2 DEF NoAnswerTwice
    <3>3. QED
      BY <2>1, <2>2, <2>3, <3>1, <3>2
  <2>5. CASE m.type # "response"
    <3>1. j \in 1..Len(inbox[id]) /\ k \in 1..Len(inbox[id])
      BY <2>1, <2>2, <2>5 DEF IsLiveResponse
    <3>2. QED
      BY <1>2, <3>1 DEF NoAnswerTwice
  <2>6. QED
    BY <2>4, <2>5
<1>5. QED
  BY <1>3, <1>4 DEF Sends

\* Only first responses are delivered, so a step has to show it for what it sends.
LEMMA SendFirst ==
  ASSUME TypeOK, RoutedInv, OnlyFirst, Extends, NEW m, Sends(m),
         \A id \in ClientIds :
           (m.type = "response" /\ inbox'[id] # inbox[id]) => FirstResponse(m.origin)'
  PROVE  OnlyFirst'
<1> SUFFICES ASSUME NEW id \in ClientIds, NEW k \in 1..Len(inbox'[id]),
                    IsLiveResponse(inbox'[id][k])
             PROVE  FirstResponse(inbox[id][k].origin)'
  BY DEF OnlyFirst, IsLiveResponse, FirstResponse
<1>1. Len(inbox[id]) \in Nat /\ Len(emitted) \in Nat
  BY InboxGrows, TypeFacts
<1>2. CASE k \in 1..Len(inbox[id])
  <2>1. PICK r : r = inbox[id][k] /\ inbox'[id][k] = r
    BY <1>2, InboxGrows
  <2>2. IsLiveResponse(r) /\ r.origin \in 1..Len(emitted) /\ FirstResponse(r.origin)
    BY <1>2, <2>1 DEF RoutedInv, Answers, OnlyFirst, IsLiveResponse
  <2>3. PICK o \in 1..Len(emitted) : o = r.origin
    BY <2>2
  <2>4. FirstResponse(o)'
    BY <1>1, <2>2, <2>3, StaysFirst
  <2>5. QED
    BY <2>1, <2>3, <2>4 DEF FirstResponse
<1>3. CASE k \notin 1..Len(inbox[id])
  <2>1. Appends(id, m) /\ k = Len(inbox[id]) + 1 /\ inbox'[id] # inbox[id]
    BY <1>1, <1>3, InboxGrows
  <2>2. inbox'[id][k] = m
    BY <2>1, InboxGrows
  <2>3. m.type = "response" /\ FirstResponse(m.origin)'
    BY <2>1, <2>2 DEF IsLiveResponse
  <2>4. QED
    BY <2>2, <2>3 DEF FirstResponse
<1>4. QED
  BY <1>2, <1>3

LEMMA NextDelivered ==
  ASSUME TableInv, RoutedInv, DeliveredInv, [Next]_vars PROVE DeliveredInv'
<1>1. /\ TypeOK /\ Bookkeeping /\ Extends /\ Keeps
      /\ Len(requests) \in Nat /\ Len(emitted) \in Nat
      /\ Len(requests') \in Nat /\ Len(emitted') \in Nat
      /\ emitted \in Seq(EmissionRecords)
  BY HistoriesExtend, InboxesKept, TypeFacts DEF TableInv
<1>2. loop' = "running" => \A o \in 1..Len(emitted) : Answered(o)'
  <2>1. ASSUME loop' = "running", NEW o \in 1..Len(emitted) PROVE Answered(o)'
    <3>1. AnswersNamed /\ Answered(o)
      BY <1>1, <2>1 DEF DeliveredInv, Keeps
    <3>2. QED
      BY <3>1, StaysAnswered
  <2>2. QED
    BY <2>1
<1>3. \A o \in 1..Len(emitted) :
        emitted'[o].type = "response" =>
          IF emitted'[o].own THEN ~to_upstream_open' ELSE emitted'[o].request_seq \in 1..Len(requests')
  <2>1. TAKE o \in 1..Len(emitted)
  <2>2. emitted'[o] = emitted[o]
    BY <1>1 DEF Extends
  <2>3. CASE emitted[o].own
    BY <2>2, <2>3, ClosedForGood DEF DeliveredInv, AnswersNamed
  <2>4. CASE ~emitted[o].own
    BY <1>1, <2>2, <2>4 DEF DeliveredInv, AnswersNamed, Extends
  <2>5. QED
    BY <2>3, <2>4
<1>4. ASSUME Len(emitted') = Len(emitted) PROVE AnswersNamed' /\ OncePerSource'
  <2>1. AnswersNamed'
    BY <1>3, <1>4 DEF AnswersNamed
  <2>2. \A o \in 1..Len(emitted) : emitted'[o] = emitted[o]
    BY <1>1 DEF Extends
  <2>3. QED
    BY <1>4, <2>1, <2>2 DEF DeliveredInv, OncePerSource
<1>5. ASSUME Len(emitted') = Len(emitted), NoAnswerTwice', OnlyFirst' PROVE DeliveredInv'
  <2>1. 1..Len(emitted') = 1..Len(emitted)
    BY <1>5
  <2>2. loop' = "running" => \A o \in 1..Len(emitted') : Answered(o)'
    BY <1>2, <2>1
  <2>3. QED
    BY <1>4, <1>5, <2>2 DEF DeliveredInv
<1>6. CASE Quiet
  <2>1. NoAnswerTwice' /\ OnlyFirst'
    BY <1>6 DEF Quiet, DeliveredInv, NoAnswerTwice, OnlyFirst, FirstResponse
  <2>2. QED
    BY <1>5, <1>6, <2>1 DEF Quiet
<1>7. ASSUME NEW new, Joins(new) PROVE DeliveredInv'
  <2>1. /\ emitted' = emitted /\ inbox'[new] = Replay /\ new \in ClientIds
        /\ \A id \in ClientIds \ {new} : inbox'[id] = inbox[id]
    BY <1>7 DEF Joins
  <2>2. \A k \in 1..Len(Replay) : ~IsLiveResponse(Replay[k])
    BY <1>1, ReplayType DEF IsLiveResponse
  <2>3. ASSUME NEW id \in ClientIds, NEW j \in 1..Len(inbox'[id]), NEW k \in 1..Len(inbox'[id]),
               IsLiveResponse(inbox'[id][j]), IsLiveResponse(inbox'[id][k]),
               inbox'[id][j].origin = inbox'[id][k].origin
        PROVE  j = k
    BY <2>1, <2>2, <2>3 DEF DeliveredInv, NoAnswerTwice
  <2>4. NoAnswerTwice'
    BY <2>3 DEF NoAnswerTwice, IsLiveResponse
  <2>5. ASSUME NEW id \in ClientIds, NEW k \in 1..Len(inbox'[id]), IsLiveResponse(inbox'[id][k])
        PROVE  FirstResponse(inbox'[id][k].origin)
    BY <2>1, <2>2, <2>5 DEF DeliveredInv, OnlyFirst
  <2>6. OnlyFirst'
    BY <2>1, <2>5 DEF OnlyFirst, IsLiveResponse, FirstResponse
  <2>7. QED
    BY <1>5, <2>1, <2>4, <2>6
<1>8. ASSUME NEW m, SendsSnapshot(m) PROVE DeliveredInv'
  <2>1. NoAnswerTwice' /\ OnlyFirst'
    BY <1>1, <1>8, SendOnce, SendFirst DEF SendsSnapshot, DeliveredInv
  <2>2. QED
    BY <1>5, <1>8, <2>1 DEF SendsSnapshot
<1>9. ASSUME NEW n \in Nat, n = Len(emitted) + 1, NEW e \in EmissionRecords, emitted' = Append(emitted, e),
             NoAnswerTwice', OnlyFirst',
             e.type = "response" =>
               IF e.own THEN ~to_upstream_open ELSE e.request_seq \in 1..Len(requests'),
             e.type = "response" =>
               \A o \in 1..Len(emitted) :
                 ~(emitted[o].type = "response" /\ emitted[o].request_seq = e.request_seq
                   /\ (emitted[o].own <=> e.own)),
             loop' = "running" => Answered(n)'
      PROVE  DeliveredInv'
  <2>1. Len(emitted') = Len(emitted) + 1 /\ emitted'[n] = e
    BY <1>1, <1>9, AppendEmission
  <2>2. \A o \in 1..Len(emitted') : o \in 1..Len(emitted) \/ o = n
    BY <1>1, <1>9, <2>1
  <2>3. AnswersNamed'
    <3>1. e.own => (e.type = "response" => ~to_upstream_open')
      BY <1>9, ClosedForGood
    <3>2. QED
      BY <1>3, <1>9, <2>1, <2>2, <3>1 DEF AnswersNamed
  <2>4. \A o \in 1..Len(emitted) : emitted'[o] = emitted[o]
    BY <1>1 DEF Extends
  <2>5. OncePerSource'
    <3> SUFFICES ASSUME NEW o \in 1..Len(emitted'), NEW p \in 1..Len(emitted'),
                        emitted'[o].type = "response", emitted'[p].type = "response",
                        emitted'[o].request_seq = emitted'[p].request_seq,
                        emitted'[o].own <=> emitted'[p].own
                 PROVE  o = p
      BY DEF OncePerSource
    <3>1. CASE o \in 1..Len(emitted) /\ p \in 1..Len(emitted)
      BY <2>4, <3>1 DEF DeliveredInv, OncePerSource
    <3>2. CASE o = n /\ p \in 1..Len(emitted)
      BY <1>9, <2>1, <2>4, <3>2
    <3>3. CASE o \in 1..Len(emitted) /\ p = n
      BY <1>9, <2>1, <2>4, <3>3
    <3>4. QED
      BY <2>2, <3>1, <3>2, <3>3
  <2>6. loop' = "running" => \A o \in 1..Len(emitted') : Answered(o)'
    BY <1>2, <1>9, <2>2, Zenon
  <2>7. QED
    BY <1>9, <2>3, <2>5, <2>6 DEF DeliveredInv
<1>10. ASSUME NEW m, NEW event \in Events, SendsEvent(m, event) PROVE DeliveredInv'
  <2>1. PICK e \in EmissionRecords : e = Emission("event", 0, event, TRUE, FALSE)
    BY EmissionType
  <2>2. e.type = "event"
    BY <2>1 DEF Emission
  <2>3. emitted' = Append(emitted, e) /\ m.type = "event" /\ Sends(m)
    BY <1>10, <2>1 DEF SendsEvent
  <2>4. PICK n \in Nat : n = Len(emitted) + 1
    BY <1>1
  <2>5. emitted'[n] = e
    BY <1>1, <2>3, <2>4, AppendEmission
  <2>6. Answered(n)'
    BY <2>2, <2>5 DEF Answered, FirstResponse
  <2>7. NoAnswerTwice' /\ OnlyFirst'
    BY <1>1, <2>3, SendOnce, SendFirst DEF DeliveredInv
  <2>8. QED
    BY <1>9, <2>2, <2>3, <2>4, <2>6, <2>7
<1>11. ASSUME NEW m, NEW b \in Nat, NEW command \in Commands \cup {"disconnect"},
              NEW success \in BOOLEAN, NEW own \in BOOLEAN,
              SendsResponse(m, b, command, success, own), AnswerOf(b, command, own)
       PROVE  DeliveredInv'
  <2>1. PICK e \in EmissionRecords : e = Emission("response", b, command, success, own)
    BY EmissionType
  <2>2. e.type = "response" /\ e.request_seq = b /\ e.own = own
    BY <2>1 DEF Emission
  <2>3. PICK n \in Nat : n = Len(emitted) + 1
    BY <1>1
  <2>4. /\ emitted' = Append(emitted, e) /\ m.type = "response" /\ m.origin = n /\ m.live /\ Sends(m)
        /\ requests' = requests /\ Reachable' = Reachable /\ loop = "running"
        /\ \A id \in ClientIds : inbox'[id] # inbox[id] => b \in InFlight
        /\ (loop' = "running" /\ b \in InFlight /\ requests[b].from \in Reachable)
             => Appends(requests[b].from, m)
    BY <1>11, <2>1, <2>3 DEF SendsResponse, Sends, Reachable
  <2>5. emitted'[n] = e /\ \A o \in 1..Len(emitted) : emitted'[o] = emitted[o]
    BY <1>1, <2>3, <2>4, AppendEmission
  <2>6. IF own THEN ~to_upstream_open ELSE b \in 1..Len(requests')
    BY <1>11, <2>4 DEF AnswerOf
  <2>7. \A o \in 1..Len(emitted) :
          ~(emitted[o].type = "response" /\ emitted[o].request_seq = b /\ (emitted[o].own <=> own))
    BY <1>11 DEF AnswerOf
  <2>8. FirstResponse(n)' <=> \A p \in 1..Len(emitted) :
                                emitted[p].type = "response" => emitted[p].request_seq # b
    <3>1. \A p : p \in 1..(n - 1) <=> p \in 1..Len(emitted)
      BY <1>1, <2>3
    <3>2. QED
      BY <2>2, <2>5, <3>1 DEF FirstResponse
  <2>9. ASSUME loop' = "running", FirstResponse(n)', b \in 1..Len(requests'),
               requests'[b].from \in Reachable'
        PROVE  \E k \in 1..Len(inbox'[requests'[b].from]) :
                 LET r == inbox'[requests'[b].from][k] IN IsLiveResponse(r) /\ r.origin = n
    <3>1. b \in InFlight
      BY <2>4, <2>8, <2>9 DEF InFlight
    <3>2. PICK from \in 1..next_client_id : from = requests[b].from
      BY <1>1, <3>1 DEF InFlight, Bookkeeping
    <3>3. from \in ClientIds /\ Appends(from, m)
      BY <1>1, <2>4, <2>9, <3>1, <3>2, ClientsAreIds
    <3>4. /\ Len(inbox[from]) \in Nat /\ Len(inbox'[from]) = Len(inbox[from]) + 1
          /\ inbox'[from][Len(inbox[from]) + 1] = m
      BY <1>1, <2>4, <3>3, InboxGrows
    <3>5. Len(inbox[from]) + 1 \in 1..Len(inbox'[from])
      BY <3>4
    <3>6. QED
      BY <2>4, <3>2, <3>4, <3>5 DEF IsLiveResponse
  <2>10. loop' = "running" => Answered(n)'
    BY <2>2, <2>5, <2>9 DEF Answered, IsLiveResponse
  <2>11. NoAnswerTwice'
    BY <1>1, <2>3, <2>4, SendOnce DEF DeliveredInv
  <2>12. b \in InFlight => FirstResponse(m.origin)'
    <3>1. b \in InFlight => FirstResponse(n)'
      BY <2>8 DEF InFlight
    <3>2. QED
      BY <2>4, <3>1 DEF FirstResponse
  <2>13. OnlyFirst'
    BY <1>1, <2>4, <2>12, SendFirst DEF DeliveredInv
  <2>14. QED
    BY <1>9, <2>2, <2>3, <2>4, <2>6, <2>7, <2>10, <2>11, <2>13
<1>12. QED
  BY <1>6, <1>7, <1>8, <1>10, <1>11, StepKinds

\* A client that is attached and listening has each response under the number of one of
\* its requests exactly once, but for the later of two that share a number, request 1's and
\* the bridge's own disconnect's, which nobody gets (Route, whichever table the request
\* waits in).
THEOREM AnswersDelivered == Spec => []AnswersDeliveredOnce
<1>1. Init => RoutedInv /\ DeliveredInv
  BY DEF Init, RoutedInv, DeliveredInv, AnswersNamed, OncePerSource, NoAnswerTwice, OnlyFirst
<1>2. TableInv /\ RoutedInv /\ DeliveredInv => AnswersDeliveredOnce
  <2> SUFFICES ASSUME TableInv, RoutedInv, DeliveredInv, loop = "running",
                      NEW o \in 1..Len(emitted), NEW b \in 1..Len(requests), b = emitted[o].request_seq,
                      emitted[o].type = "response", requests[b].from \in Reachable
               PROVE  Cardinality({k \in LiveResponses(requests[b].from) :
                                     inbox[requests[b].from][k].origin = o})
                        = IF NumberTaken(o) THEN 0 ELSE 1
    BY DEF AnswersDeliveredOnce
  <2>1. PICK from \in 1..next_client_id : from = requests[b].from
    BY DEF TableInv, Bookkeeping
  <2>2. from \in ClientIds
    BY <2>1, ClientsAreIds DEF TableInv
  <2>3. CASE NumberTaken(o)
    <3>1. ~FirstResponse(o)
      BY <2>3 DEF NumberTaken, FirstResponse
    <3>2. {k \in LiveResponses(from) : inbox[from][k].origin = o} = {}
      BY <2>2, <3>1 DEF DeliveredInv, OnlyFirst, LiveResponses, IsLiveResponse
    <3>3. QED
      BY <2>1, <2>3, <3>2, FS_EmptySet
  <2>4. CASE ~NumberTaken(o)
    <3>1. FirstResponse(o)
      <4>1. ASSUME NEW p \in 1..(o - 1), emitted[p].type = "response", emitted[p].request_seq = b
            PROVE  FALSE
        <5>1. p \in 1..Len(emitted) /\ p # o
          BY TypeFacts DEF TableInv
        <5>2. emitted[p].own = emitted[o].own
          BY <2>4, <4>1 DEF NumberTaken
        <5>3. QED
          BY <4>1, <5>1, <5>2 DEF DeliveredInv, OncePerSource
      <4>2. QED
        BY <4>1 DEF FirstResponse
    <3>2. PICK k \in 1..Len(inbox[from]) : IsLiveResponse(inbox[from][k]) /\ inbox[from][k].origin = o
      BY <2>1, <3>1 DEF DeliveredInv, Answered
    <3>3. \A j \in LiveResponses(from) : inbox[from][j].origin = o => j = k
      BY <2>2, <3>2 DEF DeliveredInv, NoAnswerTwice, LiveResponses, IsLiveResponse
    <3>4. {j \in LiveResponses(from) : inbox[from][j].origin = o} = {k}
      BY <3>2, <3>3 DEF LiveResponses, IsLiveResponse
    <3>5. Cardinality({k}) = 1
      BY FS_Singleton
    <3>6. QED
      BY <2>1, <2>4, <3>4, <3>5
  <2>5. QED
    BY <2>3, <2>4
<1>3. TableInv /\ RoutedInv /\ DeliveredInv /\ [Next]_vars => RoutedInv' /\ DeliveredInv'
  BY NextRouted, NextDelivered
<1>4. QED
  BY <1>1, <1>2, <1>3, TablesInvariant, PTL DEF Spec

-----------------------------------------------------------------------------
(* Events *)

IsLiveEvent(m) == m.type = "event" /\ m.live

\* The live events of an inbox are those of the set since, in order and without a gap.
Ordered(box, since) ==
  \A k \in 1..Len(box) : IsLiveEvent(box[k]) =>
    /\ box[k].origin \in since
    /\ \A j \in 1..Len(box) : (j < k /\ IsLiveEvent(box[j])) => box[j].origin < box[k].origin
    /\ \A o \in since : o < box[k].origin =>
         \E j \in 1..Len(box) : j < k /\ IsLiveEvent(box[j]) /\ box[j].origin = o

\* None of the set is missing.
Complete(box, since) ==
  \A o \in since : \E k \in 1..Len(box) : IsLiveEvent(box[k]) /\ box[k].origin = o

\* An event that nobody sends to this client comes after all it has.
LEMMA OrderedStays ==
  ASSUME NEW box, NEW since \in SUBSET Nat, Ordered(box, since),
         NEW n \in Nat, \A o \in since : o < n
  PROVE  Ordered(box, since \cup {n})
<1> SUFFICES ASSUME NEW k \in 1..Len(box), IsLiveEvent(box[k])
             PROVE  /\ box[k].origin \in since \cup {n}
                    /\ \A j \in 1..Len(box) : (j < k /\ IsLiveEvent(box[j])) => box[j].origin < box[k].origin
                    /\ \A o \in since \cup {n} : o < box[k].origin =>
                         \E j \in 1..Len(box) : j < k /\ IsLiveEvent(box[j]) /\ box[j].origin = o
  BY DEF Ordered
<1>1. /\ box[k].origin \in since
      /\ \A j \in 1..Len(box) : (j < k /\ IsLiveEvent(box[j])) => box[j].origin < box[k].origin
      /\ \A o \in since : o < box[k].origin =>
           \E j \in 1..Len(box) : j < k /\ IsLiveEvent(box[j]) /\ box[j].origin = o
  BY DEF Ordered
<1>2. PICK q \in since : q = box[k].origin
  BY <1>1
<1>3. q \in Nat /\ q < n
  OBVIOUS
<1>4. \A o \in since \cup {n} : o < q => o \in since
  BY <1>3
<1>5. QED
  BY <1>1, <1>2, <1>4

\* A message that is no live event changes neither.
LEMMA OrderedOther ==
  ASSUME NEW box \in Seq(Outbounds), NEW m \in Outbounds, ~IsLiveEvent(m), NEW since
  PROVE  /\ Ordered(box, since) => Ordered(Append(box, m), since)
         /\ Complete(box, since) => Complete(Append(box, m), since)
<1>1. PICK new : new = Append(box, m)
  OBVIOUS
<1>2. /\ Len(box) \in Nat /\ Len(new) = Len(box) + 1 /\ new[Len(box) + 1] = m
      /\ \A k \in 1..Len(box) : new[k] = box[k]
  BY <1>1, AppendProperties
<1>3. \A k \in 1..Len(new) : IsLiveEvent(new[k]) => k \in 1..Len(box) /\ new[k] = box[k]
  <2>1. \A k \in 1..Len(new) : k \in 1..Len(box) \/ k = Len(box) + 1
    BY <1>2
  <2>2. QED
    BY <1>2, <2>1
<1>4. \A k \in 1..Len(box) : k \in 1..Len(new) /\ new[k] = box[k]
  BY <1>2
<1>5. Ordered(box, since) => Ordered(new, since)
  <2> SUFFICES ASSUME Ordered(box, since), NEW k \in 1..Len(new), IsLiveEvent(new[k])
               PROVE  /\ new[k].origin \in since
                      /\ \A j \in 1..Len(new) : (j < k /\ IsLiveEvent(new[j])) => new[j].origin < new[k].origin
                      /\ \A o \in since : o < new[k].origin =>
                           \E j \in 1..Len(new) : j < k /\ IsLiveEvent(new[j]) /\ new[j].origin = o
    BY DEF Ordered
  <2>1. k \in 1..Len(box) /\ new[k] = box[k]
    BY <1>3
  <2>2. /\ box[k].origin \in since
        /\ \A j \in 1..Len(box) : (j < k /\ IsLiveEvent(box[j])) => box[j].origin < box[k].origin
        /\ \A o \in since : o < box[k].origin =>
             \E j \in 1..Len(box) : j < k /\ IsLiveEvent(box[j]) /\ box[j].origin = o
    BY <2>1 DEF Ordered
  <2>3. QED
    BY <1>3, <1>4, <2>1, <2>2
<1>6. Complete(box, since) => Complete(new, since)
  BY <1>4 DEF Complete
<1>7. QED
  BY <1>1, <1>5, <1>6

\* The next event, appended to an inbox that has all before it.
LEMMA OrderedEvent ==
  ASSUME NEW box \in Seq(Outbounds), NEW m \in Outbounds, IsLiveEvent(m),
         NEW since \in SUBSET Nat, Ordered(box, since), Complete(box, since),
         NEW n \in Nat, m.origin = n, \A o \in since : o < n
  PROVE  /\ Ordered(Append(box, m), since \cup {n})
         /\ Complete(Append(box, m), since \cup {n})
<1>1. PICK new : new = Append(box, m)
  OBVIOUS
<1>2. /\ Len(box) \in Nat /\ Len(new) = Len(box) + 1 /\ new[Len(box) + 1] = m
      /\ \A k \in 1..Len(box) : new[k] = box[k]
  BY <1>1, AppendProperties
<1>3. \A k \in 1..Len(new) : k \in 1..Len(box) \/ k = Len(box) + 1
  BY <1>2
<1>4. \A k \in 1..Len(box) : k \in 1..Len(new) /\ k < Len(box) + 1 /\ new[k] = box[k]
  BY <1>2
<1>5. Len(box) + 1 \in 1..Len(new)
  BY <1>2
<1>6. Complete(new, since \cup {n})
  <2> SUFFICES ASSUME NEW o \in since \cup {n}
               PROVE  \E k \in 1..Len(new) : IsLiveEvent(new[k]) /\ new[k].origin = o
    BY DEF Complete
  <2>1. CASE o \in since
    BY <1>4, <2>1 DEF Complete
  <2>2. CASE o = n
    BY <1>2, <1>5, <2>2
  <2>3. QED
    BY <2>1, <2>2
<1>7. Ordered(new, since \cup {n})
  <2> SUFFICES ASSUME NEW k \in 1..Len(new), IsLiveEvent(new[k])
               PROVE  /\ new[k].origin \in since \cup {n}
                      /\ \A j \in 1..Len(new) : (j < k /\ IsLiveEvent(new[j])) => new[j].origin < new[k].origin
                      /\ \A o \in since \cup {n} : o < new[k].origin =>
                           \E j \in 1..Len(new) : j < k /\ IsLiveEvent(new[j]) /\ new[j].origin = o
    BY DEF Ordered
  <2>1. CASE k \in 1..Len(box)
    <3>1. Ordered(box, since \cup {n}) /\ new[k] = box[k]
      BY <1>4, <2>1, OrderedStays
    <3>2. /\ box[k].origin \in since \cup {n}
          /\ \A j \in 1..Len(box) : (j < k /\ IsLiveEvent(box[j])) => box[j].origin < box[k].origin
          /\ \A o \in since \cup {n} : o < box[k].origin =>
               \E j \in 1..Len(box) : j < k /\ IsLiveEvent(box[j]) /\ box[j].origin = o
      BY <2>1, <3>1 DEF Ordered
    <3>3. \A j \in 1..Len(new) : j < k => j \in 1..Len(box)
      BY <1>2, <2>1
    <3>4. QED
      BY <1>4, <3>1, <3>2, <3>3
  <2>2. CASE k = Len(box) + 1
    <3>1. new[k] = m
      BY <1>2, <2>2
    <3>2. \A j \in 1..Len(new) : j < k => j \in 1..Len(box)
      BY <1>2, <2>2
    <3>3. \A j \in 1..Len(new) : (j < k /\ IsLiveEvent(new[j])) => new[j].origin < n
      BY <1>4, <3>2 DEF Ordered
    <3>4. ASSUME NEW o \in since \cup {n}, o < n
          PROVE  \E j \in 1..Len(new) : j < k /\ IsLiveEvent(new[j]) /\ new[j].origin = o
      <4>1. o \in since
        BY <3>4
      <4>2. PICK j \in 1..Len(box) : IsLiveEvent(box[j]) /\ box[j].origin = o
        BY <4>1 DEF Complete
      <4>3. QED
        BY <1>4, <2>2, <4>2
    <3>5. QED
      BY <3>1, <3>3, <3>4
  <2>3. QED
    BY <1>3, <2>1, <2>2
<1>8. QED
  BY <1>1, <1>6, <1>7

SeesEvents(id) ==
  /\ joined[id] <= Len(emitted)
  /\ Ordered(inbox[id], EventsSince(id))
  /\ (id \in Reachable /\ loop = "running") => Complete(inbox[id], EventsSince(id))

EventsInv == \A id \in 1..next_client_id : SeesEvents(id)

\* The adapter's events since a client attached, after the adapter said one thing more.
LEMMA SinceGrows ==
  ASSUME TypeOK, NEW id \in ClientIds, joined[id] <= Len(emitted), joined'[id] = joined[id],
         NEW e \in EmissionRecords, emitted' = Append(emitted, e)
  PROVE  /\ EventsSince(id) \in SUBSET Nat /\ \A o \in EventsSince(id) : o < Len(emitted) + 1
         /\ EventsSince(id)' = IF e.type = "event" THEN EventsSince(id) \cup {Len(emitted) + 1}
                                                   ELSE EventsSince(id)
<1>1. /\ joined[id] \in Nat /\ emitted \in Seq(EmissionRecords)
  BY TypeFacts, BoundsAssumption, SMTT(30) DEF TypeOK
<1>2. /\ Len(emitted) \in Nat /\ Len(emitted') = Len(emitted) + 1
      /\ emitted'[Len(emitted) + 1] = e
      /\ \A o \in 1..Len(emitted) : emitted'[o] = emitted[o]
  BY <1>1, AppendEmission
<1>3. PICK from \in Nat : from = joined[id] + 1 /\ from >= 1 /\ from <= Len(emitted) + 1
  BY <1>1, <1>2
<1>4. PICK n \in Nat : n = Len(emitted)
  BY <1>2
<1>5. from..(n + 1) = (from..n) \cup {n + 1} /\ \A o \in from..n : o \in 1..n
  BY <1>3, <1>4
<1>6. EventsSince(id) = {o \in from..n : emitted[o].type = "event"}
  BY <1>3, <1>4 DEF EventsSince
<1>7. EventsSince(id)' = {o \in from..(n + 1) : emitted'[o].type = "event"}
  BY <1>2, <1>3, <1>4 DEF EventsSince
<1>8. \A o \in from..n : emitted'[o] = emitted[o]
  BY <1>2, <1>4, <1>5
<1>9. EventsSince(id)' = EventsSince(id) \cup {o \in {n + 1} : e.type = "event"}
  BY <1>2, <1>4, <1>5, <1>6, <1>7, <1>8
<1>10. EventsSince(id) \in SUBSET Nat /\ \A o \in EventsSince(id) : o < n + 1
  BY <1>3, <1>4, <1>6
<1>11. QED
  BY <1>4, <1>9, <1>10

\* A response, or nothing, leaves the set of events as it is.
LEMMA SinceStays ==
  ASSUME NEW id \in ClientIds, joined'[id] = joined[id], emitted' = emitted
  PROVE  EventsSince(id)' = EventsSince(id)
BY DEF EventsSince

LEMMA JoinedType ==
  ASSUME TypeOK, NEW id \in ClientIds PROVE joined[id] \in Nat
<1>1. joined[id] \in 0..MaxUpstream
  BY DEF TypeOK
<1>2. QED
  BY <1>1, BoundsAssumption

LEMMA NextEvents ==
  ASSUME TableInv, EventsInv, [Next]_vars PROVE EventsInv'
<1>1. /\ TypeOK /\ Keeps /\ next_client_id \in Nat /\ 1..next_client_id \subseteq ClientIds
      /\ Len(emitted) \in Nat /\ emitted \in Seq(EmissionRecords)
      /\ inbox \in [ClientIds -> Seq(Outbounds)]
  BY InboxesKept, TypeFacts, ClientsAreIds DEF TableInv, TypeOK
<1>2. \A id \in 1..next_client_id :
        /\ joined[id] <= Len(emitted) /\ Ordered(inbox[id], EventsSince(id))
        /\ (id \in Reachable /\ loop = "running") => Complete(inbox[id], EventsSince(id))
        /\ (id \in Reachable' /\ loop' = "running") => (id \in Reachable /\ loop = "running")
  BY <1>1 DEF EventsInv, SeesEvents, Keeps
<1>3. ASSUME NEW id \in 1..next_client_id, joined'[id] = joined[id], inbox'[id] = inbox[id],
             emitted' = emitted
      PROVE  SeesEvents(id)'
  BY <1>1, <1>2, <1>3, SinceStays DEF SeesEvents
<1>4. ASSUME NEW id \in 1..next_client_id, NEW m, Sends(m), emitted' = emitted, ~IsLiveEvent(m)
      PROVE  SeesEvents(id)'
  <2>1. joined' = joined /\ m \in Outbounds /\ (inbox'[id] = inbox[id] \/ inbox'[id] = Append(inbox[id], m))
    BY <1>1, <1>4 DEF Sends, Appends
  <2>2. EventsSince(id)' = EventsSince(id)
    BY <1>1, <1>4, <2>1, SinceStays
  <2>3. /\ Ordered(inbox[id], EventsSince(id)) => Ordered(inbox'[id], EventsSince(id))
        /\ Complete(inbox[id], EventsSince(id)) => Complete(inbox'[id], EventsSince(id))
    BY <1>1, <1>4, <2>1, OrderedOther
  <2>4. QED
    BY <1>2, <1>4, <2>1, <2>2, <2>3 DEF SeesEvents
<1>5. CASE Quiet
  <2>1. /\ next_client_id' = next_client_id
        /\ joined' = joined /\ inbox' = inbox /\ emitted' = emitted
    BY <1>5 DEF Quiet
  <2>2. QED
    BY <1>3, <2>1 DEF EventsInv
<1>6. ASSUME NEW m, SendsSnapshot(m) PROVE EventsInv'
  <2>1. Sends(m) /\ ~IsLiveEvent(m) /\ emitted' = emitted /\ next_client_id' = next_client_id
    BY <1>6 DEF SendsSnapshot, IsLiveEvent, Sends
  <2>2. QED
    BY <1>4, <2>1 DEF EventsInv
<1>7. ASSUME NEW new, Joins(new) PROVE EventsInv'
  <2>1. /\ new = next_client_id + 1 /\ new \in ClientIds /\ next_client_id' = new /\ emitted' = emitted
        /\ inbox'[new] = Replay /\ joined'[new] = Len(emitted)
        /\ \A id \in ClientIds \ {new} : inbox'[id] = inbox[id] /\ joined'[id] = joined[id]
    BY <1>7 DEF Joins
  <2>2. \A id \in 1..next_client_id' : id = new \/ (id \in 1..next_client_id /\ id \in ClientIds \ {new})
    BY <1>1, <2>1
  <2>3. \A k \in 1..Len(Replay) : ~IsLiveEvent(Replay[k])
    BY <1>1, ReplayType DEF IsLiveEvent
  <2>4. EventsSince(new)' = {}
    <3>1. EventsSince(new)' = {o \in (Len(emitted) + 1)..Len(emitted) : emitted[o].type = "event"}
      BY <2>1 DEF EventsSince
    <3>2. QED
      BY <1>1, <3>1
  <2>5. Ordered(Replay, {}) /\ Complete(Replay, {})
    BY <2>3 DEF Ordered, Complete
  <2>6. SeesEvents(new)'
    <3>1. Ordered(inbox'[new], EventsSince(new)') /\ Complete(inbox'[new], EventsSince(new)')
      BY <2>1, <2>4, <2>5
    <3>2. joined'[new] <= Len(emitted')
      BY <1>1, <2>1
    <3>3. QED
      BY <3>1, <3>2, Zenon DEF SeesEvents
  <2>7. QED
    BY <1>3, <2>1, <2>2, <2>6 DEF EventsInv
<1>8. ASSUME NEW m, NEW b \in Nat, NEW command \in Commands \cup {"disconnect"},
             NEW success \in BOOLEAN, NEW own \in BOOLEAN,
             SendsResponse(m, b, command, success, own), NEW id \in 1..next_client_id
      PROVE  SeesEvents(id)'
  <2>1. PICK e \in EmissionRecords : e = Emission("response", b, command, success, own)
    BY EmissionType
  <2>2. e.type = "response"
    BY <2>1 DEF Emission
  <2>3. /\ Sends(m) /\ ~IsLiveEvent(m) /\ emitted' = Append(emitted, e) /\ joined' = joined
        /\ m \in Outbounds /\ (inbox'[id] = inbox[id] \/ inbox'[id] = Append(inbox[id], m))
    BY <1>1, <1>8, <2>1 DEF SendsResponse, IsLiveEvent, Sends, Appends
  <2>4. EventsSince(id)' = EventsSince(id) /\ Len(emitted') = Len(emitted) + 1
    BY <1>1, <1>2, <2>2, <2>3, SinceGrows, AppendEmission
  <2>5. /\ Ordered(inbox[id], EventsSince(id)) => Ordered(inbox'[id], EventsSince(id))
        /\ Complete(inbox[id], EventsSince(id)) => Complete(inbox'[id], EventsSince(id))
    BY <1>1, <2>3, OrderedOther
  <2>6. joined[id] \in Nat /\ joined[id] <= Len(emitted)
    BY <1>1, <1>2, JoinedType
  <2>7. joined'[id] <= Len(emitted')
    BY <1>1, <2>3, <2>4, <2>6
  <2>8. QED
    BY <1>2, <2>4, <2>5, <2>7 DEF SeesEvents
<1>9. ASSUME NEW m, NEW event \in Events, SendsEvent(m, event), NEW id \in 1..next_client_id
      PROVE  SeesEvents(id)'
  <2>1. PICK e \in EmissionRecords : e = Emission("event", 0, event, TRUE, FALSE)
    BY EmissionType
  <2>2. e.type = "event"
    BY <2>1 DEF Emission
  <2>3. PICK n \in Nat : n = Len(emitted) + 1
    BY <1>1
  <2>4. /\ Sends(m) /\ IsLiveEvent(m) /\ m.origin = n /\ m \in Outbounds /\ loop = "running"
        /\ emitted' = Append(emitted, e) /\ joined' = joined /\ Reachable' = Reachable
        /\ inbox'[id] = inbox[id] \/ (id \in Reachable /\ inbox'[id] = Append(inbox[id], m))
        /\ (loop' = "running" /\ id \in Reachable) => inbox'[id] = Append(inbox[id], m)
    BY <1>1, <1>9, <2>1, <2>3 DEF SendsEvent, IsLiveEvent, Sends, Appends, Reachable
  <2>5. PICK since \in SUBSET Nat : since = EventsSince(id) /\ \A o \in since : o < n
    BY <1>1, <1>2, <2>3, <2>4, SinceGrows
  <2>6. EventsSince(id)' = since \cup {n} /\ Len(emitted') = n
    BY <1>1, <1>2, <2>2, <2>3, <2>4, <2>5, SinceGrows, AppendEmission
  <2>7. PICK box \in Seq(Outbounds) : box = inbox[id]
    BY <1>1
  <2>8. Ordered(box, since) /\ Ordered(box, since \cup {n})
    BY <1>2, <2>5, <2>7, OrderedStays
  <2>9. id \in Reachable => /\ Ordered(Append(box, m), since \cup {n})
                            /\ Complete(Append(box, m), since \cup {n})
    <3>1. id \in Reachable => Complete(box, since)
      BY <1>2, <2>4, <2>5, <2>7
    <3>2. QED
      BY <2>4, <2>5, <2>8, <3>1, OrderedEvent
  <2>10. Ordered(inbox'[id], since \cup {n})
    BY <2>4, <2>7, <2>8, <2>9
  <2>11. (id \in Reachable' /\ loop' = "running") => Complete(inbox'[id], since \cup {n})
    BY <2>4, <2>7, <2>9
  <2>12. joined'[id] <= Len(emitted')
    <3>1. joined[id] \in Nat /\ joined[id] <= Len(emitted)
      BY <1>1, <1>2, JoinedType
    <3>2. QED
      BY <1>1, <2>3, <2>4, <2>6, <3>1
  <2>13. QED
    BY <2>6, <2>10, <2>11, <2>12 DEF SeesEvents
<1>10. ASSUME NEW m, NEW event \in Events, SendsEvent(m, event) PROVE EventsInv'
  BY <1>9, <1>10 DEF EventsInv, SendsEvent, Sends
<1>11. ASSUME NEW m, NEW b \in Nat, NEW command \in Commands \cup {"disconnect"},
              NEW success \in BOOLEAN, NEW own \in BOOLEAN, SendsResponse(m, b, command, success, own)
       PROVE  EventsInv'
  BY <1>8, <1>11 DEF EventsInv, SendsResponse, Sends
<1>12. QED
  BY <1>5, <1>6, <1>7, <1>10, <1>11, StepKinds

\* A client has the adapter's events since it attached in their order and without a gap,
\* and all of them while it listens (broadcast_to_all), whoever else comes and goes.
THEOREM EventsOrdered == Spec => []EventsInOrderNoGap
<1>1. Init => EventsInv
  BY DEF Init, EventsInv
<1>2. TableInv /\ EventsInv => EventsInOrderNoGap
  BY DEF EventsInv, SeesEvents, Ordered, Complete, IsLiveEvent, LiveEvents, EventsInOrderNoGap
<1>3. TableInv /\ EventsInv /\ [Next]_vars => EventsInv'
  BY NextEvents
<1>4. QED
  BY <1>1, <1>2, <1>3, TablesInvariant, PTL DEF Spec

-----------------------------------------------------------------------------
(* Late joiners *)

\* The cache holds the latest of what it watches for.
CacheLatest ==
  \A o \in 1..Len(emitted) :
    /\ IsLatest(o, <<"response", "initialize">>) => cache.initialize_body = o
    /\ IsLatest(o, <<"event", "initialized">>) => cache.initialized = o
    /\ IsLatest(o, <<"event", "stopped">>) => cache.last_stopped = o

\* Client id has the adapter's message o.
Has(id, o) ==
  \E k \in 1..Len(inbox[id]) : inbox[id][k].type = emitted[o].type /\ inbox[id][k].origin = o

CaughtUp(id) ==
  \A o \in 1..Len(emitted), what \in Caught :
    (IsLatest(o, what) /\ (emitted[o].type = "response" => o <= joined[id])) => Has(id, o)

LateInv ==
  /\ CacheLatest
  /\ loop = "running" => \A id \in Reachable : CaughtUp(id)

LEMMA SaysFacts ==
  ASSUME NEW o, NEW type, NEW name
  PROVE  Says(o, <<type, name>>)
           <=> emitted[o].success /\ emitted[o].type = type /\ emitted[o].name = name
BY DEF Says

\* What is the latest after a step was so before, unless it is new.
LEMMA LatestBefore ==
  ASSUME Extends, Len(emitted) \in Nat, Len(emitted') \in Nat,
         NEW o \in 1..Len(emitted), NEW what, IsLatest(o, what)'
  PROVE  /\ IsLatest(o, what)
         /\ \A later \in (o + 1)..Len(emitted') : ~Says(later, what)'
<1>1. Says(o, what)' /\ \A later \in (o + 1)..Len(emitted') : ~Says(later, what)'
  BY DEF IsLatest
<1>2. \A p \in 1..Len(emitted) : Says(p, what)' <=> Says(p, what)
  BY DEF Extends, Says
<1>3. \A later \in (o + 1)..Len(emitted) : later \in 1..Len(emitted) /\ later \in (o + 1)..Len(emitted')
  BY DEF Extends
<1>4. QED
  BY <1>1, <1>2, <1>3 DEF IsLatest

\* Who was caught up with the messages before this step stays so with them.
LEMMA StaysCaughtUp ==
  ASSUME TableInv, [Next]_vars, NEW id \in 1..next_client_id, id \in Reachable',
         loop' = "running", joined'[id] = joined[id], LateInv,
         NEW o \in 1..Len(emitted), NEW what \in Caught, IsLatest(o, what)',
         emitted'[o].type = "response" => o <= joined'[id]
  PROVE  Has(id, o)'
<1>1. Extends /\ Keeps /\ Len(emitted) \in Nat /\ Len(emitted') \in Nat
  BY HistoriesExtend, InboxesKept, TypeFacts DEF TableInv
<1>2. emitted'[o] = emitted[o] /\ IsLatest(o, what)
  BY <1>1, LatestBefore DEF Extends
<1>3. CaughtUp(id)
  BY <1>1 DEF Keeps, LateInv
<1>4. Has(id, o)
  BY <1>2, <1>3 DEF CaughtUp
<1>5. PICK k \in 1..Len(inbox[id]) : inbox[id][k].type = emitted[o].type /\ inbox[id][k].origin = o
  BY <1>4 DEF Has
<1>6. k \in 1..Len(inbox'[id]) /\ inbox'[id][k] = inbox[id][k]
  BY <1>1 DEF Keeps
<1>7. QED
  BY <1>2, <1>5, <1>6 DEF Has

\* Observing the adapter's next message keeps the cache at the latest.
LEMMA ObserveLatest ==
  ASSUME TypeOK, CacheLatest, NEW e \in EmissionRecords, emitted' = Append(emitted, e),
         NEW n \in Nat, n = Len(emitted) + 1,
         cache'.initialize_body = IF e.success /\ e.type = "response" /\ e.name = "initialize"
                                  THEN n ELSE cache.initialize_body,
         cache'.initialized = IF e.success /\ e.type = "event" /\ e.name = "initialized"
                              THEN n ELSE cache.initialized,
         cache'.last_stopped = IF e.success /\ e.type = "event" /\ e.name = "stopped"
                               THEN n ELSE cache.last_stopped
  PROVE  CacheLatest'
<1>1. emitted \in Seq(EmissionRecords)
  BY TypeFacts
<1>2. /\ Len(emitted) \in Nat /\ Len(emitted') = n /\ Len(emitted') \in Nat
      /\ emitted'[n] = e
      /\ \A o \in 1..Len(emitted) : emitted'[o] = emitted[o]
  BY <1>1, AppendEmission
<1>3. \A type, name : Says(n, <<type, name>>)' <=> e.success /\ e.type = type /\ e.name = name
  BY <1>2 DEF Says
<1>4. \A o \in 1..Len(emitted') : o \in 1..Len(emitted) \/ o = n
  BY <1>2
<1>5. \A o, what : IsLatest(o, what)' => Says(o, what)'
  BY DEF IsLatest
<1>6. ASSUME NEW o \in 1..Len(emitted), NEW what, IsLatest(o, what)'
      PROVE  IsLatest(o, what) /\ ~Says(n, what)'
  <2>1. n \in (o + 1)..Len(emitted')
    BY <1>2
  <2>2. /\ \A p \in 1..Len(emitted) : Says(p, what)' <=> Says(p, what)
        /\ Says(o, what)' /\ \A later \in (o + 1)..Len(emitted') : ~Says(later, what)'
    BY <1>2, <1>6 DEF IsLatest, Says
  <2>3. \A later \in (o + 1)..Len(emitted) : later \in 1..Len(emitted) /\ later \in (o + 1)..Len(emitted')
    BY <1>2
  <2>4. QED
    BY <2>1, <2>2, <2>3 DEF IsLatest
<1>7. SUFFICES ASSUME NEW o \in 1..Len(emitted')
               PROVE  /\ IsLatest(o, <<"response", "initialize">>)' => cache'.initialize_body = o
                      /\ IsLatest(o, <<"event", "initialized">>)' => cache'.initialized = o
                      /\ IsLatest(o, <<"event", "stopped">>)' => cache'.last_stopped = o
  BY DEF CacheLatest
<1>8. CASE o = n
  BY <1>3, <1>5, <1>8
<1>9. CASE o \in 1..Len(emitted)
  <2>1. /\ IsLatest(o, <<"response", "initialize">>) => cache.initialize_body = o
        /\ IsLatest(o, <<"event", "initialized">>) => cache.initialized = o
        /\ IsLatest(o, <<"event", "stopped">>) => cache.last_stopped = o
    BY <1>9 DEF CacheLatest
  <2>2. ASSUME IsLatest(o, <<"response", "initialize">>)' PROVE cache'.initialize_body = o
    BY <1>3, <1>6, <1>9, <2>1, <2>2
  <2>3. ASSUME IsLatest(o, <<"event", "initialized">>)' PROVE cache'.initialized = o
    BY <1>3, <1>6, <1>9, <2>1, <2>3
  <2>4. ASSUME IsLatest(o, <<"event", "stopped">>)' PROVE cache'.last_stopped = o
    BY <1>3, <1>6, <1>9, <2>1, <2>4
  <2>5. QED
    BY <2>2, <2>3, <2>4
<1>10. QED
  BY <1>4, <1>8, <1>9

\* A client that attaches is caught up by the replay.
LEMMA ReplayCatchesUp ==
  ASSUME TypeOK, CacheLatest, NEW new, Joins(new) PROVE CaughtUp(new)'
<1>1. /\ inbox'[new] = Replay /\ emitted' = emitted
  BY DEF Joins
<1>2. \A o, what : IsLatest(o, what)' => IsLatest(o, what)
  BY <1>1 DEF IsLatest, Says
<1>3. ASSUME NEW o \in 1..Len(emitted), NEW what \in Caught, IsLatest(o, what)
      PROVE  \E k \in 1..Len(Replay) : Replay[k].type = emitted[o].type /\ Replay[k].origin = o
  <2>1. PICK type, name : what = <<type, name>>
                          /\ <<type, name>> \in {<<"response", "initialize">>, <<"event", "initialized">>,
                                                 <<"event", "stopped">>}
    BY DEF Caught
  <2>2. o # 0 /\ emitted[o].type = type
    BY <1>3, <2>1 DEF IsLatest, Says
  <2>3. CASE type = "response" /\ name = "initialize"
    <3>1. cache.initialize_body = o
      BY <1>3, <2>1, <2>3 DEF CacheLatest
    <3>2. QED
      BY <2>2, <2>3, <3>1, ReplayContents
  <2>4. CASE type = "event" /\ name = "initialized"
    <3>1. cache.initialized = o
      BY <1>3, <2>1, <2>4 DEF CacheLatest
    <3>2. QED
      BY <2>2, <2>4, <3>1, ReplayContents
  <2>5. CASE type = "event" /\ name = "stopped"
    <3>1. cache.last_stopped = o
      BY <1>3, <2>1, <2>5 DEF CacheLatest
    <3>2. QED
      BY <2>2, <2>5, <3>1, ReplayContents
  <2>6. QED
    BY <2>1, <2>3, <2>4, <2>5
<1>4. QED
  BY <1>1, <1>2, <1>3 DEF CaughtUp, Has

LEMMA NextLate ==
  ASSUME TableInv, EventsInv, LateInv, [Next]_vars PROVE LateInv'
<1>1. /\ TypeOK /\ Keeps /\ next_client_id \in Nat /\ 1..next_client_id \subseteq ClientIds
      /\ Reachable \subseteq 1..next_client_id
      /\ Len(emitted) \in Nat /\ emitted \in Seq(EmissionRecords) /\ cache \in CacheRecords
  BY InboxesKept, TypeFacts, ClientsAreIds DEF TableInv, TypeOK, Reachable
<1>2. ASSUME NEW id \in 1..next_client_id, id \in Reachable', loop' = "running",
             joined'[id] = joined[id], emitted' = emitted
      PROVE  CaughtUp(id)'
  BY <1>2, StaysCaughtUp DEF CaughtUp
<1>3. ASSUME emitted' = emitted, cache'.initialize_body = cache.initialize_body,
             cache'.initialized = cache.initialized, cache'.last_stopped = cache.last_stopped
      PROVE  CacheLatest'
  BY <1>3 DEF LateInv, CacheLatest, IsLatest, Says
<1>4. ASSUME emitted' = emitted, cache'.initialize_body = cache.initialize_body,
             cache'.initialized = cache.initialized, cache'.last_stopped = cache.last_stopped,
             joined' = joined, Reachable' \subseteq Reachable
      PROVE  LateInv'
  BY <1>1, <1>2, <1>3, <1>4 DEF LateInv
<1>5. CASE Quiet
  BY <1>4, <1>5 DEF Quiet
<1>6. ASSUME NEW m, SendsSnapshot(m) PROVE LateInv'
  BY <1>4, <1>6 DEF SendsSnapshot, Sends, Reachable
<1>7. ASSUME NEW new, Joins(new) PROVE LateInv'
  <2>1. /\ new = next_client_id + 1 /\ emitted' = emitted /\ cache' = cache
        /\ \A id \in ClientIds \ {new} : joined'[id] = joined[id]
        /\ Reachable' \subseteq Reachable \cup {new}
    BY <1>7 DEF Joins
  <2>2. \A id \in Reachable' : id = new \/ (id \in 1..next_client_id /\ joined'[id] = joined[id])
    <3>1. \A id \in 1..next_client_id : id \in ClientIds \ {new}
      BY <1>1, <2>1
    <3>2. QED
      BY <1>1, <2>1, <3>1
  <2>3. CaughtUp(new)'
    BY <1>1, <1>7, ReplayCatchesUp DEF LateInv
  <2>4. loop' = "running" => \A id \in Reachable' : CaughtUp(id)'
    BY <1>2, <2>1, <2>2, <2>3
  <2>5. QED
    BY <1>3, <2>1, <2>4 DEF LateInv
<1>8. ASSUME NEW n \in Nat, n = Len(emitted) + 1, NEW e \in EmissionRecords,
             emitted' = Append(emitted, e), joined' = joined, Reachable' = Reachable,
             e.type = "event" /\ loop' = "running" =>
               \A id \in Reachable : \E k \in 1..Len(inbox'[id]) :
                 inbox'[id][k].type = "event" /\ inbox'[id][k].origin = n
      PROVE  loop' = "running" => \A id \in Reachable' : CaughtUp(id)'
  <2>1. /\ Len(emitted') = n /\ emitted'[n] = e
        /\ \A o \in 1..Len(emitted') : o \in 1..Len(emitted) \/ o = n
    BY <1>1, <1>8, AppendEmission
  <2> SUFFICES ASSUME loop' = "running", NEW id \in Reachable',
                      NEW o \in 1..Len(emitted'), NEW what \in Caught, IsLatest(o, what)',
                      emitted'[o].type = "response" => o <= joined'[id]
               PROVE  Has(id, o)'
    BY DEF CaughtUp
  <2>2. id \in Reachable /\ id \in 1..next_client_id
    BY <1>1, <1>8
  <2>3. CASE o \in 1..Len(emitted)
    BY <1>8, <2>2, <2>3, StaysCaughtUp
  <2>4. CASE o = n
    <3>1. joined[id] \in Nat /\ joined[id] <= Len(emitted)
      BY <1>1, <2>2, JoinedType DEF EventsInv, SeesEvents
    <3>2. ~(n <= joined'[id])
      BY <1>1, <1>8, <3>1
    <3>3. e.type = "event"
      BY <2>1, <2>4, <3>2 DEF EmissionRecords
    <3>4. QED
      BY <1>8, <2>1, <2>2, <2>4, <3>3 DEF Has
  <2>5. QED
    BY <2>1, <2>3, <2>4
<1>9. ASSUME NEW m, NEW b \in Nat, NEW command \in Commands \cup {"disconnect"},
             NEW success \in BOOLEAN, NEW own \in BOOLEAN,
             SendsResponse(m, b, command, success, own)
      PROVE  LateInv'
  <2>1. PICK n \in Nat : n = Len(emitted) + 1
    BY <1>1
  <2>2. PICK e \in EmissionRecords : e = Emission("response", b, command, success, own)
    BY EmissionType
  <2>3. e.type = "response" /\ e.success = success /\ e.name = command
    BY <2>2 DEF Emission
  <2>4. /\ emitted' = Append(emitted, e) /\ joined' = joined /\ Reachable' = Reachable
        /\ cache' = ObserveResponse(n, b, command, success)
    BY <1>9, <2>1, <2>2 DEF SendsResponse, Sends, Reachable
  <2>5. /\ cache'.initialize_body = IF success /\ command = "initialize" THEN n
                                                                         ELSE cache.initialize_body
        /\ cache'.initialized = cache.initialized /\ cache'.last_stopped = cache.last_stopped
    BY <1>1, <2>4 DEF ObserveResponse, CacheRecords
  <2>6. CacheLatest'
    BY <1>1, <2>1, <2>3, <2>4, <2>5, ObserveLatest DEF LateInv
  <2>7. QED
    BY <1>8, <2>1, <2>3, <2>4, <2>6 DEF LateInv
<1>10. ASSUME NEW m, NEW event \in Events, SendsEvent(m, event) PROVE LateInv'
  <2>1. PICK n \in Nat : n = Len(emitted) + 1
    BY <1>1
  <2>2. PICK e \in EmissionRecords : e = Emission("event", 0, event, TRUE, FALSE)
    BY EmissionType
  <2>3. e.type = "event" /\ e.success /\ e.name = event
    BY <2>2 DEF Emission
  <2>4. /\ emitted' = Append(emitted, e) /\ joined' = joined /\ Reachable' = Reachable
        /\ cache' = ObserveEvent(n, event) /\ Sends(m) /\ m.type = "event" /\ m.origin = n
        /\ loop' = "running" => \A id \in Reachable : Appends(id, m)
    BY <1>10, <2>1, <2>2 DEF SendsEvent, Sends, Reachable
  <2>5. /\ cache'.initialize_body = cache.initialize_body
        /\ cache'.initialized = IF event = "initialized" THEN n ELSE cache.initialized
        /\ cache'.last_stopped = IF event = "stopped" THEN n ELSE cache.last_stopped
    BY <1>1, <2>4 DEF ObserveEvent, CacheRecords
  <2>6. CacheLatest'
    BY <1>1, <2>1, <2>3, <2>4, <2>5, ObserveLatest DEF LateInv
  <2>7. loop' = "running" => \A id \in Reachable : \E k \in 1..Len(inbox'[id]) :
                               inbox'[id][k].type = "event" /\ inbox'[id][k].origin = n
    <3> SUFFICES ASSUME loop' = "running", NEW id \in Reachable
                 PROVE  \E k \in 1..Len(inbox'[id]) :
                          inbox'[id][k].type = "event" /\ inbox'[id][k].origin = n
      OBVIOUS
    <3>1. /\ Len(inbox[id]) \in Nat /\ Len(inbox'[id]) = Len(inbox[id]) + 1
          /\ inbox'[id][Len(inbox[id]) + 1] = m
      BY <1>1, <2>4, InboxGrows
    <3>2. Len(inbox[id]) + 1 \in 1..Len(inbox'[id])
      BY <3>1
    <3>3. QED
      BY <2>4, <3>1, <3>2
  <2>8. QED
    BY <1>8, <2>1, <2>3, <2>4, <2>6, <2>7 DEF LateInv
<1>11. QED
  BY <1>5, <1>6, <1>7, <1>9, <1>10, StepKinds

\* However late a client attaches, it has the adapter's last initialized and stopped
\* events, and the capabilities if they were reported before (LateJoinCache::replay).
THEOREM LateJoinersCaughtUp == Spec => []LateJoinerCaughtUp
<1>1. Init => EventsInv /\ LateInv
  BY DEF Init, EventsInv, LateInv, CacheLatest, Reachable
<1>2. LateInv => LateJoinerCaughtUp
  BY DEF LateInv, CaughtUp, Has, LateJoinerCaughtUp
<1>3. TableInv /\ EventsInv /\ LateInv /\ [Next]_vars => EventsInv' /\ LateInv'
  BY NextEvents, NextLate
<1>4. QED
  BY <1>1, <1>2, <1>3, TablesInvariant, PTL DEF Spec

-----------------------------------------------------------------------------
(* Cancels *)

\* What a step does to the requests: the new one, if it is an editor's cancel of a
\* request in flight, carries that request's backend seq.
CancelsNamed ==
  \A c \in 1..Len(requests') :
    (/\ c > Len(requests)
     /\ requests'[c].command = "cancel"
     /\ role[requests'[c].from] = "Editor")
    => \A b \in InFlight :
         (requests[b].from = requests'[c].from /\ requests[b].seq = requests'[c].asked)
         => requests'[c].arg = b

LEMMA NextCancels == ASSUME TableInv, [Next]_vars PROVE CancelsNamed
<1>1. TypeOK /\ Len(requests) \in Nat /\ requests \in Seq(RequestRecords) /\ InFlightExact
  BY TypeFacts DEF TableInv
<1>2. ASSUME requests' = requests PROVE CancelsNamed
  BY <1>1, <1>2 DEF CancelsNamed
<1>3. ASSUME NEW id \in ClientIds, NEW request \in Requests(id), ClientSend(id, request)
      PROVE  CancelsNamed
  <2>1. loop = "running"
    BY <1>3 DEF ClientSend
  <2>2. ASSUME NEW arg \in Nat \cup Specs \cup {NoArg}, SendUpstream(id, request, arg),
               role[id] = "Editor" /\ request.command = "cancel" =>
                 \A b \in InFlight : (requests[b].from = id /\ requests[b].seq = request.arg) => arg = b
        PROVE  CancelsNamed
    <3> DEFINE entry == [from |-> id, seq |-> request.seq, command |-> request.command,
                         asked |-> request.arg, arg |-> arg]
    <3>1. CASE requests' = requests
      BY <1>2, <3>1
    <3>2. CASE requests' = Append(requests, entry)
      <4>1. entry \in RequestRecords
        BY RequestsType DEF RequestRecords
      <4>2. /\ entry.from = id /\ entry.command = request.command
            /\ entry.asked = request.arg /\ entry.arg = arg
        OBVIOUS
      <4> HIDE DEF entry
      <4>3. Len(requests') = Len(requests) + 1 /\ requests'[Len(requests) + 1] = entry
        BY <1>1, <3>2, <4>1, AppendProperties
      <4>4. \A c \in 1..Len(requests') : c > Len(requests) => requests'[c] = entry
        <5>1. \A c \in 1..Len(requests') : c > Len(requests) => c = Len(requests) + 1
          BY <1>1, <4>3
        <5>2. QED
          BY <4>3, <5>1
      <4>5. QED
        BY <2>2, <4>2, <4>4 DEF CancelsNamed
    <3>3. QED
      BY <2>2, <3>1, <3>2 DEF SendUpstream
  <2>3. CASE AnswerSnapshot(id, request)
    BY <1>2, <2>3 DEF AnswerSnapshot
  <2>4. CASE ForwardSecondary(id, request)
    <3>1. role[id] # "Editor" /\ SendUpstream(id, request, request.arg)
      BY <2>4 DEF ForwardSecondary
    <3>2. request.arg \in Nat \cup Specs \cup {NoArg}
      BY RequestsType, BoundsAssumption
    <3>3. QED
      BY <2>2, <3>1, <3>2
  <2>5. CASE ForwardEditor(id, request)
    <3>1. role[id] = "Editor" /\ SendUpstream(id, request, TranslateCancel(request))
      BY <2>5 DEF ForwardEditor
    <3>2. TranslateCancel(request) \in Nat \cup Specs \cup {NoArg}
      BY <1>1, TranslatedType
    <3>3. ASSUME request.command = "cancel", NEW b \in InFlight,
                 requests[b].from = id, requests[b].seq = request.arg
          PROVE  TranslateCancel(request) = b
      <4>1. b \in DOMAIN reverse
        BY <1>1, <2>1, <3>1, <3>3 DEF InFlightExact
      <4>2. request.arg \in DOMAIN forward /\ forward[request.arg] = b
        BY <1>1, <2>1, <3>3, <4>1 DEF InFlightExact
      <4>3. QED
        BY <3>3, <4>2 DEF TranslateCancel
    <3>4. QED
      BY <2>2, <3>1, <3>2, <3>3
  <2>6. QED
    BY <1>3, <2>3, <2>4, <2>5 DEF ClientSend
<1>4. CASE \E id \in ClientIds : \E request \in Requests(id) : ClientSend(id, request)
  BY <1>3, <1>4
<1>5. CASE \/ \E r \in Roles : Attach(r)
           \/ \E id \in ClientIds : DropReceiver(id) \/ Detach(id)
           \/ \E b \in 1..Len(requests), success \in Outcomes : UpstreamResponse(b, success)
           \/ \E success \in Outcomes : DisconnectAnswered(success)
           \/ \E event \in Events : UpstreamEvent(event)
           \/ CloseToUpstream
           \/ UpstreamEof
           \/ UNCHANGED vars
  <2>1. requests' = requests
    BY <1>5 DEF Attach, DropReceiver, Detach, UpstreamResponse, DisconnectAnswered, HandleResponse,
                UpstreamEvent, CloseToUpstream, UpstreamEof, vars
  <2>2. QED
    BY <1>2, <2>1
<1>6. QED
  BY <1>4, <1>5 DEF Next

\* An editor's cancel of a request in flight reaches the adapter with that request's
\* backend seq (translate_cancel reads the map before the cancel itself is entered).
THEOREM CancelsNameTheirRequest == Spec => CancelNamesItsRequest
<1>1. TableInv /\ [Next]_vars => [CancelsNamed]_vars
  BY NextCancels
<1>2. Spec => [][CancelsNamed]_vars
  BY <1>1, TablesInvariant, PTL DEF Spec
<1>3. QED
  BY <1>2 DEF CancelsNamed, CancelNamesItsRequest
=============================================================================
