------------------------- MODULE SessionBridgeProofs -------------------------
(***************************************************************************)
(* Proofs about the tasks of a proxy, for any number of clients and        *)
(* requests and any order in which tasks run, fail and are aborted; and    *)
(* about the reader of the byte streams between them, for any messages cut *)
(* into pieces in any way.                                                 *)
(***************************************************************************)
EXTENDS SessionBridge, FrameReader, CollectionLemmas

\* The requests that are sent to the adapter.
Forwarded == Clients \X (Nat \ {0})

ClientTypes ==
  /\ writes \in [Clients -> {"open", "closed"}]
  /\ reads \in [Clients -> {"reading", "stalled", "closed"}]
  /\ sent \in [Clients -> Nat] /\ taken \in [Clients -> Nat]
  /\ \A c \in Clients : taken[c] \in 0..sent[c] /\ sent[c] \in 0..Limit(c)
  /\ bridge \in [Clients -> {"off", "serving", "draining", "done"}]
  /\ ingest \in [Clients -> {"reading", "ended", "failed"}]
  /\ egress \in [Clients -> {"writing", "ended", "failed"}]
  /\ outbound \in [Clients -> Seq(Forwarded)] /\ adapter_out \in Seq(Forwarded)

TaskTypes ==
  /\ mode \in {"editor", "headless"}
  /\ loop \in {"running", "ended", "failed", "aborted"}
  /\ m2b \in {"running", "ended", "failed"} /\ b2m \in {"reading", "ended", "unreadable", "refused"}
  /\ adapter \in {"up", "hung", "gone"} /\ shutdown \in BOOLEAN
  /\ session \in {"serving", "closing", "ok", "error", "aborted"}
  /\ main \in {"running", "stopping", "guards", "returned", "exited"}

QueueTypes ==
  /\ ops \in Seq(Clients \X Nat) /\ to_upstream \in Seq(Forwarded)
  /\ adapter_in \in Seq(Forwarded \cup {Disconnect})
  /\ answered \subseteq Range(adapter_in)

\* How far a bridge is tells what its tasks and its channel are like.  A client that is not
\* there yet has tasks that have not begun, and the loop has dropped the channel of an egress
\* task that found its end.
TasksFit ==
  \A c \in Clients :
    /\ bridge[c] = "off" => egress[c] = "writing" /\ outbound[c] = <<>> /\ c \notin attached
    /\ bridge[c] \in {"off", "serving"} => ingest[c] = "reading"
    /\ bridge[c] = "done" => egress[c] # "writing"
    /\ egress[c] = "ended" => c \notin attached
    /\ egress[c] = "failed" => outbound[c] = <<>>

\* The numbers of the requests of c in a set.
Seen(c, S) == {n \in Nat \ {0} : <<c, n>> \in S}

\* After what is in S, x is the next request of its client for the adapter, or none.
Follows(x, S) ==
  \A c \in Clients, n \in Nat \ {0} :
    x = <<c, n>> => n \notin LocalRequests /\ Seen(c, S) = (1..(n - 1)) \ LocalRequests

InOrder(s, S) == \A i \in 1..Len(s) : Follows(s[i], S \cup {s[j] : j \in 1..(i - 1)})

\* While mux_to_backend runs, what the adapter has, the queue to it and the queue of the loop
\* are one sequence in order; with the loop running nothing of what was taken is missing.
QueuesInOrder ==
  /\ InOrder(adapter_in, {})
  /\ \A i \in 1..Len(adapter_in) : adapter_in[i] = Disconnect => i = Len(adapter_in)
  /\ loop # "running" => ops = <<>>
  /\ m2b = "running" =>
       /\ Disconnect \notin Range(adapter_in)
       /\ InOrder(to_upstream, Range(adapter_in))
       /\ InOrder(ops, Range(adapter_in) \cup Range(to_upstream))
       /\ loop = "running" =>
            \A c \in Clients :
              Seen(c, Range(adapter_in) \cup Range(to_upstream) \cup Range(ops))
                = (1..taken[c]) \ LocalRequests

\* mux_to_backend tells an adapter that reads before it ends, and a session that is over
\* without an error had waited for this or had a reason not to.
ToldInTime ==
  /\ m2b # "running" /\ adapter = "up" => Told
  /\ session = "ok" => m2b # "running" \/ B2mFailed \/ adapter # "up"

BridgeInv ==
  /\ ClientTypes /\ TaskTypes /\ QueueTypes /\ attached \subseteq Clients
  /\ TasksFit /\ QueuesInOrder /\ ToldInTime

LEMMA ClientFacts ==
  /\ Editor \in Clients /\ Controls \subseteq Clients
  /\ \A c \in Clients : Limit(c) \in Nat
BY BridgeAssumption DEF Clients, Limit

\* Bridges start consistent.
LEMMA InitBridge == Init => BridgeInv
<1> SUFFICES ASSUME Init PROVE BridgeInv
  OBVIOUS
<1>1. ClientTypes
  BY ClientFacts DEF Init, ClientTypes
<1>2. TaskTypes /\ attached \subseteq Clients
  BY DEF Init, TaskTypes
<1>3. QueueTypes
  BY DEF Init, QueueTypes
<1>4. TasksFit
  BY ClientFacts DEF Init, TasksFit
<1>5. QueuesInOrder
  <2>1. Len(<<>>) = 0 /\ Range(<<>>) = {}
    BY DEF Range
  <2>2. InOrder(adapter_in, {}) /\ \A S : InOrder(<<>>, S)
    BY <2>1 DEF Init, InOrder
  <2>3. ASSUME NEW c \in Clients
        PROVE  Seen(c, ({} \cup {}) \cup {}) = (1..taken[c]) \ LocalRequests
    BY DEF Init, Seen
  <2>4. /\ adapter_in = <<>> /\ to_upstream = <<>> /\ ops = <<>>
    BY DEF Init
  <2>5. \A c \in Clients :
          Seen(c, Range(adapter_in) \cup Range(to_upstream) \cup Range(ops))
            = (1..taken[c]) \ LocalRequests
    BY <2>1, <2>3, <2>4
  <2>6. /\ InOrder(to_upstream, Range(adapter_in))
        /\ InOrder(ops, Range(adapter_in) \cup Range(to_upstream))
    BY <2>2, <2>4
  <2>7. \A i \in 1..Len(adapter_in) : adapter_in[i] = Disconnect => i = Len(adapter_in)
    BY <2>1, <2>4
  <2>8. Disconnect \notin Range(adapter_in)
    BY <2>1, <2>4
  <2>9. QED
    BY <2>2, <2>4, <2>5, <2>6, <2>7, <2>8 DEF QueuesInOrder
<1>6. ToldInTime
  BY DEF Init, ToldInTime
<1>7. QED
  BY <1>1, <1>2, <1>3, <1>4, <1>5, <1>6 DEF BridgeInv

\* A request that was taken is one that was sent.
LEMMA TakenTypes ==
  ASSUME ClientTypes, NEW c \in Clients, taken[c] < sent[c],
         taken' = [taken EXCEPT ![c] = @ + 1], sent' = sent
  PROVE  /\ taken' \in [Clients -> Nat] /\ sent' \in [Clients -> Nat]
         /\ \A d \in Clients : taken'[d] \in 0..sent'[d] /\ sent'[d] \in 0..Limit(d)
<1>1. \A d \in Clients : taken'[d] = IF d = c THEN taken[c] + 1 ELSE taken[d]
  BY DEF ClientTypes
<1>2. \A d \in Clients : taken[d] \in Nat /\ sent[d] \in Nat /\ taken[d] \in 0..sent[d]
  BY DEF ClientTypes
<1>3. \A d \in Clients : taken'[d] \in 0..sent[d]
  BY <1>1, <1>2
<1>4. taken' \in [Clients -> Nat]
  BY <1>2 DEF ClientTypes
<1>5. QED
  BY <1>3, <1>4 DEF ClientTypes

\* When a connection is over its tasks have ended, or failed.
LEMMA EndTypes ==
  ASSUME ClientTypes, NEW c \in Clients, NEW how \in {"ended", "failed"}, IngestEnds(c, how)
  PROVE  /\ bridge' \in [Clients -> {"off", "serving", "draining", "done"}]
         /\ ingest' \in [Clients -> {"reading", "ended", "failed"}]
BY DEF ClientTypes, IngestEnds

\* A message taken off a queue, and what is left of it.
LEMMA QueueTaken ==
  ASSUME NEW S, NEW s \in Seq(S), s # <<>>
  PROVE  Head(s) \in S /\ Tail(s) \in Seq(S)
BY HeadTailProperties

-----------------------------------------------------------------------------
(* Sequences of requests *)

\* What is appended comes to what a queue holds.
LEMMA RangeAppend ==
  ASSUME NEW S, NEW s \in Seq(S), NEW x \in S
  PROVE  Range(Append(s, x)) = Range(s) \cup {x}
<1> DEFINE t == Append(s, x)
<1>1. /\ Len(s) \in Nat /\ t[Len(s) + 1] = x
      /\ \A i \in 1..Len(s) : t[i] = s[i]
      /\ DOMAIN s = 1..Len(s) /\ DOMAIN t = 1..(Len(s) + 1)
  BY AppendProperties, LenProperties
<1> HIDE DEF t
<1>2. QED
  BY <1>1 DEF Range, t

\* What is left of a queue after its first element was taken.
LEMMA TailLemma ==
  ASSUME NEW S, NEW s \in Seq(S), s # <<>>
  PROVE  /\ Len(s) \in Nat \ {0} /\ Len(Tail(s)) = Len(s) - 1 /\ Head(s) = s[1]
         /\ \A i \in 1..(Len(s) - 1) : Tail(s)[i] = s[i + 1]
         /\ DOMAIN s = 1..Len(s) /\ DOMAIN Tail(s) = 1..(Len(s) - 1)
BY HeadTailProperties, LenProperties, EmptySeq

\* A queue holds its first element and what is behind it.
LEMMA RangeTail ==
  ASSUME NEW S, NEW s \in Seq(S), s # <<>>
  PROVE  Range(s) = {Head(s)} \cup Range(Tail(s))
<1> DEFINE h == Head(s)
           t == Tail(s)
<1>1. /\ Len(s) \in Nat \ {0} /\ h = s[1] /\ \A i \in 1..(Len(s) - 1) : t[i] = s[i + 1]
      /\ DOMAIN s = 1..Len(s) /\ DOMAIN t = 1..(Len(s) - 1)
  BY TailLemma
<1> HIDE DEF h, t
<1>2. ASSUME NEW i \in 1..Len(s) PROVE s[i] \in {h} \cup Range(t)
  <2>1. i = 1 \/ (i - 1 \in 1..(Len(s) - 1) /\ t[i - 1] = s[i])
    BY <1>1
  <2>2. QED
    BY <1>1, <2>1 DEF Range
<1>3. ASSUME NEW i \in 1..(Len(s) - 1) PROVE t[i] \in Range(s)
  <2>1. i + 1 \in 1..Len(s)
    BY <1>1
  <2>2. QED
    BY <1>1, <2>1 DEF Range
<1>4. h \in Range(s)
  BY <1>1 DEF Range
<1>5. QED
  BY <1>1, <1>2, <1>3, <1>4 DEF Range, h, t

\* A queue in order stays so when what is appended follows everything before it.
LEMMA InOrderAppend ==
  ASSUME NEW T, NEW s \in Seq(T), NEW x \in T, NEW S, InOrder(s, S), Follows(x, S \cup Range(s))
  PROVE  InOrder(Append(s, x), S)
<1> DEFINE t == Append(s, x)
<1>1. /\ Len(s) \in Nat /\ Len(t) = Len(s) + 1 /\ t[Len(s) + 1] = x
      /\ \A i \in 1..Len(s) : t[i] = s[i]
      /\ DOMAIN s = 1..Len(s)
  BY AppendProperties, LenProperties
<1> HIDE DEF t
<1>2. \A i \in 1..(Len(s) + 1) : {t[j] : j \in 1..(i - 1)} = {s[j] : j \in 1..(i - 1)}
  BY <1>1
<1>3. ASSUME NEW i \in 1..Len(s) PROVE Follows(t[i], S \cup {t[j] : j \in 1..(i - 1)})
  BY <1>1, <1>2 DEF InOrder
<1>4. Range(s) = {s[j] : j \in 1..((Len(s) + 1) - 1)}
  BY <1>1 DEF Range
<1>5. {t[j] : j \in 1..((Len(s) + 1) - 1)} = Range(s)
  BY <1>1, <1>2, <1>4
<1>6. Follows(t[Len(s) + 1], S \cup {t[j] : j \in 1..((Len(s) + 1) - 1)})
  BY <1>1, <1>5
<1>7. \A i \in 1..Len(t) : i \in 1..Len(s) \/ i = Len(s) + 1
  BY <1>1
<1>8. \A i \in 1..Len(t) : Follows(t[i], S \cup {t[j] : j \in 1..(i - 1)})
  BY <1>3, <1>6, <1>7
<1>9. QED
  BY <1>8 DEF InOrder, t

\* What is taken from a queue in order goes to what was read before.
LEMMA InOrderTail ==
  ASSUME NEW T, NEW s \in Seq(T), s # <<>>, NEW S, InOrder(s, S)
  PROVE  Follows(Head(s), S) /\ InOrder(Tail(s), S \cup {Head(s)})
<1> DEFINE h == Head(s)
           t == Tail(s)
<1>1. /\ Len(s) \in Nat \ {0} /\ h = s[1] /\ Len(t) = Len(s) - 1
      /\ \A i \in 1..(Len(s) - 1) : t[i] = s[i + 1]
  BY TailLemma
<1> HIDE DEF h, t
<1>2. Follows(h, S)
  <2>1. S \cup {s[j] : j \in 1..(1 - 1)} = S
    OBVIOUS
  <2>2. 1 \in 1..Len(s)
    BY <1>1
  <2>3. Follows(s[1], S \cup {s[j] : j \in 1..(1 - 1)})
    BY <2>2 DEF InOrder
  <2>4. QED
    BY <1>1, <2>1, <2>3
<1>3. ASSUME NEW i \in 1..(Len(s) - 1)
      PROVE  {h} \cup {t[j] : j \in 1..(i - 1)} = {s[j] : j \in 1..((i + 1) - 1)}
  <2>1. ASSUME NEW j \in 1..((i + 1) - 1) PROVE s[j] \in {h} \cup {t[k] : k \in 1..(i - 1)}
    <3>1. j = 1 \/ (j - 1 \in 1..(i - 1) /\ t[j - 1] = s[j])
      BY <1>1
    <3>2. QED
      BY <1>1, <3>1
  <2>2. ASSUME NEW j \in 1..(i - 1) PROVE t[j] \in {s[k] : k \in 1..((i + 1) - 1)}
    <3>1. j + 1 \in 1..((i + 1) - 1) /\ t[j] = s[j + 1]
      BY <1>1
    <3>2. QED
      BY <3>1
  <2>3. h \in {s[j] : j \in 1..((i + 1) - 1)}
    BY <1>1
  <2>4. QED
    BY <2>1, <2>2, <2>3
<1>4. ASSUME NEW i \in 1..(Len(s) - 1)
      PROVE  Follows(t[i], (S \cup {h}) \cup {t[j] : j \in 1..(i - 1)})
  <2>1. i + 1 \in 1..Len(s) /\ t[i] = s[i + 1]
    BY <1>1
  <2>2. Follows(s[i + 1], S \cup {s[j] : j \in 1..((i + 1) - 1)})
    BY <2>1 DEF InOrder
  <2>3. (S \cup {h}) \cup {t[j] : j \in 1..(i - 1)} = S \cup {s[j] : j \in 1..((i + 1) - 1)}
    BY <1>3
  <2>4. QED
    BY <2>1, <2>2, <2>3
<1>5. QED
  BY <1>1, <1>2, <1>4 DEF InOrder, h, t

\* A Detach is nobody's request.
LEMMA DetachUnseen ==
  ASSUME NEW S, NEW d
  PROVE  /\ \A c : Seen(c, S \cup {<<d, 0>>}) = Seen(c, S)
         /\ Follows(<<d, 0>>, S)
         /\ \A s, T : InOrder(s, S \cup {<<d, 0>>}) <=> InOrder(s, S)
<1>1. ASSUME NEW T, NEW c PROVE Seen(c, (S \cup {<<d, 0>>}) \cup T) = Seen(c, S \cup T)
  BY DEF Seen
<1>2. ASSUME NEW c PROVE Seen(c, S \cup {<<d, 0>>}) = Seen(c, S)
  BY DEF Seen
<1>3. Follows(<<d, 0>>, S)
  BY DEF Follows
<1>4. ASSUME NEW T, NEW x PROVE Follows(x, (S \cup {<<d, 0>>}) \cup T) <=> Follows(x, S \cup T)
  BY <1>1 DEF Follows
<1>5. ASSUME NEW s PROVE InOrder(s, S \cup {<<d, 0>>}) <=> InOrder(s, S)
  BY <1>4 DEF InOrder
<1>6. QED
  BY <1>2, <1>3, <1>5

-----------------------------------------------------------------------------
\* A client's operation is queued as the loop reads it.
LEMMA OpsAppend ==
  ASSUME QueueTypes, NEW x \in Clients \X Nat
  PROVE  Append(ops, x) \in Seq(Clients \X Nat)
<1> DEFINE T == Clients \X Nat
<1>1. ops \in Seq(T) /\ x \in T
  BY DEF QueueTypes
<1> HIDE DEF T
<1>2. Append(ops, x) \in Seq(T)
  BY <1>1, AppendProperties
<1>3. QED
  BY <1>2 DEF T

\* What the loop writes to the adapter is queued with the rest.
LEMMA AdapterInAppend ==
  ASSUME QueueTypes, NEW x \in Forwarded \cup {Disconnect}
  PROVE  /\ Append(adapter_in, x) \in Seq(Forwarded \cup {Disconnect})
         /\ Range(Append(adapter_in, x)) = Range(adapter_in) \cup {x}
<1> DEFINE T == Forwarded \cup {Disconnect}
<1>1. adapter_in \in Seq(T) /\ x \in T
  BY DEF QueueTypes
<1> HIDE DEF T
<1>2. Append(adapter_in, x) \in Seq(T) /\ Range(Append(adapter_in, x)) = Range(adapter_in) \cup {x}
  BY <1>1, AppendProperties, RangeAppend
<1>3. QED
  BY <1>2 DEF T

\* A request or a Detach joins the queue of the loop.
LEMMA OpsGrow ==
  ASSUME QueueTypes, QueuesInOrder, loop = "running",
         NEW x \in Clients \X Nat, ops' = Append(ops, x),
         UNCHANGED <<loop, to_upstream, adapter_in, m2b>>,
         m2b = "running" =>
           LET S == Range(adapter_in) \cup Range(to_upstream) \cup Range(ops) IN
           /\ Follows(x, S)
           /\ \A c \in Clients : Seen(c, S \cup {x}) = (1..taken'[c]) \ LocalRequests
  PROVE  QueuesInOrder'
<1> DEFINE B == Range(adapter_in) \cup Range(to_upstream)
           T == Clients \X Nat
<1>1. ops \in Seq(T) /\ x \in T
  BY DEF QueueTypes
<1> HIDE DEF T
<1>2. Range(ops') = Range(ops) \cup {x}
  BY <1>1, RangeAppend
<1>3. m2b = "running" => InOrder(ops', B)
  <2> SUFFICES ASSUME m2b = "running" PROVE InOrder(Append(ops, x), B)
    OBVIOUS
  <2>1. InOrder(ops, B) /\ Follows(x, B \cup Range(ops))
    BY DEF QueuesInOrder
  <2> HIDE DEF B
  <2>2. QED
    BY <1>1, <2>1, InOrderAppend
<1>4. ASSUME m2b = "running", NEW c \in Clients
      PROVE  Seen(c, B \cup Range(ops')) = (1..taken'[c]) \ LocalRequests
  <2>1. B \cup Range(ops') = (B \cup Range(ops)) \cup {x}
    BY <1>2
  <2>2. QED
    BY <1>4, <2>1
<1>5. QED
  BY <1>3, <1>4 DEF QueuesInOrder

\* The end of an ingest task puts nothing into the adapter's order.
LEMMA EndInOrder ==
  ASSUME QueueTypes, QueuesInOrder, NEW c \in Clients, NEW how, IngestEnds(c, how),
         UNCHANGED <<loop, to_upstream, adapter_in, m2b>>,
         \A d \in Clients : (1..taken'[d]) \ LocalRequests = (1..taken[d]) \ LocalRequests
  PROVE  QueuesInOrder'
<1>1. CASE loop # "running"
  BY <1>1 DEF IngestEnds, QueuesInOrder
<1>2. CASE loop = "running"
  <2> DEFINE S == Range(adapter_in) \cup Range(to_upstream) \cup Range(ops)
             x == <<c, 0>>
  <2>1. ops' = Append(ops, x) /\ x \in Clients \X Nat
    BY <1>2 DEF IngestEnds
  <2>2. Follows(x, S) /\ \A d \in Clients : Seen(d, S \cup {x}) = Seen(d, S)
    BY DetachUnseen
  <2>3. m2b = "running" => \A d \in Clients : Seen(d, S) = (1..taken[d]) \ LocalRequests
    BY <1>2 DEF QueuesInOrder
  <2> HIDE DEF x
  <2>4. m2b = "running" => \A d \in Clients : Seen(d, S \cup {x}) = (1..taken'[d]) \ LocalRequests
    BY <2>2, <2>3
  <2>5. QED
    BY <1>2, <2>1, <2>2, <2>4, OpsGrow
<1>3. QED
  BY <1>1, <1>2

\* The loop stops: what is in its queue goes nowhere.
LEMMA StopInOrder ==
  ASSUME QueuesInOrder, loop' # "running", ops' = <<>>,
         UNCHANGED <<to_upstream, adapter_in, m2b>>
  PROVE  QueuesInOrder'
<1>1. \A S : InOrder(<<>>, S)
  <2>1. Len(<<>>) = 0
    OBVIOUS
  <2>2. QED
    BY <2>1 DEF InOrder
<1>2. QED
  BY <1>1 DEF QueuesInOrder

\* mux_to_backend is over, and wrote at most the bridge's own disconnect.
LEMMA M2bOverInOrder ==
  ASSUME QueueTypes, QueuesInOrder, m2b = "running", m2b' # "running",
         adapter_in' = adapter_in \/ adapter_in' = Append(adapter_in, Disconnect),
         UNCHANGED <<loop, ops>>
  PROVE  QueuesInOrder'
<1> DEFINE T == Forwarded \cup {Disconnect}
<1>1. adapter_in \in Seq(T) /\ Disconnect \in T
  BY DEF QueueTypes
<1>2. /\ InOrder(adapter_in, {}) /\ Disconnect \notin Range(adapter_in)
      /\ \A i \in 1..Len(adapter_in) : adapter_in[i] = Disconnect => i = Len(adapter_in)
      /\ loop # "running" => ops = <<>>
  BY DEF QueuesInOrder
<1> HIDE DEF T
<1>3. Follows(Disconnect, {} \cup Range(adapter_in))
  BY DetachUnseen DEF Disconnect
<1>4. InOrder(Append(adapter_in, Disconnect), {})
  BY <1>1, <1>2, <1>3, InOrderAppend
<1>5. /\ Len(adapter_in) \in Nat /\ Len(Append(adapter_in, Disconnect)) = Len(adapter_in) + 1
      /\ \A i \in 1..Len(adapter_in) : Append(adapter_in, Disconnect)[i] = adapter_in[i]
      /\ DOMAIN adapter_in = 1..Len(adapter_in)
  BY <1>1, AppendProperties, LenProperties
<1>6. \A i \in 1..Len(adapter_in) : adapter_in[i] # Disconnect
  BY <1>2, <1>5 DEF Range
<1>7. ASSUME adapter_in' = Append(adapter_in, Disconnect), NEW i \in 1..Len(adapter_in'),
             adapter_in'[i] = Disconnect
      PROVE  i = Len(adapter_in')
  <2>1. i \in 1..Len(adapter_in) \/ i = Len(adapter_in) + 1
    BY <1>5, <1>7
  <2>2. QED
    BY <1>5, <1>6, <1>7, <2>1
<1>8. InOrder(adapter_in', {})
  BY <1>2, <1>4
<1>9. \A i \in 1..Len(adapter_in') : adapter_in'[i] = Disconnect => i = Len(adapter_in')
  BY <1>2, <1>7
<1>10. QED
  BY <1>2, <1>8, <1>9 DEF QueuesInOrder

\* The loop hands requests on in the order in which it took them.
LEMMA LoopOpInOrder ==
  ASSUME QueueTypes, QueuesInOrder, LoopOp
  PROVE  QueuesInOrder'
<1> DEFINE x == Head(ops)
           A == Range(adapter_in)
           U == Range(to_upstream)
           T == Clients \X Nat
<1>1. ops \in Seq(T) /\ ops # <<>> /\ to_upstream \in Seq(Forwarded)
  BY DEF QueueTypes, LoopOp
<1>2. x \in T /\ Range(ops) = {x} \cup Range(Tail(ops))
  BY <1>1, QueueTaken, RangeTail
<1>3. PICK c \in Clients, n \in Nat : x = <<c, n>>
  BY <1>2
<1>4. m2b = "running" =>
        /\ InOrder(ops, A \cup U) /\ InOrder(to_upstream, A) /\ loop = "running"
        /\ \A d \in Clients : Seen(d, (A \cup U) \cup Range(ops)) = (1..taken[d]) \ LocalRequests
  BY DEF QueuesInOrder, LoopOp
<1> HIDE DEF T
<1>5. m2b = "running" => Follows(x, A \cup U) /\ InOrder(Tail(ops), (A \cup U) \cup {x})
  BY <1>1, <1>4, InOrderTail
<1>6. /\ UNCHANGED <<adapter_in, m2b, taken>> /\ loop = "running"
      /\ \/ n = 0 /\ UNCHANGED <<loop, to_upstream>> /\ ops' = Tail(ops)
         \/ /\ n > 0 /\ m2b = "running" /\ UNCHANGED loop
            /\ ops' = Tail(ops) /\ to_upstream' = Append(to_upstream, x)
         \/ loop' = "failed" /\ ops' = <<>> /\ UNCHANGED to_upstream
  BY <1>3, SMTT(40) DEF LoopOp, LoopStops, tasks
<1> HIDE DEF x
<1>7. CASE n = 0 /\ UNCHANGED <<loop, to_upstream>> /\ ops' = Tail(ops)
  <2>1. m2b = "running" => InOrder(Tail(ops), A \cup U)
    BY <1>3, <1>5, <1>7, DetachUnseen
  <2>2. ASSUME m2b = "running", NEW d \in Clients
        PROVE  Seen(d, (A \cup U) \cup Range(Tail(ops))) = (1..taken[d]) \ LocalRequests
    <3> DEFINE S == (A \cup U) \cup Range(Tail(ops))
    <3>1. (A \cup U) \cup Range(ops) = S \cup {<<c, 0>>}
      BY <1>2, <1>3, <1>7
    <3>2. Seen(d, S \cup {<<c, 0>>}) = Seen(d, S)
      BY DetachUnseen
    <3>3. QED
      BY <1>4, <2>2, <3>1, <3>2
  <2>3. QED
    BY <1>6, <1>7, <2>1, <2>2 DEF QueuesInOrder
<1>8. CASE /\ n > 0 /\ m2b = "running" /\ UNCHANGED loop
           /\ ops' = Tail(ops) /\ to_upstream' = Append(to_upstream, x)
  <2>1. x \in Forwarded
    BY <1>3, <1>8 DEF Forwarded
  <2>2. Range(to_upstream') = U \cup {x} /\ InOrder(to_upstream', A)
    BY <1>1, <1>4, <1>5, <1>8, <2>1, RangeAppend, InOrderAppend
  <2>3. (A \cup U) \cup {x} = A \cup Range(to_upstream')
    BY <2>2
  <2>4. InOrder(ops', A \cup Range(to_upstream'))
    BY <1>5, <1>8, <2>3
  <2>5. (A \cup Range(to_upstream')) \cup Range(ops') = (A \cup U) \cup Range(ops)
    BY <1>2, <1>8, <2>2
  <2>6. \A d \in Clients : Seen(d, (A \cup Range(to_upstream')) \cup Range(ops'))
                             = (1..taken[d]) \ LocalRequests
    BY <1>4, <1>8, <2>5
  <2>7. QED
    BY <1>6, <1>8, <2>2, <2>4, <2>6 DEF QueuesInOrder
<1>9. CASE loop' = "failed" /\ ops' = <<>> /\ UNCHANGED to_upstream
  BY <1>6, <1>9, StopInOrder
<1>10. QED
  BY <1>6, <1>7, <1>8, <1>9

\* mux_to_backend writes what it took, before anything that is queued behind it.
LEMMA M2bWriteInOrder ==
  ASSUME QueueTypes, QueuesInOrder, M2bWrite
  PROVE  QueuesInOrder'
<1> DEFINE x == Head(to_upstream)
           A == Range(adapter_in)
           T == Forwarded \cup {Disconnect}
<1>1. adapter_in \in Seq(T) /\ to_upstream \in Seq(Forwarded) /\ to_upstream # <<>>
  BY DEF QueueTypes, M2bWrite
<1>2. x \in Forwarded /\ Range(to_upstream) = {x} \cup Range(Tail(to_upstream))
  BY <1>1, QueueTaken, RangeTail
<1>3. x \in T /\ x # Disconnect
  BY <1>2 DEF Forwarded, Disconnect
<1>4. /\ m2b = "running" /\ UNCHANGED <<loop, ops, taken>> /\ to_upstream' = Tail(to_upstream)
      /\ \/ adapter_in' = Append(adapter_in, x) /\ UNCHANGED m2b
         \/ m2b' = "failed" /\ UNCHANGED adapter_in
  BY DEF M2bWrite, tasks
<1> HIDE DEF T, x
<1>5. CASE m2b' = "failed" /\ UNCHANGED adapter_in
  BY <1>4, <1>5, M2bOverInOrder
<1>6. CASE adapter_in' = Append(adapter_in, x) /\ UNCHANGED m2b
  <2>1. /\ InOrder(adapter_in, {}) /\ InOrder(to_upstream, A) /\ Disconnect \notin A
        /\ InOrder(ops, A \cup Range(to_upstream)) /\ (loop # "running" => ops = <<>>)
    BY <1>4 DEF QueuesInOrder
  <2>2. Follows(x, A) /\ InOrder(Tail(to_upstream), A \cup {x})
    BY <1>1, <2>1, InOrderTail DEF x
  <2>3. Range(adapter_in') = A \cup {x}
    BY <1>1, <1>3, <1>6, RangeAppend
  <2>4. InOrder(adapter_in', {})
    <3>1. {} \cup A = A
      OBVIOUS
    <3>2. Follows(x, {} \cup Range(adapter_in))
      BY <2>2, <3>1
    <3>3. QED
      BY <1>1, <1>3, <1>6, <2>1, <3>2, InOrderAppend
  <2>5. Range(adapter_in') \cup Range(to_upstream') = A \cup Range(to_upstream)
    BY <1>2, <1>4, <2>3
  <2>6. Disconnect \notin Range(adapter_in')
    BY <1>3, <2>1, <2>3
  <2>7. \A i \in 1..Len(adapter_in') : adapter_in'[i] # Disconnect
    <3>1. adapter_in' \in Seq(T)
      BY <1>1, <1>3, <1>6, AppendProperties
    <3>2. DOMAIN adapter_in' = 1..Len(adapter_in')
      BY <3>1, LenProperties
    <3>3. QED
      BY <2>6, <3>2 DEF Range
  <2>8. loop' = "running" => \A c \in Clients :
          Seen(c, Range(adapter_in') \cup Range(to_upstream') \cup Range(ops'))
            = (1..taken'[c]) \ LocalRequests
    BY <1>4, <2>5 DEF QueuesInOrder
  <2>9. /\ InOrder(to_upstream', Range(adapter_in'))
        /\ InOrder(ops', Range(adapter_in') \cup Range(to_upstream'))
    BY <1>4, <2>1, <2>2, <2>3, <2>5
  <2>10. QED
    BY <1>4, <2>1, <2>4, <2>6, <2>7, <2>8, <2>9 DEF QueuesInOrder
<1>7. QED
  BY <1>4, <1>5, <1>6

\* What the clients and their tasks are is kept.
LEMMA ClientTypesStep ==
  ASSUME ClientTypes, QueueTypes, [Next]_vars
  PROVE  ClientTypes'
<1>1. CASE UNCHANGED <<writes, reads, sent, taken, bridge, ingest, egress, outbound, adapter_out>>
  BY <1>1 DEF ClientTypes
<1>2. ASSUME NEW c \in Clients, PeerSends(c) PROVE ClientTypes'
  BY <1>2, ClientFacts DEF PeerSends, ClientTypes, peers, tasks, inner, back, Connected
<1>3. ASSUME NEW c \in Clients, PeerLeaves(c) PROVE ClientTypes'
  BY <1>3, ClientFacts, SMTT(40) DEF PeerLeaves, ClientTypes, peers, tasks, inner, back, Connected
<1>4. ASSUME NEW c \in Clients, Connect(c) PROVE ClientTypes'
  BY <1>4, ClientFacts DEF Connect, ClientTypes, peers, tasks, inner, back, Connected
<1>5. ASSUME NEW c \in Clients, AnswerLocally(c) PROVE ClientTypes'
  <2>1. taken' \in [Clients -> Nat] /\ sent' = sent /\ sent' \in [Clients -> Nat]
        /\ \A d \in Clients : taken'[d] \in 0..sent'[d] /\ sent'[d] \in 0..Limit(d)
    BY <1>5, TakenTypes DEF AnswerLocally, peers
  <2>2. /\ bridge' \in [Clients -> {"off", "serving", "draining", "done"}]
        /\ ingest' \in [Clients -> {"reading", "ended", "failed"}]
    <3>1. CASE UNCHANGED <<ingest, bridge>>
      BY <3>1 DEF ClientTypes
    <3>2. CASE IngestEnds(c, "failed")
      BY <3>2, EndTypes
    <3>3. QED
      BY <1>5, <3>1, <3>2 DEF AnswerLocally
  <2>3. UNCHANGED <<writes, reads, egress, outbound, adapter_out>>
    BY <1>5 DEF AnswerLocally, peers, back
  <2>4. QED
    BY <2>1, <2>2, <2>3 DEF ClientTypes
<1>6. ASSUME NEW c \in Clients, TakeRequest(c) PROVE ClientTypes'
  <2>1. taken' \in [Clients -> Nat] /\ sent' = sent /\ sent' \in [Clients -> Nat]
        /\ \A d \in Clients : taken'[d] \in 0..sent'[d] /\ sent'[d] \in 0..Limit(d)
    BY <1>6, TakenTypes DEF TakeRequest, peers
  <2>2. /\ bridge' \in [Clients -> {"off", "serving", "draining", "done"}]
        /\ ingest' \in [Clients -> {"reading", "ended", "failed"}]
    <3>1. CASE UNCHANGED <<ingest, bridge>>
      BY <3>1 DEF ClientTypes
    <3>2. CASE IngestEnds(c, "failed")
      BY <3>2, EndTypes
    <3>3. QED
      BY <1>6, <3>1, <3>2 DEF TakeRequest
  <2>3. UNCHANGED <<writes, reads, egress, outbound, adapter_out>>
    BY <1>6 DEF TakeRequest, peers, back
  <2>4. QED
    BY <2>1, <2>2, <2>3 DEF ClientTypes
<1>7. ASSUME NEW c \in Clients, IngestEof(c) PROVE ClientTypes'
  BY <1>7, ClientFacts, SMTT(40) DEF IngestEof, ClientTypes, peers, tasks, inner, back, IngestEnds
<1>8. ASSUME NEW c \in Clients, IngestError(c) PROVE ClientTypes'
  BY <1>8, ClientFacts DEF IngestError, ClientTypes, peers, tasks, inner, back, IngestEnds
<1>9. ASSUME NEW c \in Clients, BridgeEnds(c) PROVE ClientTypes'
  BY <1>9, ClientFacts DEF BridgeEnds, ClientTypes, peers, tasks, inner, back, Reading
<1>10. ASSUME NEW c \in Clients, EgressWrites(c) PROVE ClientTypes'
  <2>1. outbound[c] \in Seq(Forwarded) /\ outbound[c] # <<>>
    BY <1>10 DEF EgressWrites, ClientTypes
  <2>2. Tail(outbound[c]) \in Seq(Forwarded)
    BY <2>1, QueueTaken
  <2>3. outbound' \in [Clients -> Seq(Forwarded)]
    <3>1. PICK rest \in Seq(Forwarded) : outbound' = [outbound EXCEPT ![c] = rest]
      BY <1>10, <2>2, EmptySeq DEF EgressWrites
    <3>2. QED
      BY <3>1 DEF ClientTypes
  <2>4. egress' \in [Clients -> {"writing", "ended", "failed"}]
    BY <1>10 DEF EgressWrites, ClientTypes
  <2>5. UNCHANGED <<writes, reads, sent, taken, bridge, ingest, adapter_out>>
    BY <1>10 DEF EgressWrites, peers, back
  <2>6. QED
    BY <2>3, <2>4, <2>5 DEF ClientTypes
<1>11. ASSUME NEW c \in Clients, EgressEnds(c) PROVE ClientTypes'
  BY <1>11, ClientFacts DEF EgressEnds, ClientTypes, peers, tasks, inner, back, Reading
<1>12. ASSUME NEW r \in Range(adapter_in) \ {Disconnect}, AdapterAnswers(r) PROVE ClientTypes'
  BY <1>12, ClientFacts DEF AdapterAnswers, ClientTypes, peers, tasks, inner, back, Says, QueueTypes, Range
<1>13. CASE EditorStopsWriting
  BY <1>13, ClientFacts DEF EditorStopsWriting, ClientTypes, peers, tasks, inner, back, Connected
<1>14. CASE EditorStopsReading
  BY <1>14, ClientFacts DEF EditorStopsReading, ClientTypes, peers, tasks, inner, back, Connected
<1>15. CASE IdleTimeout
  BY <1>15, ClientFacts DEF IdleTimeout, ClientTypes, peers, tasks, inner, back, IngestEnds
<1>16. CASE LoopOp
  <2>1. adapter_out' \in Seq(Forwarded)
    <3>1. adapter_out' = adapter_out \/ adapter_out' = <<>>
      BY <1>16 DEF LoopOp, LoopStops
    <3>2. QED
      BY <3>1, EmptySeq DEF ClientTypes
  <2>2. UNCHANGED <<writes, reads, sent, taken, bridge, ingest, egress, outbound>>
    BY <1>16 DEF LoopOp, peers, tasks
  <2>3. QED
    BY <2>1, <2>2 DEF ClientTypes
<1>17. CASE LoopUpstream
  <2> DEFINE m == Head(adapter_out)
  <2>1. m \in Forwarded /\ Tail(adapter_out) \in Seq(Forwarded) /\ <<>> \in Seq(Forwarded)
    BY <1>17, QueueTaken, EmptySeq DEF LoopUpstream, ClientTypes
  <2>2. adapter_out' \in Seq(Forwarded)
    BY <1>17, <2>1 DEF LoopUpstream, LoopStops
  <2>3. outbound' \in [Clients -> Seq(Forwarded)]
    <3>1. CASE outbound' = [c \in Clients |-> IF c \in Targets(m) THEN Append(outbound[c], m)
                                                                 ELSE outbound[c]]
      <4>1. \A c \in Clients : outbound[c] \in Seq(Forwarded) /\ Append(outbound[c], m) \in Seq(Forwarded)
        BY <2>1, AppendProperties DEF ClientTypes
      <4> HIDE DEF m
      <4>2. QED
        BY <3>1, <4>1
    <3>2. CASE outbound' = outbound
      BY <3>2 DEF ClientTypes
    <3>3. QED
      BY <1>17, <3>1, <3>2 DEF LoopUpstream
  <2>4. UNCHANGED <<writes, reads, sent, taken, bridge, ingest, egress>>
    BY <1>17 DEF LoopUpstream, peers, tasks
  <2>5. QED
    BY <2>2, <2>3, <2>4 DEF ClientTypes
<1>18. CASE LoopEof
  BY <1>18, ClientFacts DEF LoopEof, ClientTypes, peers, tasks, inner, back, LoopStops
<1>19. CASE Close
  BY <1>19, ClientFacts DEF Close, ClientTypes, peers, tasks, inner, back, LoopStops
<1>20. CASE M2bWrite \/ M2bDisconnect \/ B2mEof \/ B2mFails \/ ShutDown \/ Signal
  BY <1>1, <1>20 DEF M2bWrite, M2bDisconnect, B2mEof, B2mFails, ShutDown, Signal, peers, tasks, inner, back
<1>21. CASE MainJoins \/ KillAdapter \/ Exit
  BY <1>1, <1>21 DEF MainJoins, KillAdapter, Exit, peers, tasks, inner, back
<1>22. ASSUME NEW how \in {"hung", "gone"}, AdapterStops(how) PROVE ClientTypes'
  BY <1>1, <1>22 DEF AdapterStops, peers, tasks, inner, back
<1>23. CASE UNCHANGED vars
  BY <1>1, <1>23 DEF vars, peers, tasks, inner, back
<1>24. QED
  BY <1>2, <1>3, <1>4, <1>5, <1>6, <1>7, <1>8, <1>9, <1>10, <1>11, <1>12, <1>13, <1>14, <1>15, <1>16, <1>17, <1>18, <1>19, <1>20, <1>21, <1>22, <1>23 DEF Next, Serve, Drain

\* What the tasks, the adapter and main are is kept.
LEMMA TaskTypesStep ==
  ASSUME TaskTypes, [Next]_vars
  PROVE  TaskTypes'
<1>1. CASE UNCHANGED <<mode, loop, m2b, b2m, adapter, shutdown, session, main>>
  BY <1>1 DEF TaskTypes
<1>2. ASSUME NEW how \in {"hung", "gone"}, AdapterStops(how) PROVE TaskTypes'
  BY <1>2 DEF AdapterStops, TaskTypes, LoopStops, SessionResult, M2bLeaves, peers, tasks, inner, back
<1>3. CASE LoopOp
  BY <1>3 DEF LoopOp, TaskTypes, LoopStops, SessionResult, M2bLeaves, peers, tasks, inner, back
<1>4. CASE LoopUpstream
  BY <1>4 DEF LoopUpstream, TaskTypes, LoopStops, SessionResult, M2bLeaves, peers, tasks, inner, back
<1>5. CASE LoopEof
  BY <1>5 DEF LoopEof, TaskTypes, LoopStops, SessionResult, M2bLeaves, peers, tasks, inner, back
<1>6. CASE M2bWrite
  BY <1>6 DEF M2bWrite, TaskTypes, LoopStops, SessionResult, M2bLeaves, peers, tasks, inner, back
<1>7. CASE M2bDisconnect
  BY <1>7 DEF M2bDisconnect, TaskTypes, LoopStops, SessionResult, M2bLeaves, peers, tasks, inner, back
<1>8. CASE B2mEof
  BY <1>8 DEF B2mEof, TaskTypes, LoopStops, SessionResult, M2bLeaves, peers, tasks, inner, back
<1>9. CASE B2mFails
  BY <1>9 DEF B2mFails, TaskTypes, LoopStops, SessionResult, M2bLeaves, peers, tasks, inner, back
<1>10. CASE ShutDown
  BY <1>10 DEF ShutDown, TaskTypes, LoopStops, SessionResult, M2bLeaves, peers, tasks, inner, back
<1>11. CASE Close
  BY <1>11 DEF Close, TaskTypes, LoopStops, SessionResult, M2bLeaves, peers, tasks, inner, back
<1>12. CASE Signal
  BY <1>12 DEF Signal, TaskTypes, LoopStops, SessionResult, M2bLeaves, peers, tasks, inner, back
<1>13. CASE MainJoins
  BY <1>13 DEF MainJoins, TaskTypes, LoopStops, SessionResult, M2bLeaves, peers, tasks, inner, back
<1>14. CASE KillAdapter
  BY <1>14 DEF KillAdapter, TaskTypes, LoopStops, SessionResult, M2bLeaves, peers, tasks, inner, back
<1>15. CASE Exit
  BY <1>15 DEF Exit, TaskTypes, LoopStops, SessionResult, M2bLeaves, peers, tasks, inner, back
<1>16. ASSUME NEW c \in Clients, PeerSends(c) \/ PeerLeaves(c) \/ Connect(c) \/ AnswerLocally(c) \/ TakeRequest(c) \/ IngestEof(c) PROVE TaskTypes'
  BY <1>1, <1>16 DEF PeerSends, PeerLeaves, Connect, AnswerLocally, TakeRequest, IngestEof, peers, tasks, inner, back
<1>17. ASSUME NEW c \in Clients, IngestError(c) \/ BridgeEnds(c) \/ EgressWrites(c) \/ EgressEnds(c) PROVE TaskTypes'
  BY <1>1, <1>17 DEF IngestError, BridgeEnds, EgressWrites, EgressEnds, peers, tasks, inner, back
<1>18. CASE EditorStopsWriting \/ EditorStopsReading \/ IdleTimeout
  BY <1>1, <1>18 DEF EditorStopsWriting, EditorStopsReading, IdleTimeout, peers, tasks, inner, back
<1>19. ASSUME NEW r \in Range(adapter_in) \ {Disconnect}, AdapterAnswers(r) PROVE TaskTypes'
  BY <1>1, <1>19 DEF AdapterAnswers, peers, tasks, inner, back
<1>20. CASE UNCHANGED vars
  BY <1>1, <1>20 DEF vars, peers, tasks, inner, back
<1>21. QED
  BY <1>2, <1>3, <1>4, <1>5, <1>6, <1>7, <1>8, <1>9, <1>10, <1>11, <1>12, <1>13, <1>14, <1>15, <1>16, <1>17, <1>18, <1>19, <1>20 DEF Next, Serve, Drain

\* The tasks of a bridge end in order.
LEMMA TasksFitStep ==
  ASSUME ClientTypes, attached \subseteq Clients, TasksFit, [Next]_vars
  PROVE  TasksFit' /\ attached' \subseteq Clients
<1>1. CASE UNCHANGED <<bridge, ingest, egress, outbound, attached>>
  BY <1>1 DEF TasksFit
<1>2. ASSUME NEW c \in Clients, Connect(c) PROVE TasksFit' /\ attached' \subseteq Clients
  BY <1>2, ClientFacts DEF Connect, TasksFit, peers, tasks, inner, back, ClientTypes, IngestEnds, LoopStops, Reading
<1>3. ASSUME NEW c \in Clients, AnswerLocally(c) PROVE TasksFit' /\ attached' \subseteq Clients
  BY <1>3, ClientFacts DEF AnswerLocally, TasksFit, peers, tasks, inner, back, ClientTypes, IngestEnds, LoopStops, Reading
<1>4. ASSUME NEW c \in Clients, TakeRequest(c) PROVE TasksFit' /\ attached' \subseteq Clients
  BY <1>4, ClientFacts DEF TakeRequest, TasksFit, peers, tasks, inner, back, ClientTypes, IngestEnds, LoopStops, Reading
<1>5. ASSUME NEW c \in Clients, IngestEof(c) PROVE TasksFit' /\ attached' \subseteq Clients
  BY <1>5, ClientFacts DEF IngestEof, TasksFit, peers, tasks, inner, back, ClientTypes, IngestEnds, LoopStops, Reading
<1>6. ASSUME NEW c \in Clients, IngestError(c) PROVE TasksFit' /\ attached' \subseteq Clients
  BY <1>6, ClientFacts DEF IngestError, TasksFit, peers, tasks, inner, back, ClientTypes, IngestEnds, LoopStops, Reading
<1>7. ASSUME NEW c \in Clients, BridgeEnds(c) PROVE TasksFit' /\ attached' \subseteq Clients
  BY <1>7, ClientFacts, SMTT(40) DEF BridgeEnds, TasksFit, peers, tasks, inner, back, ClientTypes, IngestEnds, LoopStops, Reading
<1>8. ASSUME NEW c \in Clients, EgressWrites(c) PROVE TasksFit' /\ attached' \subseteq Clients
  BY <1>8, ClientFacts DEF EgressWrites, TasksFit, peers, tasks, inner, back, ClientTypes, IngestEnds, LoopStops, Reading
<1>9. ASSUME NEW c \in Clients, EgressEnds(c) PROVE TasksFit' /\ attached' \subseteq Clients
  BY <1>9, ClientFacts DEF EgressEnds, TasksFit, peers, tasks, inner, back, ClientTypes, IngestEnds, LoopStops, Reading
<1>10. CASE IdleTimeout
  BY <1>10, ClientFacts DEF IdleTimeout, TasksFit, peers, tasks, inner, back, ClientTypes, IngestEnds, LoopStops, Reading
<1>11. CASE LoopOp
  BY <1>11, ClientFacts DEF LoopOp, TasksFit, peers, tasks, inner, back, ClientTypes, IngestEnds, LoopStops, Reading
<1>12. CASE LoopUpstream
  <2> DEFINE m == Head(adapter_out)
  <2>1. attached' \subseteq attached /\ UNCHANGED <<bridge, ingest, egress>>
    BY <1>12 DEF LoopUpstream, LoopStops, tasks
  <2>2. ASSUME NEW c \in Clients, outbound'[c] # outbound[c]
        PROVE  c \in attached /\ egress[c] = "writing"
    <3> HIDE DEF m
    <3>1. QED
      BY <1>12, <2>2 DEF LoopUpstream, LoopStops, Receiving, ClientTypes, m
  <2>3. QED
    BY <2>1, <2>2 DEF TasksFit
<1>13. CASE LoopEof
  BY <1>13, ClientFacts DEF LoopEof, TasksFit, peers, tasks, inner, back, ClientTypes, IngestEnds, LoopStops, Reading
<1>14. CASE Close
  BY <1>14, ClientFacts DEF Close, TasksFit, peers, tasks, inner, back, ClientTypes, IngestEnds, LoopStops, Reading
<1>15. ASSUME NEW c \in Clients, PeerSends(c) \/ PeerLeaves(c) PROVE TasksFit' /\ attached' \subseteq Clients
  BY <1>1, <1>15 DEF PeerSends, PeerLeaves, peers, tasks, inner, back
<1>16. CASE EditorStopsWriting \/ EditorStopsReading \/ M2bWrite \/ M2bDisconnect \/ B2mEof \/ B2mFails
  BY <1>1, <1>16 DEF EditorStopsWriting, EditorStopsReading, M2bWrite, M2bDisconnect, B2mEof, B2mFails, peers, tasks, inner, back
<1>17. CASE ShutDown \/ Signal \/ MainJoins \/ KillAdapter \/ Exit
  BY <1>1, <1>17 DEF ShutDown, Signal, MainJoins, KillAdapter, Exit, peers, tasks, inner, back
<1>18. ASSUME NEW r \in Range(adapter_in) \ {Disconnect}, AdapterAnswers(r) PROVE TasksFit' /\ attached' \subseteq Clients
  BY <1>1, <1>18 DEF AdapterAnswers, peers, tasks, inner, back
<1>19. ASSUME NEW how \in {"hung", "gone"}, AdapterStops(how) PROVE TasksFit' /\ attached' \subseteq Clients
  BY <1>1, <1>19 DEF AdapterStops, peers, tasks, inner, back
<1>20. CASE UNCHANGED vars
  BY <1>1, <1>20 DEF vars, peers, tasks, inner, back
<1>21. QED
  BY <1>2, <1>3, <1>4, <1>5, <1>6, <1>7, <1>8, <1>9, <1>10, <1>11, <1>12, <1>13, <1>14, <1>15, <1>16, <1>17, <1>18, <1>19, <1>20 DEF Next, Serve, Drain

\* What the queues hold is kept.
LEMMA QueueTypesStep ==
  ASSUME ClientTypes, QueueTypes, [Next]_vars
  PROVE  QueueTypes'
<1>1. CASE UNCHANGED <<ops, to_upstream, adapter_in, answered>>
  BY <1>1 DEF QueueTypes
<1>2. ASSUME NEW c \in Clients, AnswerLocally(c) PROVE QueueTypes'
  <2>1. ops' = ops \/ ops' = Append(ops, <<c, 0>>)
    BY <1>2 DEF AnswerLocally, IngestEnds
  <2>2. <<c, 0>> \in Clients \X Nat
    OBVIOUS
  <2>3. ops' \in Seq(Clients \X Nat)
    BY <2>1, <2>2, OpsAppend DEF QueueTypes
  <2>4. QED
    BY <1>2, <2>3 DEF AnswerLocally, QueueTypes, back
<1>3. ASSUME NEW c \in Clients, TakeRequest(c) PROVE QueueTypes'
  <2>1. ops' = Append(ops, <<c, taken[c] + 1>>) \/ ops' = Append(ops, <<c, 0>>) \/ ops' = ops
    BY <1>3 DEF TakeRequest, IngestEnds, ClientTypes
  <2>2. taken[c] + 1 \in Nat
    BY DEF ClientTypes
  <2>3. <<c, 0>> \in Clients \X Nat /\ <<c, taken[c] + 1>> \in Clients \X Nat
    BY <2>2
  <2>4. ops' \in Seq(Clients \X Nat)
    BY <2>1, <2>3, OpsAppend DEF QueueTypes
  <2>5. QED
    BY <1>3, <2>4 DEF TakeRequest, QueueTypes, back
<1>4. ASSUME NEW c \in Clients, IngestEof(c) PROVE QueueTypes'
  <2>1. ops' = ops \/ ops' = Append(ops, <<c, 0>>)
    BY <1>4 DEF IngestEof, IngestEnds
  <2>2. <<c, 0>> \in Clients \X Nat
    OBVIOUS
  <2>3. ops' \in Seq(Clients \X Nat)
    BY <2>1, <2>2, OpsAppend DEF QueueTypes
  <2>4. QED
    BY <1>4, <2>3 DEF IngestEof, QueueTypes, back
<1>5. ASSUME NEW c \in Clients, IngestError(c) PROVE QueueTypes'
  <2>1. ops' = ops \/ ops' = Append(ops, <<c, 0>>)
    BY <1>5 DEF IngestError, IngestEnds
  <2>2. <<c, 0>> \in Clients \X Nat
    OBVIOUS
  <2>3. ops' \in Seq(Clients \X Nat)
    BY <2>1, <2>2, OpsAppend DEF QueueTypes
  <2>4. QED
    BY <1>5, <2>3 DEF IngestError, QueueTypes, back
<1>6. ASSUME NEW r \in Range(adapter_in) \ {Disconnect}, AdapterAnswers(r) PROVE QueueTypes'
  BY <1>6 DEF AdapterAnswers, QueueTypes, inner
<1>7. CASE IdleTimeout
  <2>1. ops' = ops \/ ops' = Append(ops, <<Editor, 0>>)
    BY <1>7 DEF IdleTimeout, IngestEnds
  <2>2. <<Editor, 0>> \in Clients \X Nat
    BY ClientFacts
  <2>3. ops' \in Seq(Clients \X Nat)
    BY <2>1, <2>2, OpsAppend DEF QueueTypes
  <2>4. QED
    BY <1>7, <2>3 DEF IdleTimeout, QueueTypes, back
<1>8. CASE LoopOp
  <2> DEFINE x == Head(ops)
  <2>1. x \in Clients \X Nat /\ Tail(ops) \in Seq(Clients \X Nat) /\ <<>> \in Seq(Clients \X Nat)
    BY <1>8, QueueTaken, EmptySeq DEF LoopOp, QueueTypes
  <2>2. ops' \in Seq(Clients \X Nat)
    BY <1>8, <2>1 DEF LoopOp, LoopStops
  <2>3. to_upstream' \in Seq(Forwarded)
    <3>1. CASE to_upstream' = to_upstream
      BY <3>1 DEF QueueTypes
    <3>2. CASE x[2] > 0 /\ to_upstream' = Append(to_upstream, <<x[1], x[2]>>)
      <4>1. <<x[1], x[2]>> \in Forwarded
        BY <2>1, <3>2 DEF Forwarded
      <4>2. QED
        BY <3>2, <4>1, AppendProperties DEF QueueTypes
    <3>3. QED
      BY <1>8, <3>1, <3>2 DEF LoopOp
  <2>4. QED
    BY <1>8, <2>2, <2>3 DEF LoopOp, QueueTypes
<1>9. CASE LoopUpstream
  <2>1. ops' \in Seq(Clients \X Nat)
    BY <1>9, EmptySeq DEF LoopUpstream, LoopStops, QueueTypes
  <2>2. QED
    BY <1>9, <2>1 DEF LoopUpstream, QueueTypes, back
<1>10. CASE LoopEof
  <2>1. ops' \in Seq(Clients \X Nat)
    BY <1>10, EmptySeq DEF LoopEof, LoopStops, QueueTypes
  <2>2. QED
    BY <1>10, <2>1 DEF LoopEof, QueueTypes, back
<1>11. CASE M2bWrite
  <2> DEFINE x == Head(to_upstream)
  <2>1. x \in Forwarded /\ Tail(to_upstream) \in Seq(Forwarded)
    BY <1>11, QueueTaken DEF M2bWrite, QueueTypes
  <2>2. to_upstream' \in Seq(Forwarded) /\ UNCHANGED <<ops, answered>>
    BY <1>11, <2>1 DEF M2bWrite
  <2>3. adapter_in' = adapter_in \/ adapter_in' = Append(adapter_in, x)
    BY <1>11 DEF M2bWrite
  <2> HIDE DEF x
  <2>4. adapter_in' \in Seq(Forwarded \cup {Disconnect}) /\ Range(adapter_in) \subseteq Range(adapter_in')
    <3>1. x \in Forwarded \cup {Disconnect}
      BY <2>1
    <3>2. QED
      BY <2>3, <3>1, AdapterInAppend DEF QueueTypes
  <2>5. QED
    BY <2>2, <2>4 DEF QueueTypes
<1>12. CASE M2bDisconnect
  <2>1. adapter_in' = adapter_in \/ adapter_in' = Append(adapter_in, Disconnect)
    BY <1>12 DEF M2bDisconnect
  <2>2. adapter_in' \in Seq(Forwarded \cup {Disconnect}) /\ Range(adapter_in) \subseteq Range(adapter_in')
    <3>1. Disconnect \in Forwarded \cup {Disconnect}
      OBVIOUS
    <3>2. QED
      BY <2>1, <3>1, AdapterInAppend DEF QueueTypes
  <2>3. QED
    BY <1>12, <2>2 DEF M2bDisconnect, QueueTypes, inner
<1>13. CASE Close
  <2>1. ops' \in Seq(Clients \X Nat)
    BY <1>13, EmptySeq DEF Close, LoopStops, QueueTypes
  <2>2. QED
    BY <1>13, <2>1 DEF Close, QueueTypes, back
<1>14. ASSUME NEW c \in Clients, PeerSends(c) \/ PeerLeaves(c) \/ Connect(c) \/ BridgeEnds(c) \/ EgressWrites(c) \/ EgressEnds(c) PROVE QueueTypes'
  BY <1>1, <1>14 DEF PeerSends, PeerLeaves, Connect, BridgeEnds, EgressWrites, EgressEnds, peers, tasks, inner, back
<1>15. CASE EditorStopsWriting \/ EditorStopsReading \/ B2mEof \/ B2mFails \/ ShutDown \/ Signal
  BY <1>1, <1>15 DEF EditorStopsWriting, EditorStopsReading, B2mEof, B2mFails, ShutDown, Signal, peers, tasks, inner, back
<1>16. CASE MainJoins \/ KillAdapter \/ Exit
  BY <1>1, <1>16 DEF MainJoins, KillAdapter, Exit, peers, tasks, inner, back
<1>17. ASSUME NEW how \in {"hung", "gone"}, AdapterStops(how) PROVE QueueTypes'
  BY <1>1, <1>17 DEF AdapterStops, peers, tasks, inner, back
<1>18. CASE UNCHANGED vars
  BY <1>1, <1>18 DEF vars, peers, tasks, inner, back
<1>19. QED
  BY <1>2, <1>3, <1>4, <1>5, <1>6, <1>7, <1>8, <1>9, <1>10, <1>11, <1>12, <1>13, <1>14, <1>15, <1>16, <1>17, <1>18 DEF Next, Serve, Drain

\* Every step keeps the order of the queues.
LEMMA QueuesInOrderStep ==
  ASSUME ClientTypes, QueueTypes, QueuesInOrder, [Next]_vars
  PROVE  QueuesInOrder'
<1>1. CASE UNCHANGED <<loop, ops, to_upstream, adapter_in, m2b, taken>>
  BY <1>1 DEF QueuesInOrder
<1>2. ASSUME NEW c \in Clients, AnswerLocally(c) PROVE QueuesInOrder'
  <2>1. UNCHANGED <<loop, to_upstream, adapter_in, m2b>>
    BY <1>2 DEF AnswerLocally, back
  <2>2. ASSUME NEW d \in Clients
        PROVE  (1..taken'[d]) \ LocalRequests = (1..taken[d]) \ LocalRequests
    <3>1. taken[d] \in Nat /\ taken[c] + 1 \in LocalRequests
      BY <1>2 DEF AnswerLocally, ClientTypes
    <3>2. taken'[d] = IF d = c THEN taken[c] + 1 ELSE taken[d]
      BY <1>2 DEF AnswerLocally, ClientTypes
    <3>3. QED
      BY <3>1, <3>2
  <2>3. CASE IngestEnds(c, "failed")
    BY <2>1, <2>2, <2>3, EndInOrder
  <2>4. CASE ops' = ops
    BY <2>1, <2>2, <2>4 DEF QueuesInOrder
  <2>5. QED
    BY <1>2, <2>3, <2>4 DEF AnswerLocally
<1>3. ASSUME NEW c \in Clients, TakeRequest(c) PROVE QueuesInOrder'
  <2> DEFINE n == taken[c] + 1
             x == <<c, n>>
             S == Range(adapter_in) \cup Range(to_upstream) \cup Range(ops)
  <2>1. UNCHANGED <<loop, to_upstream, adapter_in, m2b>> /\ n \notin LocalRequests
    BY <1>3 DEF TakeRequest, back
  <2>2. \A d \in Clients : taken[d] \in Nat /\ taken'[d] = IF d = c THEN n ELSE taken[d]
    BY <1>3 DEF TakeRequest, ClientTypes
  <2>3. CASE loop = "running"
    <3>1. ops' = Append(ops, x) /\ x \in Clients \X Nat
      BY <1>3, <2>2, <2>3 DEF TakeRequest
    <3>2. m2b = "running" => \A d \in Clients : Seen(d, S) = (1..taken[d]) \ LocalRequests
      BY <2>3 DEF QueuesInOrder
    <3>3. m2b = "running" => Follows(x, S)
      <4>1. n - 1 = taken[c]
        BY <2>2
      <4>2. QED
        BY <2>1, <3>2, <4>1 DEF Follows
    <3>4. ASSUME m2b = "running", NEW d \in Clients
          PROVE  Seen(d, S \cup {x}) = (1..taken'[d]) \ LocalRequests
      <4>1. CASE d = c
        <5>1. Seen(d, S \cup {x}) = Seen(c, S) \cup {n}
          BY <2>2, <4>1 DEF Seen
        <5>2. 1..n = (1..taken[c]) \cup {n}
          BY <2>2
        <5>3. QED
          BY <2>1, <2>2, <3>2, <3>4, <4>1, <5>1, <5>2
      <4>2. CASE d # c
        <5>1. Seen(d, S \cup {x}) = Seen(d, S)
          BY <4>2 DEF Seen
        <5>2. QED
          BY <2>2, <3>2, <3>4, <4>2, <5>1
      <4>3. QED
        BY <4>1, <4>2
    <3> HIDE DEF x
    <3>5. QED
      BY <2>1, <2>3, <3>1, <3>3, <3>4, OpsGrow
  <2>4. CASE loop # "running"
    <3>1. ops' = ops
      BY <1>3, <2>4 DEF TakeRequest, IngestEnds
    <3>2. QED
      BY <2>1, <2>4, <3>1 DEF QueuesInOrder
  <2>5. QED
    BY <2>3, <2>4
<1>4. ASSUME NEW c \in Clients, IngestEof(c) PROVE QueuesInOrder'
  <2>1. PICK how \in {"ended", "failed"} : IngestEnds(c, how)
    BY <1>4 DEF IngestEof
  <2>2. UNCHANGED <<loop, to_upstream, adapter_in, m2b, taken>>
    BY <1>4 DEF IngestEof, back
  <2>3. QED
    BY <2>1, <2>2, EndInOrder
<1>5. ASSUME NEW c \in Clients, IngestError(c) PROVE QueuesInOrder'
  <2>1. PICK how \in {"ended", "failed"} : IngestEnds(c, how)
    BY <1>5 DEF IngestError
  <2>2. UNCHANGED <<loop, to_upstream, adapter_in, m2b, taken>>
    BY <1>5 DEF IngestError, back
  <2>3. QED
    BY <2>1, <2>2, EndInOrder
<1>6. CASE IdleTimeout
  <2>1. PICK how \in {"ended", "failed"} : IngestEnds(Editor, how)
    BY <1>6 DEF IdleTimeout
  <2>2. UNCHANGED <<loop, to_upstream, adapter_in, m2b, taken>>
    BY <1>6 DEF IdleTimeout, back
  <2>3. QED
    BY <2>1, <2>2, EndInOrder, ClientFacts
<1>7. CASE LoopOp
  BY <1>7, LoopOpInOrder
<1>8. CASE LoopUpstream
  <2>1. CASE LoopStops("failed")
    BY <1>8, <2>1, StopInOrder DEF LoopUpstream, LoopStops
  <2>2. CASE UNCHANGED <<loop, ops>>
    BY <1>8, <2>2 DEF LoopUpstream, QueuesInOrder, tasks
  <2>3. QED
    BY <1>8, <2>1, <2>2 DEF LoopUpstream
<1>9. CASE LoopEof
  BY <1>9, StopInOrder DEF LoopEof, LoopStops
<1>10. CASE M2bWrite
  BY <1>10, M2bWriteInOrder
<1>11. CASE M2bDisconnect
  BY <1>11, M2bOverInOrder DEF M2bDisconnect, M2bLeaves, inner
<1>12. CASE Close
  BY <1>12, StopInOrder DEF Close, LoopStops
<1>13. ASSUME NEW c \in Clients, PeerSends(c) \/ PeerLeaves(c) \/ Connect(c) \/ BridgeEnds(c) \/ EgressWrites(c) \/ EgressEnds(c) PROVE QueuesInOrder'
  BY <1>1, <1>13 DEF PeerSends, PeerLeaves, Connect, BridgeEnds, EgressWrites, EgressEnds, peers, tasks, inner, back
<1>14. CASE EditorStopsWriting \/ EditorStopsReading \/ B2mEof \/ B2mFails \/ ShutDown \/ Signal
  BY <1>1, <1>14 DEF EditorStopsWriting, EditorStopsReading, B2mEof, B2mFails, ShutDown, Signal, peers, tasks, inner, back
<1>15. CASE MainJoins \/ KillAdapter \/ Exit
  BY <1>1, <1>15 DEF MainJoins, KillAdapter, Exit, peers, tasks, inner, back
<1>16. ASSUME NEW r \in Range(adapter_in) \ {Disconnect}, AdapterAnswers(r) PROVE QueuesInOrder'
  BY <1>1, <1>16 DEF AdapterAnswers, peers, tasks, inner, back
<1>17. ASSUME NEW how \in {"hung", "gone"}, AdapterStops(how) PROVE QueuesInOrder'
  BY <1>1, <1>17 DEF AdapterStops, peers, tasks, inner, back
<1>18. CASE UNCHANGED vars
  BY <1>1, <1>18 DEF vars, peers, tasks, inner, back
<1>19. QED
  BY <1>2, <1>3, <1>4, <1>5, <1>6, <1>7, <1>8, <1>9, <1>10, <1>11, <1>12, <1>13, <1>14, <1>15, <1>16, <1>17, <1>18 DEF Next, Serve, Drain

\* Nothing but a write to the adapter, its end and the end of the session bears on ToldInTime.
LEMMA ToldInTimeStep ==
  ASSUME TaskTypes, QueueTypes, ToldInTime, [Next]_vars
  PROVE  ToldInTime'
<1>1. CASE UNCHANGED <<m2b, b2m, adapter, adapter_in, session>>
  BY <1>1 DEF ToldInTime, Told, B2mFailed
<1>2. ASSUME NEW how \in {"hung", "gone"}, AdapterStops(how) PROVE ToldInTime'
  BY <1>2 DEF AdapterStops, ToldInTime, Told, peers, tasks, inner, back, Told, TaskTypes, BackendJoined, B2mFailed, BackendLate, SessionResult
<1>3. CASE M2bWrite
  <2>1. adapter # "hung" /\ UNCHANGED <<b2m, adapter, session>>
    BY <1>3 DEF M2bWrite
  <2>2. CASE adapter = "up"
    BY <1>3, <2>1, <2>2 DEF M2bWrite, ToldInTime, B2mFailed
  <2>3. CASE adapter # "up"
    BY <2>1, <2>3 DEF ToldInTime, B2mFailed
  <2>4. QED
    BY <2>2, <2>3
<1>4. CASE M2bDisconnect
  <2>1. UNCHANGED <<b2m, adapter, session>> /\ m2b = "running" /\ m2b' # "running"
    BY <1>4 DEF M2bDisconnect, M2bLeaves
  <2>2. adapter = "up" => adapter_in' = Append(adapter_in, Disconnect)
    BY <1>4 DEF M2bDisconnect
  <2>3. Disconnect \in Range(Append(adapter_in, Disconnect))
    BY AdapterInAppend
  <2>4. QED
    BY <2>1, <2>2, <2>3 DEF ToldInTime, Told, B2mFailed
<1>5. CASE B2mEof
  BY <1>5 DEF B2mEof, ToldInTime, Told, peers, tasks, inner, back, Told, TaskTypes, BackendJoined, B2mFailed, BackendLate, SessionResult
<1>6. CASE B2mFails
  BY <1>6 DEF B2mFails, ToldInTime, Told, peers, tasks, inner, back, Told, TaskTypes, BackendJoined, B2mFailed, BackendLate, SessionResult
<1>7. CASE ShutDown
  BY <1>7 DEF ShutDown, ToldInTime, Told, peers, tasks, inner, back, Told, TaskTypes, BackendJoined, B2mFailed, BackendLate, SessionResult
<1>8. CASE Close
  BY <1>8 DEF Close, ToldInTime, Told, peers, tasks, inner, back, Told, TaskTypes, BackendJoined, B2mFailed, BackendLate, SessionResult
<1>9. CASE Signal
  BY <1>9 DEF Signal, ToldInTime, Told, peers, tasks, inner, back, Told, TaskTypes, BackendJoined, B2mFailed, BackendLate, SessionResult
<1>10. CASE KillAdapter
  BY <1>10 DEF KillAdapter, ToldInTime, Told, peers, tasks, inner, back, Told, TaskTypes, BackendJoined, B2mFailed, BackendLate, SessionResult
<1>11. ASSUME NEW c \in Clients, PeerSends(c) \/ PeerLeaves(c) \/ Connect(c) \/ AnswerLocally(c) \/ TakeRequest(c) \/ IngestEof(c) PROVE ToldInTime'
  BY <1>1, <1>11 DEF PeerSends, PeerLeaves, Connect, AnswerLocally, TakeRequest, IngestEof, peers, tasks, inner, back
<1>12. ASSUME NEW c \in Clients, IngestError(c) \/ BridgeEnds(c) \/ EgressWrites(c) \/ EgressEnds(c) PROVE ToldInTime'
  BY <1>1, <1>12 DEF IngestError, BridgeEnds, EgressWrites, EgressEnds, peers, tasks, inner, back
<1>13. CASE EditorStopsWriting \/ EditorStopsReading \/ IdleTimeout \/ LoopOp \/ LoopUpstream \/ LoopEof
  BY <1>1, <1>13 DEF EditorStopsWriting, EditorStopsReading, IdleTimeout, LoopOp, LoopUpstream, LoopEof, peers, tasks, inner, back
<1>14. CASE MainJoins \/ Exit
  BY <1>1, <1>14 DEF MainJoins, Exit, peers, tasks, inner, back
<1>15. ASSUME NEW r \in Range(adapter_in) \ {Disconnect}, AdapterAnswers(r) PROVE ToldInTime'
  BY <1>1, <1>15 DEF AdapterAnswers, peers, tasks, inner, back
<1>16. CASE UNCHANGED vars
  BY <1>1, <1>16 DEF vars, peers, tasks, inner, back
<1>17. QED
  BY <1>2, <1>3, <1>4, <1>5, <1>6, <1>7, <1>8, <1>9, <1>10, <1>11, <1>12, <1>13, <1>14, <1>15, <1>16 DEF Next, Serve, Drain

\* BridgeInv is an invariant: the bridges and the tasks of a proxy are in a state the code
\* means them to be in, and the queues to the adapter are in order.
THEOREM Bridges == Spec => []BridgeInv
<1>1. BridgeInv /\ [Next]_vars => BridgeInv'
  BY ClientTypesStep, TaskTypesStep, QueueTypesStep, TasksFitStep, QueuesInOrderStep, ToldInTimeStep
     DEF BridgeInv
<1>2. QED
  BY InitBridge, <1>1, PTL DEF Spec

\* The invariant gives the property of the run.
LEMMA InvConsistent == BridgeInv => BridgeConsistent
<1> SUFFICES ASSUME BridgeInv PROVE BridgeConsistent
  OBVIOUS
<1>1. TypeOK
  <2>1. attached \subseteq {c \in Clients : bridge[c] # "off"}
    BY DEF BridgeInv, TasksFit
  <2>2. \A c \in Clients : bridge[c] = "done" => c \notin attached \/ egress[c] = "failed"
    BY DEF BridgeInv, TasksFit, ClientTypes
  <2>3. QED
    BY <2>1, <2>2 DEF BridgeInv, TasksFit, ClientTypes, TaskTypes, QueueTypes, TypeOK
<1>2. AdapterReadsInOrder
  <2> SUFFICES ASSUME NEW i \in 1..Len(adapter_in), adapter_in[i] # Disconnect
               PROVE  LET earlier == {adapter_in[j] : j \in 1..(i - 1)}
                          c == adapter_in[i][1]
                          n == adapter_in[i][2]
                      IN earlier \cap ({c} \X Nat) = {c} \X ((1..(n - 1)) \ LocalRequests)
    BY DEF BridgeInv, QueuesInOrder, AdapterReadsInOrder
  <2> DEFINE earlier == {adapter_in[j] : j \in 1..(i - 1)}
  <2>1. /\ Len(adapter_in) \in Nat
        /\ \A j \in 1..Len(adapter_in) : adapter_in[j] \in Forwarded \cup {Disconnect}
    BY ElementOfSeq, LenProperties DEF BridgeInv, QueueTypes
  <2>2. \A j \in 1..Len(adapter_in) : adapter_in[j] = Disconnect => j = Len(adapter_in)
    BY DEF BridgeInv, QueuesInOrder
  <2>3. earlier \subseteq Forwarded
    BY <2>1, <2>2
  <2>4. PICK c \in Clients, n \in Nat \ {0} : adapter_in[i] = <<c, n>>
    BY <2>1 DEF Forwarded
  <2>5. Seen(c, earlier) = (1..(n - 1)) \ LocalRequests
    <3>1. Follows(adapter_in[i], {} \cup earlier)
      BY DEF BridgeInv, QueuesInOrder, InOrder
    <3>2. {} \cup earlier = earlier
      OBVIOUS
    <3> HIDE DEF earlier
    <3>3. QED
      BY <2>4, <3>1, <3>2 DEF Follows
  <2> HIDE DEF earlier
  <2>6. earlier \cap ({c} \X Nat) = {c} \X Seen(c, earlier)
    BY <2>3 DEF Seen, Forwarded
  <2>7. adapter_in[i][1] = c /\ adapter_in[i][2] = n
    BY <2>4
  <2>8. earlier \cap ({c} \X Nat) = {c} \X ((1..(n - 1)) \ LocalRequests)
    BY <2>5, <2>6
  <2>9. QED
    BY <2>7, <2>8 DEF earlier
<1>3. QED
  BY <1>1, <1>2 DEF BridgeConsistent

\* The bridges have their types, and the adapter reads what each client wrote in its order,
\* with nothing twice, nothing left out and nothing after the bridge's own disconnect
\* (run_client_bridge, mux_to_backend).
THEOREM BridgeStaysConsistent == Spec => []BridgeConsistent
BY Bridges, InvConsistent, PTL

\* An adapter that reads is told to disconnect before the guard of a session that ended well
\* kills it, unless mux_to_backend is still to do so when backend_to_mux has failed, at
\* something unreadable or at the closed loop (bridge_backend, BackendBridge::shutdown,
\* AdapterGuard::shutdown).
THEOREM AdapterIsTold == Spec => ToldBeforeKilled
<1>1. BridgeInv /\ [Next]_vars
        => [main = "guards" /\ main' = "returned" /\ session = "ok" /\ adapter = "up"
              => Told \/ (b2m \in {"unreadable", "refused"} /\ m2b = "running")]_vars
  BY DEF BridgeInv, ToldInTime, TaskTypes, B2mFailed
<1>2. QED
  BY Bridges, <1>1, PTL DEF Spec, ToldBeforeKilled

-----------------------------------------------------------------------------
Pieces == [part : {"prefix", "number", "blank", "body"}, of : Nat]

FrameTypes ==
  /\ frames \in Seq([size : Nat \ {0}, readable : BOOLEAN])
  /\ wire \in Seq(Pieces) /\ unwritten \in Seq(Pieces)
  /\ ended \in BOOLEAN /\ torn \in BOOLEAN

Outcomes == {Error, End} \cup {Message(k) : k \in Nat}

\* The places in the stream where the frames begin, the next one's included.
Layout(start) ==
  /\ start \in [1..(Len(frames) + 1) -> Nat] /\ start[1] = 0
  /\ \A k \in 1..Len(frames) : start[k + 1] = start[k] + 3 + frames[k].size
  /\ \A j, k \in 1..(Len(frames) + 1) : j < k => start[j] < start[k]

\* The pieces of s are those of the stream after the first pos ones.
Carries(s, start, pos) ==
  \A i \in 1..Len(s) : \A k \in 1..Len(frames) :
    start[k] < pos + i /\ pos + i <= start[k + 1]
      => s[i] = Frame(k, frames[k].size)[(pos + i) - start[k]]

\* The wire and what is unwritten are the stream after the first pos pieces, and what is
\* unwritten is less than a frame.
InStream(start, pos) ==
  /\ Layout(start) /\ pos \in Nat
  /\ (pos + Len(wire)) + Len(unwritten) = start[Len(frames) + 1]
  /\ Carries(wire, start, pos) /\ Carries(unwritten, start, pos + Len(wire))
  /\ unwritten # <<>> => Len(frames) > 0 /\ start[Len(frames)] < pos + Len(wire)

\* The local variables of a read that took p pieces of the frame k.
Progress(k, p) ==
  \/ p = 0 /\ call \in {Idle, NewCall}
  \/ p = 1 /\ call = [phase |-> "line", line |-> <<Piece("prefix", k)>>, length |-> 0,
                      sawHeader |-> FALSE, body |-> <<>>]
  \/ p = 2 /\ call = [phase |-> "line", line |-> <<>>, length |-> frames[k].size,
                      sawHeader |-> TRUE, body |-> <<>>]
  \/ /\ p \in 3..(2 + frames[k].size)
     /\ call = [phase |-> "body", line |-> <<>>, length |-> frames[k].size,
                sawHeader |-> TRUE, body |-> Body(k, p - 3)]

Returns(i) == IF frames[i].readable THEN Message(i) ELSE Error

\* The reader is where the stream is: every message before is returned, and the read under way
\* took p pieces of the next.
AtPlace(start, pos, p) ==
  /\ results \in Seq(Outcomes) /\ InStream(start, pos) /\ p \in Nat
  /\ Len(results) <= Len(frames) /\ (p > 0 => Len(results) < Len(frames))
  /\ pos = start[Len(results) + 1] + p
  /\ Progress(Len(results) + 1, p)
  /\ \A i \in 1..Len(results) : results[i] = Returns(i)

\* The stream has ended and a read has noticed.
PastEnd ==
  /\ results \in Seq(Outcomes) /\ ended /\ wire = <<>> /\ call \in {Idle, NewCall}
  /\ unwritten # <<>> => Len(frames) > 0
  /\ Len(results) > Complete
  /\ \A i \in 1..Len(results) :
       results[i] = IF i <= Complete THEN Returns(i)
                    ELSE IF i = Complete + 1 /\ unwritten # <<>> THEN Error ELSE End

ReaderInv ==
  FrameTypes /\ (~torn => PastEnd \/ \E start, pos, p : AtPlace(start, pos, p))

\* A function on 1..n is a sequence.
LEMMA FunctionIsSeq ==
  ASSUME NEW S, NEW n \in Nat, NEW f \in [1..n -> S]
  PROVE  f \in Seq(S) /\ Len(f) = n
<1>1. f \in Seq(S)
  BY SeqDef
<1>2. DOMAIN f = 1..Len(f) /\ Len(f) \in Nat
  BY <1>1, LenProperties
<1>3. QED
  BY <1>2

\* The pieces of a message: two of the header line, the empty line, the body.
LEMMA FrameLemma ==
  ASSUME NEW k \in Nat, NEW size \in Nat \ {0}
  PROVE  /\ Frame(k, size) \in Seq(Pieces) /\ Len(Frame(k, size)) = 3 + size
         /\ Frame(k, size)[1] = Piece("prefix", k) /\ Frame(k, size)[2] = Piece("number", k)
         /\ Frame(k, size)[3] = Piece("blank", k)
         /\ \A i \in 4..(3 + size) : Frame(k, size)[i] = Piece("body", k)
<1> DEFINE a == <<Piece("prefix", k), Piece("number", k), Piece("blank", k)>>
           b == Body(k, size)
<1>1. /\ Piece("prefix", k) \in Pieces /\ Piece("number", k) \in Pieces
      /\ Piece("blank", k) \in Pieces /\ Piece("body", k) \in Pieces
  BY DEF Piece, Pieces
<1>2. a \in Seq(Pieces) /\ Len(a) = 3
      /\ a[1] = Piece("prefix", k) /\ a[2] = Piece("number", k) /\ a[3] = Piece("blank", k)
  BY <1>1
<1>3. b \in Seq(Pieces) /\ Len(b) = size /\ \A i \in 1..size : b[i] = Piece("body", k)
  <2>1. b \in [1..size -> Pieces] /\ \A i \in 1..size : b[i] = Piece("body", k)
    BY <1>1 DEF Body
  <2> HIDE DEF b
  <2>2. QED
    BY <2>1, FunctionIsSeq
<1> HIDE DEF a, b
<1>4. /\ a \o b \in Seq(Pieces) /\ Len(a \o b) = Len(a) + Len(b)
      /\ \A i \in 1..(Len(a) + Len(b)) : (a \o b)[i] = IF i <= Len(a) THEN a[i] ELSE b[i - Len(a)]
  BY <1>2, <1>3, ConcatProperties
<1>5. /\ 1 \in 1..(3 + size) /\ 2 \in 1..(3 + size) /\ 3 \in 1..(3 + size)
      /\ \A i \in 4..(3 + size) : i \in 1..(3 + size) /\ i > 3 /\ i - 3 \in 1..size
  OBVIOUS
<1>6. QED
  BY <1>2, <1>3, <1>4, <1>5 DEF Frame, a, b

\* A body that is read piece by piece.
LEMMA BodyLemma ==
  ASSUME NEW k \in Nat, NEW n \in Nat
  PROVE  /\ Body(k, n) \in Seq(Pieces) /\ Len(Body(k, n)) = n
         /\ Append(Body(k, n), Piece("body", k)) = Body(k, n + 1)
         /\ Body(k, n + 1)[1] = Piece("body", k)
<1>1. \A m \in Nat : /\ Body(k, m) \in [1..m -> Pieces]
                     /\ \A i \in 1..m : Body(k, m)[i] = Piece("body", k)
  <2>1. Piece("body", k) \in Pieces
    BY DEF Pieces, Piece
  <2>2. QED
    BY <2>1 DEF Body
<1>2. \A m \in Nat : Body(k, m) \in Seq(Pieces) /\ Len(Body(k, m)) = m
  BY <1>1, FunctionIsSeq
<1>3. Append(Body(k, n), Piece("body", k)) = Body(k, n + 1)
  <2> DEFINE s == Append(Body(k, n), Piece("body", k))
  <2>1. Piece("body", k) \in Pieces
    BY DEF Piece, Pieces
  <2>2. /\ s \in Seq(Pieces) /\ Len(s) = n + 1 /\ s[n + 1] = Piece("body", k)
        /\ \A i \in 1..n : s[i] = Body(k, n)[i]
    BY <1>2, <2>1, AppendProperties
  <2> HIDE DEF s
  <2>3. n + 1 \in Nat /\ \A i \in 1..(n + 1) : i \in 1..n \/ i = n + 1
    OBVIOUS
  <2>4. \A i \in 1..(n + 1) : s[i] = Body(k, n + 1)[i]
    BY <1>1, <2>2, <2>3
  <2>5. s = Body(k, n + 1)
    BY <1>2, <2>2, <2>3, <2>4, SeqEqual
  <2>6. QED
    BY <2>5 DEF s
<1>4. QED
  BY <1>1, <1>2, <1>3

\* Before anything is written the reader is in its place.
LEMMA InitFrames == FramesInit => ReaderInv
<1> SUFFICES ASSUME FramesInit PROVE ReaderInv
  OBVIOUS
<1>1. FrameTypes
  BY EmptySeq DEF FramesInit, FrameTypes
<1>2. AtPlace([k \in 1..1 |-> 0], 0, 0)
  <2> DEFINE start == [k \in 1..1 |-> 0]
  <2>1. start \in [1..1 -> Nat] /\ start[1] = 0 /\ \A j, k \in 1..1 : ~(j < k)
    OBVIOUS
  <2>2. /\ frames = <<>> /\ wire = <<>> /\ unwritten = <<>> /\ results = <<>> /\ call = Idle
        /\ Len(<<>>) = 0
    BY DEF FramesInit
  <2> HIDE DEF start
  <2>3. InStream(start, 0)
    BY <2>1, <2>2 DEF InStream, Layout, Carries
  <2>4. AtPlace(start, 0, 0)
    BY <2>1, <2>2, <2>3 DEF AtPlace, Progress
  <2>5. QED
    BY <2>4 DEF start
<1>3. QED
  BY <1>1, <1>2 DEF ReaderInv

\* The numbers of a reader in its place.
LEMMA PlaceFacts ==
  ASSUME FrameTypes, NEW start, NEW pos, NEW p, AtPlace(start, pos, p)
  PROVE  /\ Len(frames) \in Nat /\ Len(results) \in Nat /\ Len(wire) \in Nat
         /\ Len(unwritten) \in Nat /\ pos \in Nat /\ p \in Nat
         /\ \A k \in 1..(Len(frames) + 1) : start[k] \in Nat
         /\ \A k \in 1..Len(frames) :
              /\ frames[k].size \in Nat \ {0} /\ frames[k].readable \in BOOLEAN
              /\ start[k + 1] = start[k] + 3 + frames[k].size
         /\ \A j, k \in 1..(Len(frames) + 1) : j < k => start[j] < start[k]
         /\ p > 0 => p <= 2 + frames[Len(results) + 1].size
         /\ p = 0 <=> call \in {Idle, NewCall}
         /\ unwritten # <<>> => Len(unwritten) > 0
         /\ unwritten = <<>> => Len(unwritten) = 0
<1>1. /\ Len(frames) \in Nat /\ Len(results) \in Nat /\ Len(wire) \in Nat /\ Len(unwritten) \in Nat
      /\ unwritten # <<>> => Len(unwritten) > 0
      /\ unwritten = <<>> => Len(unwritten) = 0
  BY LenProperties, EmptySeq DEF FrameTypes, AtPlace
<1>2. \A k \in 1..Len(frames) : frames[k] \in [size : Nat \ {0}, readable : BOOLEAN]
  BY ElementOfSeq DEF FrameTypes
<1>3. pos \in Nat /\ p \in Nat /\ Layout(start)
  BY DEF AtPlace, InStream
<1>4. /\ \A k \in 1..(Len(frames) + 1) : start[k] \in Nat
      /\ \A k \in 1..Len(frames) : start[k + 1] = start[k] + 3 + frames[k].size
      /\ \A j, k \in 1..(Len(frames) + 1) : j < k => start[j] < start[k]
  BY <1>3 DEF Layout
<1>5. /\ Len(results) <= Len(frames) /\ (p > 0 => Len(results) + 1 \in 1..Len(frames))
      /\ Progress(Len(results) + 1, p)
  BY <1>1, <1>3 DEF AtPlace
<1>6. p > 0 => p <= 2 + frames[Len(results) + 1].size
  BY <1>2, <1>5 DEF Progress
<1>7. p = 0 <=> call \in {Idle, NewCall}
  <2>1. /\ call = Idle => call.phase = "idle"
        /\ call = NewCall => call.phase = "line" /\ call.line = <<>> /\ call.sawHeader = FALSE
    BY DEF Idle, NewCall
  <2>2. p = 1 => call.phase = "line" /\ call.line = <<Piece("prefix", Len(results) + 1)>>
    BY <1>5 DEF Progress
  <2>3. p = 2 => call.phase = "line" /\ call.sawHeader = TRUE
    BY <1>5 DEF Progress
  <2>4. p > 2 => call.phase = "body"
    BY <1>3, <1>5 DEF Progress
  <2>5. p = 0 => call \in {Idle, NewCall}
    BY <1>5 DEF Progress
  <2>6. <<Piece("prefix", Len(results) + 1)>> # <<>>
    OBVIOUS
  <2>7. p = 0 \/ p = 1 \/ p = 2 \/ p > 2
    BY <1>3
  <2>8. QED
    BY <2>1, <2>2, <2>3, <2>4, <2>5, <2>6, <2>7
<1>8. QED
  BY <1>1, <1>2, <1>3, <1>4, <1>6, <1>7

\* A reader that is in step has returned messages that were written to the end.
LEMMA ReturnedComplete ==
  ASSUME FrameTypes, NEW start, NEW pos, NEW p, AtPlace(start, pos, p)
  PROVE  Len(results) <= Complete
<1>1. CASE unwritten = <<>>
  BY <1>1, PlaceFacts DEF AtPlace, Complete
<1>2. CASE unwritten # <<>>
  <2>1. /\ (pos + Len(wire)) + Len(unwritten) = start[Len(frames) + 1] /\ Len(unwritten) > 0
        /\ Len(results) <= Len(frames) /\ pos = start[Len(results) + 1] + p
    BY <1>2, PlaceFacts DEF AtPlace, InStream
  <2>2. Len(results) # Len(frames)
    BY <2>1, PlaceFacts
  <2>3. Complete = Len(frames) - 1
    BY <1>2 DEF Complete
  <2>4. QED
    BY <2>1, <2>2, <2>3, PlaceFacts
<1>3. QED
  BY <1>1, <1>2

\* A reader in its place has returned what was written.
LEMMA InvReads == ReaderInv => ReadsInStep
<1> SUFFICES ASSUME ReaderInv, ~torn, NEW i \in DOMAIN results
             PROVE  IF i <= Complete
                      THEN results[i] = (IF frames[i].readable THEN Message(i) ELSE Error)
                      ELSE /\ ended
                           /\ results[i] = (IF i = Complete + 1 /\ unwritten /= <<>>
                                              THEN Error ELSE End)
  BY DEF ReadsInStep
<1>1. FrameTypes /\ i \in 1..Len(results)
  BY LenProperties DEF ReaderInv, FrameTypes, PastEnd, AtPlace
<1>2. CASE PastEnd
  BY <1>1, <1>2 DEF PastEnd, Returns
<1>3. ASSUME NEW start, NEW pos, NEW p, AtPlace(start, pos, p)
      PROVE  i <= Complete /\ results[i] = Returns(i)
  <2>1. Len(results) <= Complete /\ Len(results) \in Nat
    BY <1>1, <1>3, ReturnedComplete, PlaceFacts
  <2>2. Complete \in Int
    BY <1>1, <1>3, PlaceFacts DEF Complete
  <2>3. QED
    BY <1>1, <1>3, <2>1, <2>2 DEF AtPlace
<1>4. QED
  BY <1>2, <1>3 DEF ReaderInv, Returns

\* What an in-place reader knows of the layout: n frames, w pieces on the wire, r results.
Ruler(start, pos, p, n, w, r) ==
  /\ n \in Nat /\ w \in Nat /\ r \in Nat /\ pos \in Nat /\ p \in Nat /\ r <= n
  /\ n + 1 \in 1..(n + 1) /\ start[n + 1] \in Nat /\ r + 1 \in 1..(n + 1)
  /\ start \in [1..(n + 1) -> Nat] /\ start[1] = 0
  /\ \A k \in 1..(n + 1) : start[k] \in Nat /\ start[k] <= start[n + 1]
  /\ \A k \in 1..n : frames[k].size \in Nat \ {0}
  /\ \A k \in 1..n : start[k + 1] = (start[k] + 3) + frames[k].size
  /\ \A j, k \in 1..(n + 1) : j < k => start[j] < start[k]
  /\ (pos + w) + Len(unwritten) = start[n + 1]
  /\ pos = start[r + 1] + p /\ (p > 0 => r < n)

\* The same as one operator, for the steps of the writer.
LEMMA LayoutFacts ==
  ASSUME FrameTypes, NEW start, NEW pos, NEW p, AtPlace(start, pos, p),
         NEW n, n = Len(frames), NEW w, w = Len(wire), NEW r, r = Len(results)
  PROVE  Ruler(start, pos, p, n, w, r)
<1>1. /\ n \in Nat /\ w \in Nat /\ r \in Nat /\ pos \in Nat /\ p \in Nat
      /\ \A k \in 1..(n + 1) : start[k] \in Nat
      /\ \A k \in 1..n : frames[k].size \in Nat \ {0}
      /\ \A k \in 1..n : start[k + 1] = start[k] + 3 + frames[k].size
      /\ \A j, k \in 1..(n + 1) : j < k => start[j] < start[k]
  BY PlaceFacts
<1>2. \A k \in 1..(n + 1) : start[k] <= start[n + 1]
  <2>1. n + 1 \in 1..(n + 1)
    BY <1>1
  <2> SUFFICES ASSUME NEW k \in 1..(n + 1)
               PROVE  start[k] <= start[n + 1]
    OBVIOUS
  <2>2. PICK a \in Nat, b \in Nat : a = start[k] /\ b = start[n + 1]
    BY <1>1, <2>1
  <2>3. CASE k = n + 1
    BY <2>2, <2>3
  <2>4. CASE k < n + 1
    <3>1. start[k] < start[n + 1]
      BY <1>1, <2>1, <2>4
    <3>2. QED
      BY <2>2, <3>1
  <2>5. QED
    BY <1>1, <2>3, <2>4
<1>3. /\ start \in [1..(n + 1) -> Nat] /\ start[1] = 0
      /\ (pos + w) + Len(unwritten) = start[n + 1]
      /\ r <= n /\ pos = start[r + 1] + p /\ (p > 0 => r < n)
  BY DEF AtPlace, InStream, Layout
<1>4. /\ n + 1 \in 1..(n + 1) /\ start[n + 1] \in Nat /\ r + 1 \in 1..(n + 1)
  BY <1>1, <1>3
<1>5. QED
  BY <1>1, <1>2, <1>3, <1>4 DEF Ruler

\* One message more makes the layout longer by the length of the message.
LEMMA LongerLayout ==
  ASSUME NEW n \in Nat, NEW start \in [1..(n + 1) -> Nat], NEW size \in Nat \ {0},
         \A j, k \in 1..(n + 1) : j < k => start[j] < start[k],
         NEW s, s = [k \in 1..(n + 2) |-> IF k = n + 2 THEN (start[n + 1] + 3) + size ELSE start[k]]
  PROVE  /\ s \in [1..(n + 2) -> Nat] /\ s[n + 2] = (start[n + 1] + 3) + size
         /\ \A k \in 1..(n + 1) : s[k] = start[k]
         /\ \A j, k \in 1..(n + 2) : j < k => s[j] < s[k]
<1>1. /\ n + 1 \in 1..(n + 1) /\ n + 2 \in 1..(n + 2)
      /\ \A k \in 1..(n + 2) : k \in 1..(n + 1) \/ k = n + 2
      /\ \A k \in 1..(n + 1) : k \in 1..(n + 2) /\ k # n + 2 /\ (k = n + 1 \/ k < n + 1)
  OBVIOUS
<1>2. /\ start[n + 1] \in Nat /\ (start[n + 1] + 3) + size \in Nat
      /\ \A k \in 1..(n + 1) : start[k] \in Nat
  BY <1>1
<1>3. s \in [1..(n + 2) -> Nat]
  BY <1>1, <1>2
<1>4. s[n + 2] = (start[n + 1] + 3) + size /\ \A k \in 1..(n + 1) : s[k] = start[k]
  BY <1>1
<1>5. ASSUME NEW j \in 1..(n + 2), NEW k \in 1..(n + 2), j < k PROVE s[j] < s[k]
  <2>1. j \in 1..(n + 1) /\ s[j] = start[j] /\ start[j] \in Nat
    BY <1>2, <1>4, <1>5
  <2>2. CASE k \in 1..(n + 1)
    BY <1>4, <1>5, <2>1, <2>2
  <2>3. CASE k = n + 2
    <3>0. j = n + 1 \/ j < n + 1
      BY <2>1
    <3>1. start[j] <= start[n + 1]
      <4>1. CASE j = n + 1
        BY <1>2, <4>1
      <4>2. CASE j < n + 1
        BY <1>1, <1>2, <2>1, <4>2
      <4>3. QED
        BY <3>0, <4>1, <4>2
    <3>2. QED
      BY <1>2, <1>4, <2>1, <2>3, <3>1
  <2>4. QED
    BY <1>1, <2>2, <2>3
<1>6. QED
  BY <1>3, <1>4, <1>5

\* A message that is written starts where the one before ends.
LEMMA WriteFrameStep ==
  ASSUME FrameTypes, NEW start, NEW pos, NEW p, AtPlace(start, pos, p), WriteFrame
  PROVE  FrameTypes' /\ \E s : AtPlace(s, pos, p)'
<1>1. PICK n \in Nat, w \in Nat, r \in Nat : n = Len(frames) /\ w = Len(wire) /\ r = Len(results)
  BY PlaceFacts
<1>0. n + 1 \in Nat
  BY <1>1
<1>2. PICK size \in Nat \ {0}, readable \in BOOLEAN :
        /\ frames' = Append(frames, [size |-> size, readable |-> readable])
        /\ wire' = Append(wire, Head(Frame(n + 1, size)))
        /\ unwritten' = Tail(Frame(n + 1, size))
  BY <1>1, FrameAssumption DEF WriteFrame
<1>3. unwritten = <<>> /\ UNCHANGED <<ended, call, results, torn>>
  BY DEF WriteFrame
<1> DEFINE f == Frame(n + 1, size)
           R == [size : Nat \ {0}, readable : BOOLEAN]
<1>4. /\ f \in Seq(Pieces) /\ Len(f) = 3 + size
  <2>1. /\ Frame(n + 1, size) \in Seq(Pieces) /\ Len(Frame(n + 1, size)) = 3 + size
    BY <1>0, FrameLemma
  <2>2. QED
    BY <2>1
<1> HIDE DEF f
<1>5. /\ Head(f) \in Pieces /\ Head(f) = f[1] /\ Tail(f) \in Seq(Pieces) /\ Len(Tail(f)) = 2 + size
      /\ \A i \in 1..(2 + size) : Tail(f)[i] = f[i + 1]
  <2>1. f # <<>>
    BY <1>4, EmptySeq
  <2>2. QED
    BY <1>4, <2>1, HeadTailProperties, SMT
<1>6. /\ frames \in Seq(R) /\ [size |-> size, readable |-> readable] \in R
      /\ wire \in Seq(Pieces)
  BY DEF FrameTypes
<1> HIDE DEF R
<1>7. /\ frames' \in Seq(R) /\ Len(frames') = n + 1
      /\ \A k \in 1..n : frames'[k] = frames[k]
      /\ frames'[n + 1] = [size |-> size, readable |-> readable]
  BY <1>1, <1>2, <1>6, AppendProperties
<1>8. /\ wire' \in Seq(Pieces) /\ Len(wire') = Len(wire) + 1 /\ wire'[Len(wire) + 1] = f[1]
      /\ \A i \in 1..Len(wire) : wire'[i] = wire[i]
  BY <1>2, <1>5, <1>6, AppendProperties DEF f
<1>9. FrameTypes'
  BY <1>2, <1>3, <1>5, <1>7, <1>8 DEF FrameTypes, R, f
<1>10. /\ frames'[n + 1].size = size /\ \A k \in 1..n : frames'[k].size = frames[k].size
       /\ unwritten' = Tail(f)
  BY <1>2, <1>7 DEF f
<1>11. /\ start \in [1..(n + 1) -> Nat] /\ start[1] = 0
       /\ \A k \in 1..(n + 1) : start[k] \in Nat /\ start[k] <= start[n + 1]
       /\ \A k \in 1..n : start[k + 1] = (start[k] + 3) + frames[k].size
       /\ \A j, k \in 1..(n + 1) : j < k => start[j] < start[k]
       /\ pos + w = start[n + 1] /\ pos = start[r + 1] + p
       /\ r <= n /\ (p > 0 => r < n) /\ pos \in Nat /\ p \in Nat /\ w \in Nat
       /\ r \in Nat /\ n + 1 \in 1..(n + 1) /\ start[n + 1] \in Nat
  <2>1. Len(unwritten) = 0
    BY <1>3, EmptySeq
  <2>2. Ruler(start, pos, p, n, w, r)
    BY <1>1, LayoutFacts
  <2>3. pos + w = start[n + 1]
    BY <2>1, <2>2 DEF Ruler
  <2>4. QED
    BY <2>2, <2>3 DEF Ruler
<1>12. PICK s : s = [k \in 1..(n + 2) |->
                       IF k = n + 2 THEN (start[n + 1] + 3) + size ELSE start[k]]
  OBVIOUS
<1>13. /\ s \in [1..(n + 2) -> Nat] /\ s[n + 2] = (start[n + 1] + 3) + size
       /\ \A k \in 1..(n + 1) : s[k] = start[k]
       /\ \A j, k \in 1..(n + 2) : j < k => s[j] < s[k]
  <2>1. /\ start \in [1..(n + 1) -> Nat]
        /\ \A j, k \in 1..(n + 1) : j < k => start[j] < start[k]
    BY <1>11
  <2>2. QED
    BY <1>12, <2>1, LongerLayout
<1>14. Layout(s)'
  <2>1. s[1] = 0
    BY <1>11, <1>13
  <2>2. ASSUME NEW k \in 1..(n + 1) PROVE s[k + 1] = (s[k] + 3) + frames'[k].size
    <3>1. CASE k = n + 1
      BY <1>10, <1>13, <3>1
    <3>2. CASE k \in 1..n
      <4>1. k + 1 \in 1..(n + 1)
        BY <3>2
      <4>2. s[k + 1] = start[k + 1] /\ s[k] = start[k]
        BY <1>13, <4>1
      <4>3. QED
        BY <1>10, <1>11, <3>2, <4>2
    <3>3. QED
      BY <3>1, <3>2
  <2>3. (n + 1) + 1 = n + 2
    OBVIOUS
  <2>4. QED
    BY <1>7, <1>13, <2>1, <2>2, <2>3 DEF Layout
<1>15. Carries(wire, s, pos)'
  <2> SUFFICES ASSUME NEW i \in 1..(w + 1), NEW k \in 1..(n + 1),
                      s[k] < pos + i, pos + i <= s[k + 1]
               PROVE  wire'[i] = Frame(k, frames'[k].size)[(pos + i) - s[k]]
    BY <1>1, <1>7, <1>8 DEF Carries
  <2>0. /\ pos \in Nat /\ w \in Nat /\ pos + w = start[n + 1]
    BY <1>11
  <2>9. pos + i \in Nat /\ (i <= w => pos + i <= start[n + 1])
    BY <2>0
  <2>1. CASE i \in 1..w
    <3>1. k # n + 1
      <4>1. i <= w /\ s[n + 1] = start[n + 1] /\ start[n + 1] \in Nat
        BY <1>11, <1>13, <2>1
      <4>2. QED
        BY <2>9, <4>1
    <3>2. k \in 1..n /\ k + 1 \in 1..(n + 1)
      BY <3>1
    <3>3. start[k] < pos + i /\ pos + i <= start[k + 1]
      BY <1>13, <3>2
    <3>4. Carries(wire, start, pos)
      BY DEF AtPlace, InStream
    <3>5. QED
      BY <1>1, <1>8, <1>10, <1>13, <2>1, <3>2, <3>3, <3>4 DEF Carries
  <2>2. CASE i = w + 1
    <3>1. pos + i = start[n + 1] + 1
      BY <2>0, <2>2
    <3>2. k = n + 1
      <4>1. ASSUME k \in 1..n PROVE FALSE
        <5>1. k + 1 \in 1..(n + 1)
          BY <4>1
        <5>2. s[k + 1] <= start[n + 1] /\ s[k + 1] \in Nat
          BY <1>11, <1>13, <5>1
        <5>3. pos + i <= s[k + 1] /\ start[n + 1] \in Nat
          BY <1>11
        <5>4. QED
          BY <3>1, <5>2, <5>3
      <4>2. QED
        BY <4>1
    <3>3. (pos + i) - s[k] = 1
      BY <1>11, <1>13, <3>1, <3>2
    <3>4. QED
      BY <1>1, <1>8, <1>10, <2>2, <3>2, <3>3, SMTT(40) DEF f
  <2>3. i \in 1..w \/ i = w + 1
    BY <1>1
  <2>4. QED
    BY <2>1, <2>2, <2>3
<1>16. pos + Len(wire') = start[n + 1] + 1
  <2>1. pos \in Nat /\ w \in Nat /\ pos + w = start[n + 1] /\ Len(wire') = w + 1
    BY <1>1, <1>8, <1>11
  <2>2. QED
    BY <2>1
<1>17. Carries(unwritten, s, pos + Len(wire))'
  <2> SUFFICES ASSUME NEW i \in 1..(2 + size), NEW k \in 1..(n + 1),
                      s[k] < (pos + Len(wire')) + i, (pos + Len(wire')) + i <= s[k + 1]
               PROVE  Tail(f)[i] = Frame(k, frames'[k].size)[((pos + Len(wire')) + i) - s[k]]
    <3>1. Len(unwritten') = 2 + size /\ Len(frames') = n + 1
      BY <1>5, <1>7, <1>10
    <3>2. unwritten' = Tail(f)
      BY <1>10
    <3>3. QED
      BY <3>1, <3>2 DEF Carries
  <2>1. k = n + 1
    <3>1. ASSUME k \in 1..n PROVE FALSE
      <4>1. k + 1 \in 1..(n + 1)
        BY <3>1
      <4>2. s[k + 1] <= start[n + 1] /\ s[k + 1] \in Nat
        BY <1>11, <1>13, <4>1
      <4>3. start[n + 1] \in Nat /\ (start[n + 1] + 1) + i <= s[k + 1]
        BY <1>11, <1>16, <4>2
      <4>4. QED
        BY <4>2, <4>3
    <3>2. QED
      BY <3>1
  <2>2. s[k] = start[n + 1] /\ start[n + 1] \in Nat
    BY <1>11, <1>13, <2>1
  <2>3. ((pos + Len(wire')) + i) - s[k] = i + 1
    BY <1>16, <2>2
  <2>4. QED
    BY <1>5, <1>10, <2>1, <2>3 DEF f
<1>18. InStream(s, pos)'
  <2>1. start[n + 1] \in Nat /\ s[n + 1] = start[n + 1] /\ Len(unwritten') = 2 + size
    BY <1>5, <1>10, <1>11, <1>13
  <2>2. (pos + Len(wire')) + Len(unwritten') = s[(n + 1) + 1]
    <3>1. (n + 1) + 1 = n + 2
      OBVIOUS
    <3>2. QED
      <4>1. s[(n + 1) + 1] = (start[n + 1] + 3) + size
        BY <1>13, <3>1
      <4>2. (pos + Len(wire')) + Len(unwritten') = (start[n + 1] + 1) + (2 + size)
        BY <1>16, <2>1
      <4>3. QED
        BY <2>1, <4>1, <4>2
  <2>3. s[n + 1] < pos + Len(wire')
    BY <1>16, <2>1
  <2>4. QED
    BY <1>7, <1>11, <1>14, <1>15, <1>17, <2>2, <2>3 DEF InStream
<1>19. AtPlace(s, pos, p)'
  <2>1. r \in Nat /\ r <= n /\ (p > 0 => r < n) /\ p \in Nat /\ r + 1 \in 1..(n + 1)
    BY <1>11
  <2>2. pos = s[r + 1] + p
    BY <1>11, <1>13, <2>1
  <2>3. Progress(r + 1, p)'
    <3>1. p > 0 => frames'[r + 1] = frames[r + 1]
      BY <1>7, <2>1
    <3>2. Progress(r + 1, p)
      BY <1>1 DEF AtPlace
    <3>3. CASE p = 0
      BY <1>3, <2>1, <3>2, <3>3 DEF Progress
    <3>4. CASE p > 0
      <4>1. frames'[r + 1] = frames[r + 1]
        BY <3>1, <3>4
      <4>2. QED
        BY <1>3, <3>2, <4>1 DEF Progress
    <3>5. QED
      BY <2>1, <3>3, <3>4
  <2>4. \A i \in 1..r : results[i] = Returns(i)'
    <3>1. \A i \in 1..r : i \in 1..n /\ results[i] = Returns(i)
      BY <1>1, <2>1 DEF AtPlace
    <3>2. QED
      BY <1>7, <3>1 DEF Returns
  <2>5. results' = results /\ Len(results) = r /\ Len(frames') = n + 1
    BY <1>1, <1>3, <1>7
  <2>6. QED
    BY <1>18, <2>1, <2>2, <2>3, <2>4, <2>5 DEF AtPlace
<1>20. QED
  BY <1>9, <1>19

\* What is behind the first piece is carried one place further on.
LEMMA CarriesTail ==
  ASSUME NEW s \in Seq(Pieces), s # <<>>, NEW start, NEW pos \in Nat, Carries(s, start, pos)
  PROVE  /\ Carries(Tail(s), start, pos + 1)
         /\ \A k \in 1..Len(frames) :
              start[k] < pos + 1 /\ pos + 1 <= start[k + 1]
                => Head(s) = Frame(k, frames[k].size)[(pos + 1) - start[k]]
<1>1. /\ Len(s) \in Nat /\ Len(s) > 0 /\ Head(s) = s[1] /\ Len(Tail(s)) = Len(s) - 1
      /\ \A i \in 1..(Len(s) - 1) : Tail(s)[i] = s[i + 1]
  <2>1. Len(s) \in Nat /\ Len(s) > 0
    BY LenProperties, EmptySeq
  <2>2. QED
    BY <2>1, HeadTailProperties
<1>2. ASSUME NEW i \in 1..Len(Tail(s)), NEW k \in 1..Len(frames),
             start[k] < (pos + 1) + i, (pos + 1) + i <= start[k + 1]
      PROVE  Tail(s)[i] = Frame(k, frames[k].size)[((pos + 1) + i) - start[k]]
  <2>1. i + 1 \in 1..Len(s) /\ (pos + 1) + i = pos + (i + 1) /\ Tail(s)[i] = s[i + 1]
    BY <1>1
  <2>2. QED
    BY <1>2, <2>1 DEF Carries
<1>3. 1 \in 1..Len(s)
  BY <1>1
<1>4. QED
  BY <1>1, <1>2, <1>3 DEF Carries

\* A piece that arrives is the next one of the layout.
LEMMA CarriesAppend ==
  ASSUME NEW s \in Seq(Pieces), NEW piece \in Pieces, NEW start, NEW pos \in Nat,
         Carries(s, start, pos),
         \A k \in 1..Len(frames) :
           start[k] < (pos + Len(s)) + 1 /\ (pos + Len(s)) + 1 <= start[k + 1]
             => piece = Frame(k, frames[k].size)[((pos + Len(s)) + 1) - start[k]]
  PROVE  Carries(Append(s, piece), start, pos)
<1>1. /\ Len(s) \in Nat /\ Len(Append(s, piece)) = Len(s) + 1
      /\ Append(s, piece)[Len(s) + 1] = piece
      /\ \A i \in 1..Len(s) : Append(s, piece)[i] = s[i]
  BY AppendProperties, LenProperties
<1>2. ASSUME NEW i \in 1..(Len(s) + 1), NEW k \in 1..Len(frames),
             start[k] < pos + i, pos + i <= start[k + 1]
      PROVE  Append(s, piece)[i] = Frame(k, frames[k].size)[(pos + i) - start[k]]
  <2>1. CASE i \in 1..Len(s)
    BY <1>1, <1>2, <2>1 DEF Carries
  <2>2. CASE i = Len(s) + 1
    <3>1. pos + i = (pos + Len(s)) + 1
      BY <1>1, <2>2
    <3>2. QED
      BY <1>1, <1>2, <2>2, <3>1
  <2>3. QED
    BY <1>1, <2>1, <2>2
<1>3. QED
  BY <1>1, <1>2 DEF Carries

\* The clauses of AtPlace are about these variables.
LEMMA SamePlace ==
  ASSUME NEW start, NEW pos, NEW p, AtPlace(start, pos, p),
         UNCHANGED <<frames, unwritten, wire, results>>, Progress(Len(results) + 1, p)'
  PROVE  AtPlace(start, pos, p)'
<1>1. (InStream(start, pos) /\ results \in Seq(Outcomes) /\ p \in Nat)'
  BY DEF AtPlace, InStream, Layout, Carries
<1>2. (\A i \in 1..Len(results) : results[i] = Returns(i))'
  BY DEF AtPlace, Returns
<1>3. (/\ Len(results) <= Len(frames) /\ (p > 0 => Len(results) < Len(frames))
       /\ pos = start[Len(results) + 1] + p)'
  BY DEF AtPlace
<1>4. QED
  BY <1>1, <1>2, <1>3 DEF AtPlace

\* The next piece of a message that arrives in pieces is in its place.
LEMMA WriteMoreStep ==
  ASSUME FrameTypes, NEW start, NEW pos, NEW p, AtPlace(start, pos, p), WriteMore
  PROVE  FrameTypes' /\ AtPlace(start, pos, p)'
<1>1. /\ unwritten # <<>> /\ unwritten \in Seq(Pieces) /\ wire \in Seq(Pieces)
      /\ wire' = Append(wire, Head(unwritten)) /\ unwritten' = Tail(unwritten)
      /\ UNCHANGED <<frames, ended, call, results, torn>>
  BY DEF WriteMore, FrameTypes
<1>2. PICK n \in Nat, w \in Nat, r \in Nat, u \in Nat :
        n = Len(frames) /\ w = Len(wire) /\ r = Len(results) /\ u = Len(unwritten)
  BY PlaceFacts
<1>3. Ruler(start, pos, p, n, w, r)
  BY <1>2, LayoutFacts
<1>4. /\ u > 0 /\ Head(unwritten) \in Pieces /\ Tail(unwritten) \in Seq(Pieces)
      /\ Len(Tail(unwritten)) = u - 1
  <2>1. u > 0
    BY <1>1, <1>2, PlaceFacts
  <2>2. QED
    BY <1>1, <1>2, <2>1, HeadTailProperties
<1>5. wire' \in Seq(Pieces) /\ Len(wire') = w + 1
  BY <1>1, <1>2, <1>4, AppendProperties
<1>6. FrameTypes'
  BY <1>1, <1>4, <1>5 DEF FrameTypes
<1>7. /\ pos \in Nat /\ pos + w \in Nat /\ pos + (w + 1) = (pos + w) + 1
      /\ Carries(wire, start, pos) /\ Carries(unwritten, start, pos + w)
  <2>1. pos \in Nat
    BY <1>3 DEF Ruler
  <2>2. pos + w \in Nat /\ pos + (w + 1) = (pos + w) + 1
    BY <2>1
  <2>3. Carries(wire, start, pos) /\ Carries(unwritten, start, pos + w)
    BY <1>2 DEF AtPlace, InStream
  <2>4. QED
    BY <2>1, <2>2, <2>3
<1>8. /\ Carries(Tail(unwritten), start, (pos + w) + 1)
      /\ \A k \in 1..Len(frames) :
           start[k] < (pos + w) + 1 /\ (pos + w) + 1 <= start[k + 1]
             => Head(unwritten) = Frame(k, frames[k].size)[((pos + w) + 1) - start[k]]
  BY <1>1, <1>7, CarriesTail
<1>9. Carries(Append(wire, Head(unwritten)), start, pos)
  BY <1>1, <1>2, <1>4, <1>7, <1>8, CarriesAppend
<1>10. InStream(start, pos)'
  <2>1. Carries(wire, start, pos)' /\ Carries(unwritten, start, pos + Len(wire))'
    <3>1. pos + Len(wire') = (pos + w) + 1
      BY <1>5, <1>7
    <3>2. Carries(wire, start, pos)'
      BY <1>1, <1>9 DEF Carries
    <3>3. Carries(unwritten, start, (pos + w) + 1)'
      BY <1>1, <1>8 DEF Carries
    <3>4. QED
      BY <3>1, <3>2, <3>3
  <2>2. (pos + Len(wire')) + Len(unwritten') = start[n + 1]
    <3>1. (pos + w) + u = start[n + 1]
      BY <1>2, <1>3 DEF Ruler
    <3>2. pos + Len(wire') = (pos + w) + 1 /\ Len(unwritten') = u - 1
      BY <1>1, <1>4, <1>5, <1>7
    <3>3. QED
      BY <1>7, <3>1, <3>2
  <2>3. n > 0 /\ start[n] < pos + Len(wire')
    <3>1. n > 0 /\ start[n] < pos + w
      BY <1>1, <1>2 DEF AtPlace, InStream
    <3>2. start[n] \in Nat
      BY <1>3, <3>1 DEF Ruler
    <3>3. pos + Len(wire') = (pos + w) + 1
      BY <1>5, <1>7
    <3>4. QED
      BY <1>7, <3>1, <3>2, <3>3
  <2>4. Layout(start)'
    BY <1>1 DEF AtPlace, InStream, Layout
  <2>5. QED
    BY <1>1, <1>2, <1>7, <2>1, <2>2, <2>3, <2>4 DEF InStream
<1>11. AtPlace(start, pos, p)'
  <2>1. Progress(r + 1, p)'
    BY <1>1, <1>2 DEF AtPlace, Progress
  <2>2. (\A i \in 1..Len(results) : results[i] = Returns(i))'
    BY <1>1 DEF AtPlace, Returns
  <2>3. QED
    BY <1>1, <1>2, <1>10, <2>1, <2>2 DEF AtPlace
<1>12. QED
  BY <1>6, <1>11

\* The local variables of a read that has read nothing.
LEMMA CallFacts ==
  /\ Idle.phase = "idle" /\ NewCall.phase = "line" /\ NewCall.line = <<>>
  /\ NewCall.length = 0 /\ NewCall.sawHeader = FALSE /\ NewCall.body = <<>>
BY DEF Idle, NewCall

\* The end of a stream moves nothing.
LEMMA CloseWriterStep ==
  ASSUME FrameTypes, NEW start, NEW pos, NEW p, AtPlace(start, pos, p), CloseWriter
  PROVE  FrameTypes' /\ AtPlace(start, pos, p)'
<1>1. UNCHANGED <<frames, unwritten, wire, call, results, torn>> /\ ended' = TRUE
  BY DEF CloseWriter
<1>2. Progress(Len(results) + 1, p)'
  BY <1>1 DEF AtPlace, Progress
<1>3. FrameTypes'
  BY <1>1 DEF FrameTypes
<1>4. QED
  BY <1>1, <1>2, <1>3, SamePlace

\* A read starts where the last one ended.
LEMMA StartReadStep ==
  ASSUME FrameTypes, NEW start, NEW pos, NEW p, AtPlace(start, pos, p), StartRead
  PROVE  FrameTypes' /\ AtPlace(start, pos, p)'
<1>1. /\ UNCHANGED <<frames, unwritten, wire, ended, results, torn>> /\ call' = NewCall
      /\ call.phase = "idle"
  BY DEF StartRead
<1>2. p = 0
  BY <1>1 DEF AtPlace, Progress
<1>3. Progress(Len(results) + 1, p)'
  BY <1>1, <1>2 DEF Progress
<1>4. FrameTypes'
  BY <1>1 DEF FrameTypes
<1>5. QED
  BY <1>1, <1>3, <1>4, SamePlace

\* A read that is given up leaves the reader in its place if it has read nothing.
LEMMA GiveUpStep ==
  ASSUME FrameTypes, NEW start, NEW pos, NEW p, AtPlace(start, pos, p), GiveUp
  PROVE  FrameTypes' /\ (~torn' => AtPlace(start, pos, p)')
<1>1. /\ UNCHANGED <<frames, unwritten, wire, ended, results>> /\ call' = Idle
      /\ torn' = (torn \/ call /= NewCall) /\ torn \in BOOLEAN
  BY DEF GiveUp, FrameTypes
<1>2. FrameTypes'
  BY <1>1 DEF FrameTypes
<1>3. ASSUME ~torn' PROVE AtPlace(start, pos, p)'
  <2>1. p = 0
    BY <1>1, <1>3, PlaceFacts
  <2>2. Progress(Len(results) + 1, p)'
    BY <1>1, <2>1 DEF Progress
  <2>3. QED
    BY <1>1, <2>2, SamePlace
<1>4. QED
  BY <1>2, <1>3

\* Where a read stops for want of pieces.
LEMMA ReadEndStep ==
  ASSUME FrameTypes, NEW start, NEW pos, NEW p, AtPlace(start, pos, p), ReadEnd
  PROVE  FrameTypes' /\ PastEnd'
<1>1. /\ UNCHANGED <<frames, unwritten, wire, ended, torn>> /\ call' = Idle
      /\ results' = Append(results, AtEnd) /\ ended /\ wire = <<>> /\ call.phase /= "idle"
  BY DEF ReadEnd, Finish
<1>2. PICK n \in Nat, r \in Nat, u \in Nat :
        n = Len(frames) /\ r = Len(results) /\ u = Len(unwritten)
  BY PlaceFacts
<1>3. Len(wire) = 0 /\ (unwritten # <<>> => u > 0) /\ (unwritten = <<>> => u = 0)
  BY <1>1, <1>2, PlaceFacts, EmptySeq
<1>4. Ruler(start, pos, p, n, 0, r)
  BY <1>2, <1>3, LayoutFacts
<1>5. /\ pos \in Nat /\ p \in Nat /\ pos + u = start[n + 1] /\ pos = start[r + 1] + p
      /\ start[n + 1] \in Nat /\ r <= n /\ start[r + 1] \in Nat /\ (p > 0 => r < n)
  BY <1>2, <1>4 DEF Ruler
<1>6. r < n => /\ r + 1 \in 1..n /\ r + 2 \in 1..(n + 1) /\ start[r + 2] \in Nat
               /\ pos < start[r + 2] /\ start[r + 2] <= start[n + 1]
  <2> SUFFICES ASSUME r < n PROVE r + 1 \in 1..n /\ r + 2 \in 1..(n + 1) /\ start[r + 2] \in Nat
               /\ pos < start[r + 2] /\ start[r + 2] <= start[n + 1]
    OBVIOUS
  <2>1. r + 1 \in 1..n /\ r + 2 \in 1..(n + 1) /\ (r + 1) + 1 = r + 2
    OBVIOUS
  <2>2. start[r + 2] \in Nat /\ start[r + 2] <= start[n + 1]
    BY <1>4, <2>1 DEF Ruler
  <2>3. start[r + 2] = (start[r + 1] + 3) + frames[r + 1].size /\ frames[r + 1].size \in Nat
    BY <1>4, <2>1 DEF Ruler
  <2>4. p <= 2 + frames[r + 1].size
    <3>1. CASE p = 0
      BY <2>3, <3>1
    <3>2. CASE p > 0
      BY <1>2, <3>2, PlaceFacts
    <3>3. QED
      BY <1>5, <3>1, <3>2
  <2>5. pos < start[r + 2]
    BY <1>5, <2>3, <2>4
  <2>6. QED
    BY <2>1, <2>2, <2>5
<1>7. results \in Seq(Outcomes) /\ AtEnd \in Outcomes
  BY DEF AtPlace, AtEnd, Outcomes
<1>8. /\ results' \in Seq(Outcomes) /\ Len(results') = r + 1 /\ results'[r + 1] = AtEnd
      /\ \A i \in 1..r : results'[i] = results[i]
  BY <1>1, <1>2, <1>7, AppendProperties
<1>9. /\ \A i \in 1..r : results'[i] = Returns(i)
      /\ \A i \in 1..(r + 1) : i \in 1..r \/ i = r + 1
  BY <1>2, <1>8 DEF AtPlace
<1>10. CASE unwritten = <<>>
  <2>1. r = n
    BY <1>3, <1>5, <1>6, <1>10
  <2>2. p = 0
    BY <1>5, <2>1
  <2>3. AtEnd = End
    <3>1. call = NewCall
      BY <1>1, <2>2, PlaceFacts, CallFacts
    <3>2. QED
      BY <3>1, CallFacts DEF AtEnd
  <2>4. Complete = n /\ Complete' = n
    BY <1>1, <1>2, <1>10 DEF Complete
  <2>5. \A i \in 1..(r + 1) :
          results'[i] = IF i <= n THEN Returns(i)
                        ELSE IF i = n + 1 /\ unwritten # <<>> THEN Error ELSE End
    BY <1>8, <1>9, <1>10, <2>1, <2>3
  <2>6. PastEnd'
    BY <1>1, <1>8, <1>10, <2>1, <2>4, <2>5 DEF PastEnd, Returns
  <2>7. QED
    BY <1>1, <2>6 DEF FrameTypes
<1>11. CASE unwritten # <<>>
  <2>1. n > 0 /\ start[n] < pos
    BY <1>2, <1>3, <1>5, <1>11 DEF AtPlace, InStream
  <2>2. u > 0 /\ pos < start[n + 1]
    BY <1>3, <1>5, <1>11
  <2>3. r < n
    BY <1>5, <2>2
  <2>4. r + 1 = n
    <3>1. ASSUME r + 1 < n PROVE FALSE
      <4>1. r + 2 \in 1..n /\ n \in 1..(n + 1) /\ (r + 2 = n \/ r + 2 < n)
        BY <3>1
      <4>2. start[r + 2] <= start[n] /\ start[n] \in Nat
        <5>1. CASE r + 2 = n
          BY <1>4, <4>1, <5>1, SMTT(40) DEF Ruler
        <5>2. CASE r + 2 < n
          <6>1. r + 2 \in 1..(n + 1)
            BY <4>1
          <6>2. /\ \A j, k \in 1..(n + 1) : j < k => start[j] < start[k]
                /\ start[r + 2] \in Nat /\ start[n] \in Nat
            BY <1>4, <4>1, <6>1 DEF Ruler
          <6>3. start[r + 2] < start[n]
            BY <4>1, <5>2, <6>1, <6>2
          <6>4. QED
            BY <6>2, <6>3
        <5>3. QED
          BY <4>1, <5>1, <5>2
      <4>3. QED
        BY <1>5, <1>6, <2>1, <2>3, <4>2
    <3>2. QED
      BY <2>3, <3>1
  <2>5. p > 0
    BY <1>5, <2>1, <2>4
  <2>6. AtEnd = Error
    <3>1. Progress(r + 1, p)
      BY <1>2 DEF AtPlace
    <3>2. CASE p = 1
      <4>1. call.line = <<Piece("prefix", r + 1)>>
        BY <3>1, <3>2 DEF Progress
      <4>2. call.line # <<>>
        BY <4>1
      <4>3. QED
        BY <4>2 DEF AtEnd
    <3>3. CASE p = 2
      BY <3>1, <3>3 DEF Progress, AtEnd
    <3>4. CASE p > 2
      BY <3>1, <3>4 DEF Progress, AtEnd
    <3>5. QED
      BY <1>5, <2>5, <3>2, <3>3, <3>4
  <2>7. Complete = r /\ Complete' = r
    BY <1>1, <1>2, <1>11, <2>4 DEF Complete
  <2>8. \A i \in 1..(r + 1) :
          results'[i] = IF i <= r THEN Returns(i)
                        ELSE IF i = r + 1 /\ unwritten # <<>> THEN Error ELSE End
    BY <1>8, <1>9, <1>11, <2>6
  <2>9. PastEnd'
    BY <1>1, <1>2, <1>8, <2>1, <2>7, <2>8 DEF PastEnd, Returns
  <2>10. QED
    BY <1>1, <2>9 DEF FrameTypes
<1>12. QED
  BY <1>10, <1>11

\* After the end of a stream every read finds the end again.
LEMMA ReadEndAgain ==
  ASSUME FrameTypes, PastEnd, ReadEnd
  PROVE  FrameTypes' /\ PastEnd'
<1>1. /\ UNCHANGED <<frames, unwritten, wire, ended, torn>> /\ call' = Idle
      /\ results' = Append(results, AtEnd) /\ call.phase /= "idle"
  BY DEF ReadEnd, Finish
<1>2. AtEnd = End
  BY <1>1, CallFacts DEF PastEnd, AtEnd
<1>3. PICK r \in Nat : r = Len(results)
  BY LenProperties DEF PastEnd
<1>4. /\ results' \in Seq(Outcomes) /\ Len(results') = r + 1 /\ results'[r + 1] = End
      /\ \A i \in 1..r : results'[i] = results[i]
  BY <1>1, <1>2, <1>3, AppendProperties DEF PastEnd, Outcomes
<1>5. Complete' = Complete /\ Complete \in Int /\ r > Complete
  BY <1>1, <1>3, LenProperties DEF Complete, PastEnd, FrameTypes
<1>6. ASSUME NEW i \in 1..(r + 1)
      PROVE  results'[i] = IF i <= Complete THEN Returns(i)
                           ELSE IF i = Complete + 1 /\ unwritten # <<>> THEN Error ELSE End
  <2>1. CASE i \in 1..r
    BY <1>3, <1>4, <2>1 DEF PastEnd
  <2>2. CASE i = r + 1
    BY <1>4, <1>5, <2>2
  <2>3. QED
    BY <2>1, <2>2
<1>7. PastEnd'
  BY <1>1, <1>3, <1>4, <1>5, <1>6 DEF PastEnd, Returns
<1>8. QED
  BY <1>1, <1>7 DEF FrameTypes

\* A step of an in-place read leaves it in place: the piece is the next of the stream.
LEMMA NextPiece ==
  ASSUME FrameTypes, NEW start, NEW pos, NEW p, AtPlace(start, pos, p), wire # <<>>
  PROVE  /\ Len(results) + 1 \in 1..Len(frames)
         /\ p <= 2 + frames[Len(results) + 1].size
         /\ start[(Len(results) + 1) + 1] = (start[Len(results) + 1] + 3)
                                              + frames[Len(results) + 1].size
         /\ Head(wire) = Frame(Len(results) + 1, frames[Len(results) + 1].size)[p + 1]
         /\ Head(wire) \in Pieces /\ Tail(wire) \in Seq(Pieces)
         /\ (pos + 1) + Len(Tail(wire)) = pos + Len(wire)
         /\ Carries(Tail(wire), start, pos + 1)
<1>1. PICK n \in Nat, w \in Nat, r \in Nat, u \in Nat :
        n = Len(frames) /\ w = Len(wire) /\ r = Len(results) /\ u = Len(unwritten)
  BY PlaceFacts
<1>2. Ruler(start, pos, p, n, w, r)
  BY <1>1, LayoutFacts
<1>3. /\ w > 0 /\ Head(wire) \in Pieces /\ Tail(wire) \in Seq(Pieces)
      /\ Len(Tail(wire)) = w - 1
  <2>1. wire \in Seq(Pieces)
    BY DEF FrameTypes
  <2>2. w > 0
    BY <1>1, <2>1, EmptySeq, LenProperties
  <2>3. QED
    BY <1>1, <2>1, <2>2, HeadTailProperties
<1>4. /\ pos \in Nat /\ p \in Nat /\ (pos + w) + u = start[n + 1] /\ pos = start[r + 1] + p
      /\ start[n + 1] \in Nat /\ r <= n /\ start[r + 1] \in Nat /\ (p > 0 => r < n)
  BY <1>1, <1>2 DEF Ruler
<1>5. r + 1 \in 1..n
  <2>1. r # n
    BY <1>3, <1>4
  <2>2. QED
    BY <1>4, <2>1
<1>6. /\ start[(r + 1) + 1] = (start[r + 1] + 3) + frames[r + 1].size
      /\ frames[r + 1].size \in Nat
  BY <1>2, <1>5 DEF Ruler
<1>7. p <= 2 + frames[r + 1].size
  <2>1. CASE p = 0
    BY <1>6, <2>1
  <2>2. CASE p > 0
    BY <1>1, <2>2, PlaceFacts
  <2>3. QED
    BY <1>4, <2>1, <2>2
<1>8. /\ start[r + 1] < pos + 1 /\ pos + 1 <= start[(r + 1) + 1]
      /\ (pos + 1) - start[r + 1] = p + 1
  <2>1. PICK a \in Nat, sz \in Nat : a = start[r + 1] /\ sz = frames[r + 1].size
    BY <1>4, <1>6
  <2>2. pos = a + p /\ p <= 2 + sz /\ start[(r + 1) + 1] = (a + 3) + sz
    BY <1>4, <1>6, <1>7, <2>1
  <2>3. a < pos + 1 /\ pos + 1 <= (a + 3) + sz /\ (pos + 1) - a = p + 1
    <3>1. p \in Nat
      BY <1>4
    <3>2. QED
      BY <2>2, <3>1
  <2>4. QED
    BY <2>1, <2>2, <2>3
<1>9. Carries(wire, start, pos) /\ wire \in Seq(Pieces)
  BY DEF AtPlace, InStream, FrameTypes
<1>10. /\ Carries(Tail(wire), start, pos + 1)
       /\ Head(wire) = Frame(r + 1, frames[r + 1].size)[p + 1]
  <2>1. /\ Carries(Tail(wire), start, pos + 1)
        /\ \A k \in 1..Len(frames) :
             start[k] < pos + 1 /\ pos + 1 <= start[k + 1]
               => Head(wire) = Frame(k, frames[k].size)[(pos + 1) - start[k]]
    BY <1>4, <1>9, CarriesTail
  <2>2. QED
    BY <1>1, <1>5, <1>8, <2>1
<1>11. (pos + 1) + Len(Tail(wire)) = pos + Len(wire)
  <2>1. Len(wire) = w /\ pos \in Nat /\ Len(Tail(wire)) = w - 1
    BY <1>1, <1>3, <1>4
  <2>2. QED
    BY <2>1
<1>12. QED
  BY <1>1, <1>3, <1>5, <1>6, <1>7, <1>10, <1>11

\* What a read makes of the next piece: it goes on, or returns the message.
LEMMA TakePiece ==
  ASSUME NEW k \in Nat, NEW p \in Nat, NEW size \in Nat \ {0}, frames[k].size = size,
         p <= 2 + size, call.phase # "idle", Progress(k, p),
         Head(wire) = Frame(k, size)[p + 1], frames' = frames, ReadPiece
  PROVE  \/ p < 2 + size /\ results' = results /\ Progress(k, p + 1)'
         \/ p = 2 + size /\ results' = Append(results, Returns(k)) /\ call' = Idle
<1>1. IF call.phase = "body"
        THEN TakeBody(Append(call.body, Head(wire)))
        ELSE LET line == Append(call.line, Head(wire)) IN
             IF EndsLine(Head(wire))
               THEN TakeLine(line)
               ELSE call' = [call EXCEPT !.line = line] /\ UNCHANGED results
  BY DEF ReadPiece
<1>2. p = 0 \/ p = 1 \/ p = 2 \/ p > 2
  OBVIOUS
<1>3. CASE p = 0
  <2>1. call = NewCall
    BY <1>3, CallFacts DEF Progress
  <2>0. p + 1 = 1
    BY <1>3
  <2>2. Head(wire) = Piece("prefix", k) /\ ~EndsLine(Head(wire))
    <3>1. Head(wire) = Piece("prefix", k)
      BY <2>0, FrameLemma
    <3>2. Head(wire).part = "prefix"
      BY <3>1 DEF Piece
    <3>3. QED
      BY <3>1, <3>2 DEF EndsLine
  <2>3. Append(call.line, Head(wire)) = <<Piece("prefix", k)>>
    BY <2>1, <2>2, CallFacts
  <2>4. call' = [call EXCEPT !.line = <<Piece("prefix", k)>>] /\ results' = results
    BY <1>1, <2>1, <2>2, <2>3, CallFacts
  <2>5. call' = [phase |-> "line", line |-> <<Piece("prefix", k)>>, length |-> 0,
                 sawHeader |-> FALSE, body |-> <<>>]
    BY <2>1, <2>4 DEF NewCall, Idle
  <2>6. QED
    <3>1. Progress(k, 1)'
      BY <2>5 DEF Progress
    <3>2. p < 2 + size
      BY <1>3
    <3>3. QED
      BY <2>0, <2>4, <3>1, <3>2
<1>4. CASE p = 1
  <2>1. call = [phase |-> "line", line |-> <<Piece("prefix", k)>>, length |-> 0,
                sawHeader |-> FALSE, body |-> <<>>]
    BY <1>4 DEF Progress
  <2>0. p + 1 = 2
    BY <1>4
  <2>2. Head(wire) = Piece("number", k) /\ EndsLine(Head(wire))
    <3>1. Head(wire) = Piece("number", k)
      BY <2>0, FrameLemma
    <3>2. Head(wire).part = "number"
      BY <3>1 DEF Piece
    <3>3. QED
      BY <3>1, <3>2 DEF EndsLine
  <2> DEFINE line == Append(<<Piece("prefix", k)>>, Piece("number", k))
  <2>3. line[1] = Piece("prefix", k)
    OBVIOUS
  <2>4. TakeLine(line)
    BY <1>1, <2>1, <2>2
  <2> HIDE DEF line
  <2>5. line[1].part = "prefix" /\ line[1].of = k
    BY <2>3 DEF Piece
  <2>6. /\ call' = [call EXCEPT !.line = <<>>, !.sawHeader = TRUE, !.length = frames[line[1].of].size]
        /\ results' = results
    BY <2>4, <2>5 DEF TakeLine
  <2>7. call' = [phase |-> "line", line |-> <<>>, length |-> size,
                 sawHeader |-> TRUE, body |-> <<>>]
    BY <2>1, <2>5, <2>6
  <2>8. QED
    <3>1. Progress(k, 2)'
      BY <2>7 DEF Progress
    <3>2. p < 2 + size
      BY <1>4
    <3>3. QED
      BY <2>0, <2>6, <3>1, <3>2
<1>5. CASE p = 2
  <2>1. call = [phase |-> "line", line |-> <<>>, length |-> size,
                sawHeader |-> TRUE, body |-> <<>>]
    BY <1>5 DEF Progress
  <2>0. p + 1 = 3
    BY <1>5
  <2>2. Head(wire) = Piece("blank", k) /\ EndsLine(Head(wire))
    <3>1. Head(wire) = Piece("blank", k)
      BY <2>0, FrameLemma
    <3>2. Head(wire).part = "blank"
      BY <3>1 DEF Piece
    <3>3. QED
      BY <3>1, <3>2 DEF EndsLine
  <2> DEFINE line == Append(<<>>, Piece("blank", k))
  <2>3. line[1] = Piece("blank", k)
    OBVIOUS
  <2>4. TakeLine(line)
    BY <1>1, <2>1, <2>2
  <2> HIDE DEF line
  <2>5. line[1].part = "blank" /\ call.length # 0
    BY <2>1, <2>3 DEF Piece
  <2>6. call' = [call EXCEPT !.phase = "body", !.line = <<>>] /\ results' = results
    BY <2>4, <2>5 DEF TakeLine
  <2>7. Body(k, 0) = <<>>
    BY BodyLemma, EmptySeq
  <2>8. call' = [phase |-> "body", line |-> <<>>, length |-> size,
                 sawHeader |-> TRUE, body |-> Body(k, 0)]
    BY <2>1, <2>6, <2>7
  <2>9. 2 + 1 \in 3..(2 + size) /\ (2 + 1) - 3 = 0 /\ 2 < 2 + size
    OBVIOUS
  <2>10. QED
    BY <1>5, <2>6, <2>8, <2>9 DEF Progress
<1>6. CASE p > 2
  <2>1. PICK b \in Nat : p = 3 + b /\ b < size
    <3>1. p - 3 \in Nat /\ p = 3 + (p - 3) /\ p - 3 < size
      BY <1>6
    <3>2. QED
      BY <3>1
  <2>2. call = [phase |-> "body", line |-> <<>>, length |-> size,
                sawHeader |-> TRUE, body |-> Body(k, b)]
    <3>1. call = [phase |-> "body", line |-> <<>>, length |-> frames[k].size,
                  sawHeader |-> TRUE, body |-> Body(k, p - 3)]
      BY <1>6 DEF Progress
    <3>2. p - 3 = b
      BY <2>1
    <3>3. QED
      BY <3>1, <3>2
  <2>3. Head(wire) = Piece("body", k)
    <3>1. p + 1 \in 4..(3 + size)
      BY <2>1
    <3>2. QED
      BY <3>1, FrameLemma
  <2> DEFINE body == Append(Body(k, b), Piece("body", k))
  <2>4. TakeBody(body)
    BY <1>1, <2>2, <2>3
  <2>5. /\ body = Body(k, b + 1) /\ Len(Body(k, b + 1)) = b + 1
        /\ Body(k, b + 1)[1] = Piece("body", k)
    <3>1. body = Body(k, b + 1) /\ Body(k, b + 1)[1] = Piece("body", k)
      BY BodyLemma
    <3>2. b + 1 \in Nat
      OBVIOUS
    <3>3. Len(Body(k, b + 1)) = b + 1
      BY <3>2, BodyLemma
    <3>4. QED
      BY <3>1, <3>3
  <2> HIDE DEF body
  <2>6. CASE b + 1 = size
    <3>1. Finish(Parsed(body))
      BY <2>2, <2>4, <2>5, <2>6 DEF TakeBody
    <3>2. body[1].of = k /\ body = Body(k, frames[k].size)
      BY <2>5, <2>6 DEF Piece
    <3>3. Parsed(body) = Returns(k)
      BY <3>2 DEF Parsed, Returns
    <3>4. p = 2 + size
      BY <2>1, <2>6
    <3>5. QED
      BY <3>1, <3>3, <3>4 DEF Finish
  <2>7. CASE b + 1 # size
    <3>1. call' = [call EXCEPT !.body = Body(k, b + 1)] /\ results' = results
      BY <2>2, <2>4, <2>5, <2>7 DEF TakeBody
    <3>2. call' = [phase |-> "body", line |-> <<>>, length |-> size,
                   sawHeader |-> TRUE, body |-> Body(k, b + 1)]
      BY <2>2, <3>1
    <3>3. p + 1 \in 3..(2 + size) /\ (p + 1) - 3 = b + 1 /\ p < 2 + size
      BY <2>1, <2>7
    <3>4. QED
      BY <3>1, <3>2, <3>3 DEF Progress
  <2>8. QED
    BY <2>6, <2>7
<1>7. QED
  BY <1>2, <1>3, <1>4, <1>5, <1>6

\* One piece further, the read has taken it or has returned the message.
LEMMA ReadPieceStep ==
  ASSUME FrameTypes, NEW start, NEW pos, NEW p, AtPlace(start, pos, p), ReadPiece
  PROVE  FrameTypes' /\ \E q : AtPlace(start, pos + 1, q)'
<1>1. /\ UNCHANGED <<frames, unwritten, ended, torn>> /\ wire' = Tail(wire)
      /\ wire # <<>> /\ call.phase # "idle"
  BY DEF ReadPiece
<1>2. PICK n \in Nat, r \in Nat : n = Len(frames) /\ r = Len(results)
  BY PlaceFacts
<1>3. /\ r + 1 \in 1..n /\ p <= 2 + frames[r + 1].size
      /\ start[(r + 1) + 1] = (start[r + 1] + 3) + frames[r + 1].size
      /\ Head(wire) = Frame(r + 1, frames[r + 1].size)[p + 1]
      /\ Tail(wire) \in Seq(Pieces) /\ (pos + 1) + Len(Tail(wire)) = pos + Len(wire)
      /\ Carries(Tail(wire), start, pos + 1)
  BY <1>1, <1>2, NextPiece
<1>4. FrameTypes'
  BY <1>1, <1>3 DEF FrameTypes
<1>5. PICK size \in Nat \ {0}, k \in Nat : k = r + 1 /\ size = frames[k].size
  <2>1. r + 1 \in Nat /\ frames[r + 1].size \in Nat \ {0}
    BY <1>2, <1>3, PlaceFacts
  <2>2. QED
    BY <2>1
<1>6. /\ pos \in Nat /\ p \in Nat /\ pos = start[r + 1] + p /\ start[r + 1] \in Nat /\ r <= n
      /\ \A i \in 1..r : results[i] = Returns(i)
      /\ results \in Seq(Outcomes)
  <2>1. r + 1 \in 1..(n + 1)
    BY <1>3
  <2>2. QED
    BY <1>2, <2>1, PlaceFacts DEF AtPlace
<1>7. InStream(start, pos + 1)'
  <2>1. /\ Layout(start)' /\ Carries(wire, start, pos + 1)'
        /\ (unwritten # <<>> => Len(frames) > 0 /\ start[Len(frames)] < pos + Len(wire))'
           = (unwritten # <<>> => Len(frames) > 0 /\ start[Len(frames)] < pos + Len(Tail(wire)))
    BY <1>1, <1>3 DEF AtPlace, InStream, Layout, Carries
  <2>2. (pos + 1) + Len(wire') = pos + Len(wire)
    BY <1>1, <1>3
  <2>3. Carries(unwritten, start, (pos + 1) + Len(wire))'
    <3>1. Carries(unwritten, start, pos + Len(wire))
      BY DEF AtPlace, InStream
    <3>2. QED
      BY <1>1, <2>2, <3>1 DEF Carries
  <2>4. (((pos + 1) + Len(wire)) + Len(unwritten) = start[Len(frames) + 1])'
    BY <1>1, <2>2 DEF AtPlace, InStream
  <2>5. (unwritten # <<>> => Len(frames) > 0 /\ start[Len(frames)] < (pos + 1) + Len(wire))'
    BY <1>1, <2>2 DEF AtPlace, InStream
  <2>6. pos + 1 \in Nat
    BY <1>6
  <2>7. QED
    BY <2>1, <2>3, <2>4, <2>5, <2>6 DEF InStream
<1>8. \/ p < 2 + size /\ results' = results /\ Progress(k, p + 1)'
      \/ p = 2 + size /\ results' = Append(results, Returns(k)) /\ call' = Idle
  <2>1. Progress(k, p)
    BY <1>2, <1>5 DEF AtPlace
  <2>2. /\ frames[k].size = size /\ p <= 2 + size /\ p \in Nat
        /\ Head(wire) = Frame(k, size)[p + 1]
    BY <1>3, <1>5, <1>6
  <2>3. frames' = frames /\ call.phase # "idle"
    BY <1>1
  <2>4. k \in Nat /\ size \in Nat \ {0} /\ ReadPiece
    BY <1>5
  <2>5. QED
    BY <2>1, <2>2, <2>3, <2>4, TakePiece
<1>9. CASE p < 2 + size /\ results' = results /\ Progress(k, p + 1)'
  <2>1. AtPlace(start, pos + 1, p + 1)'
    <3>1. pos + 1 = start[r + 1] + (p + 1) /\ p + 1 \in Nat /\ r < n
      <4>1. pos + 1 = start[r + 1] + (p + 1)
        <5>1. PICK a \in Nat : a = start[r + 1]
          BY <1>6
        <5>2. pos = a + p /\ p \in Nat
          BY <1>6, <5>1
        <5>3. QED
          BY <5>1, <5>2
      <4>2. r < n
        BY <1>2, <1>3
      <4>3. QED
        BY <1>6, <4>1, <4>2
    <3>2. Len(results') = r /\ Len(frames') = n
      BY <1>1, <1>2, <1>9
    <3>3. (\A i \in 1..r : results[i] = Returns(i))'
      BY <1>1, <1>6, <1>9 DEF Returns
    <3>4. QED
      BY <1>5, <1>6, <1>7, <1>9, <3>1, <3>2, <3>3 DEF AtPlace
  <2>2. QED
    BY <1>4, <2>1
<1>10. CASE p = 2 + size /\ results' = Append(results, Returns(k)) /\ call' = Idle
  <2>1. Returns(k) \in Outcomes
    BY DEF Returns, Outcomes
  <2>2. /\ results' \in Seq(Outcomes) /\ Len(results') = r + 1 /\ results'[r + 1] = Returns(k)
        /\ \A i \in 1..r : results'[i] = results[i]
    BY <1>2, <1>6, <1>10, <2>1, AppendProperties
  <2>3. AtPlace(start, pos + 1, 0)'
    <3>1. pos + 1 = start[(r + 1) + 1] + 0 /\ r + 1 <= n
      <4>1. PICK a \in Nat : a = start[r + 1]
        BY <1>6
      <4>2. pos = a + (2 + size) /\ start[(r + 1) + 1] = (a + 3) + size
        BY <1>3, <1>5, <1>6, <1>10, <4>1
      <4>3. QED
        BY <1>3, <4>2
    <3>2. (\A i \in 1..(r + 1) : results[i] = Returns(i))'
      <4>1. \A i \in 1..(r + 1) : i \in 1..r \/ i = k
        BY <1>5
      <4>2. \A i \in 1..(r + 1) : results'[i] = Returns(i)
        BY <1>5, <1>6, <2>2, <4>1
      <4>3. QED
        BY <1>1, <4>2 DEF Returns
    <3>3. Progress((r + 1) + 1, 0)'
      BY <1>10 DEF Progress
    <3>4. Len(frames') = n /\ Len(results') = r + 1
      BY <1>1, <1>2, <2>2
    <3>5. QED
      BY <1>7, <2>2, <3>1, <3>2, <3>3, <3>4 DEF AtPlace
  <2>4. QED
    BY <1>4, <2>3
<1>11. QED
  BY <1>8, <1>9, <1>10

\* A reader that is out of step stays so, and the writer goes on.
LEMMA TornStep ==
  ASSUME FrameTypes, torn, FramesNext
  PROVE  FrameTypes' /\ torn'
<1>1. /\ frames \in Seq([size : Nat \ {0}, readable : BOOLEAN])
      /\ wire \in Seq(Pieces) /\ unwritten \in Seq(Pieces) /\ ended \in BOOLEAN
  BY DEF FrameTypes
<1>2. ASSUME NEW s \in Seq(Pieces), s # <<>> PROVE Head(s) \in Pieces /\ Tail(s) \in Seq(Pieces)
  BY <1>2, HeadTailProperties
<1>3. CASE WriteFrame
  <2>1. Len(frames) + 1 \in Nat
    BY <1>1, LenProperties
  <2>2. PICK size \in Nat \ {0}, readable \in BOOLEAN :
          /\ frames' = Append(frames, [size |-> size, readable |-> readable])
          /\ wire' = Append(wire, Head(Frame(Len(frames) + 1, size)))
          /\ unwritten' = Tail(Frame(Len(frames) + 1, size))
    BY <1>3, FrameAssumption DEF WriteFrame
  <2> DEFINE f == Frame(Len(frames) + 1, size)
  <2>3. f \in Seq(Pieces) /\ Len(f) = 3 + size
    BY <2>1, FrameLemma
  <2> HIDE DEF f
  <2>4. f # <<>>
    BY <2>3, EmptySeq
  <2>5. Head(f) \in Pieces /\ Tail(f) \in Seq(Pieces)
    BY <1>2, <2>3, <2>4
  <2>6. wire' = Append(wire, Head(f)) /\ unwritten' = Tail(f)
    BY <2>2 DEF f
  <2> DEFINE R == [size : Nat \ {0}, readable : BOOLEAN]
  <2>7. [size |-> size, readable |-> readable] \in R /\ frames \in Seq(R)
    BY <1>1
  <2> HIDE DEF R
  <2>8. frames' \in Seq(R) /\ wire' \in Seq(Pieces)
    BY <1>1, <2>2, <2>5, <2>6, <2>7, AppendProperties
  <2>9. ended' = ended /\ torn' = torn
    BY <1>3 DEF WriteFrame
  <2>10. QED
    BY <1>1, <2>5, <2>6, <2>8, <2>9 DEF FrameTypes, R
<1>4. CASE WriteMore
  <2>1. /\ unwritten # <<>> /\ wire' = Append(wire, Head(unwritten))
        /\ unwritten' = Tail(unwritten) /\ UNCHANGED <<frames, ended, torn>>
    BY <1>4 DEF WriteMore
  <2>2. wire' \in Seq(Pieces) /\ unwritten' \in Seq(Pieces)
    BY <1>1, <1>2, <2>1, AppendProperties
  <2>3. QED
    BY <1>1, <2>1, <2>2 DEF FrameTypes
<1>5. CASE CloseWriter \/ StartRead \/ ReadEnd
  BY <1>1, <1>5 DEF CloseWriter, StartRead, ReadEnd, FrameTypes
<1>6. CASE ReadPiece
  BY <1>1, <1>2, <1>6 DEF ReadPiece, FrameTypes
<1>7. CASE GiveUp
  BY <1>1, <1>7 DEF GiveUp, FrameTypes
<1>8. QED
  BY <1>3, <1>4, <1>5, <1>6, <1>7 DEF FramesNext

\* However the bytes are cut, a reader whose reads were not given up within a message stands at the
\* place of the stream it takes itself to be at (transport.rs, read_message).
THEOREM ReaderKeepsItsPlace == FramesSpec => []ReaderInv
<1>1. ReaderInv /\ [FramesNext]_framesVars => ReaderInv'
  <2> SUFFICES ASSUME ReaderInv, [FramesNext]_framesVars PROVE ReaderInv'
    OBVIOUS
  <2>1. FrameTypes /\ (~torn => PastEnd \/ \E start, pos, p : AtPlace(start, pos, p))
    BY DEF ReaderInv
  <2>2. CASE UNCHANGED framesVars
    <3>1. UNCHANGED <<frames, unwritten, wire, ended, call, results, torn>>
      BY <2>2 DEF framesVars
    <3>2. FrameTypes'
      BY <2>1, <3>1 DEF FrameTypes
    <3>3. ASSUME PastEnd PROVE PastEnd'
      BY <3>1, <3>3 DEF PastEnd, Returns, Complete
    <3>4. ASSUME NEW start, NEW pos, NEW p, AtPlace(start, pos, p)
          PROVE  AtPlace(start, pos, p)'
      <4>1. Progress(Len(results) + 1, p)'
        BY <3>1, <3>4 DEF AtPlace, Progress
      <4>2. QED
        BY <3>1, <3>4, <4>1, SamePlace
    <3>5. QED
      BY <2>1, <3>1, <3>2, <3>3, <3>4 DEF ReaderInv
  <2>3. CASE torn /\ FramesNext
    BY <2>1, <2>3, TornStep DEF ReaderInv
  <2>4. CASE PastEnd /\ FramesNext
    <3>1. CASE StartRead
      <4>1. /\ UNCHANGED <<frames, unwritten, wire, ended, results, torn>> /\ call' = NewCall
        BY <3>1 DEF StartRead
      <4>2. PastEnd'
        BY <2>4, <4>1 DEF PastEnd, Returns, Complete
      <4>3. FrameTypes'
        BY <2>1, <4>1 DEF FrameTypes
      <4>4. QED
        BY <4>2, <4>3 DEF ReaderInv
    <3>2. CASE ReadEnd
      BY <2>1, <2>4, <3>2, ReadEndAgain DEF ReaderInv
    <3>3. ~WriteFrame /\ ~WriteMore /\ ~CloseWriter /\ ~GiveUp
      BY <2>4 DEF PastEnd, WriteFrame, WriteMore, CloseWriter, GiveUp
    <3>4. ~ReadPiece
      BY <2>4 DEF PastEnd, ReadPiece
    <3>5. QED
      BY <2>4, <3>1, <3>2, <3>3, <3>4 DEF FramesNext
  <2>5. ASSUME NEW start, NEW pos, NEW p, AtPlace(start, pos, p), FramesNext
        PROVE  ReaderInv'
    <3>1. CASE WriteFrame
      BY <2>1, <2>5, <3>1, WriteFrameStep DEF ReaderInv
    <3>2. CASE WriteMore
      BY <2>1, <2>5, <3>2, WriteMoreStep DEF ReaderInv
    <3>3. CASE CloseWriter
      BY <2>1, <2>5, <3>3, CloseWriterStep DEF ReaderInv
    <3>4. CASE StartRead
      BY <2>1, <2>5, <3>4, StartReadStep DEF ReaderInv
    <3>5. CASE ReadPiece
      BY <2>1, <2>5, <3>5, ReadPieceStep DEF ReaderInv
    <3>6. CASE ReadEnd
      BY <2>1, <2>5, <3>6, ReadEndStep DEF ReaderInv
    <3>7. CASE GiveUp
      BY <2>1, <2>5, <3>7, GiveUpStep DEF ReaderInv
    <3>8. QED
      BY <2>5, <3>1, <3>2, <3>3, <3>4, <3>5, <3>6, <3>7 DEF FramesNext
  <2>6. QED
    BY <2>1, <2>2, <2>3, <2>4, <2>5
<1>2. QED
  BY <1>1, InitFrames, PTL DEF FramesSpec

\* The i-th read returns the i-th message.
THEOREM ReadsReturnWhatWasWritten == FramesSpec => []ReadsInStep
BY ReaderKeepsItsPlace, InvReads, PTL
=============================================================================
