------------------------- MODULE ControlClientProofs -------------------------
(***************************************************************************)
(* Proofs about the control client, for any calls, any number of messages, *)
(* and a session that answers and stops as it likes: no message is lost,   *)
(* the client implements ClientInbox, what a call returns is the answer to *)
(* its own request, a stop that came later, the newest status, and the     *)
(* initialisation fails for a cause.                                       *)
(* At the end, what a client decides at a stop by itself.                  *)
(***************************************************************************)
EXTENDS ControlClient, StopPolicy, CollectionLemmas

-----------------------------------------------------------------------------
(* Lists of steps *)

\* Who waits for an answer has just sent the request, except that an event may be awaited
\* in between.
Follow(s) ==
  \A i \in 1..Len(s) :
    /\ s[i].do \in {"sweep", "answer"} => i - 1 \in 1..Len(s) /\ s[i-1] = Send(s[i].name)
    /\ s[i].do = "seq" =>
         i - 2 \in 1..Len(s) /\ s[i-1].do # "send" /\ s[i-2] = Send(s[i].name)

\* The commands a list sends.
SentBy(s) == {s[i].name : i \in {j \in 1..Len(s) : s[j].do = "send"}}

\* The initialisation sends no command twice and waits for no late answer to initialize.
SentOnce(s) ==
  /\ \A i, j \in 1..Len(s) : (s[i].do = "send" /\ s[j].do = "send" /\ s[i].name = s[j].name) => i = j
  /\ \A i \in 1..Len(s) : s[i].do = "named" => s[i].name # "initialize"

\* A call waits for no answer by name, and for no event but a stop.
StopsOnly(s) ==
  \A i \in 1..Len(s) : s[i].do # "named" /\ (s[i].do = "event" => s[i].name = "stopped")

InitList(s) == s \in Seq(StepRecords) /\ Follow(s) /\ SentOnce(s)
CallList(s) == s \in Seq(StepRecords) /\ Follow(s) /\ StopsOnly(s)

\* A list after a list.
LEMMA ListConcat ==
  ASSUME NEW s \in Seq(StepRecords), NEW t \in Seq(StepRecords), Follow(s), Follow(t)
  PROVE  /\ s \o t \in Seq(StepRecords) /\ Follow(s \o t)
         /\ SentBy(s \o t) = SentBy(s) \cup SentBy(t)
         /\ StopsOnly(s) /\ StopsOnly(t) => StopsOnly(s \o t)
         /\ SentOnce(s) /\ SentOnce(t) /\ SentBy(s) \cap SentBy(t) = {} => SentOnce(s \o t)
<1>1. PICK u : u = s \o t
  OBVIOUS
<1>2. Len(s) \in Nat /\ Len(t) \in Nat
  BY LenProperties
<1>3. /\ u \in Seq(StepRecords) /\ Len(u) = Len(s) + Len(t)
      /\ \A i \in 1..(Len(s) + Len(t)) : u[i] = IF i <= Len(s) THEN s[i] ELSE t[i - Len(s)]
  BY <1>1, ConcatProperties
<1>4. \A i \in 1..Len(s) : i \in 1..Len(u) /\ u[i] = s[i]
  BY <1>2, <1>3
<1>5. \A i \in 1..Len(t) : Len(s) + i \in 1..Len(u) /\ u[Len(s) + i] = t[i]
  <2>1. TAKE i \in 1..Len(t)
  <2>2. /\ Len(s) + i \in 1..(Len(s) + Len(t)) /\ ~(Len(s) + i <= Len(s))
        /\ (Len(s) + i) - Len(s) = i
    BY <1>2
  <2>3. QED
    BY <1>3, <2>2
<1>6. \A i \in 1..Len(u) :
        \/ i \in 1..Len(s) /\ u[i] = s[i]
        \/ \E j \in 1..Len(t) : i = Len(s) + j /\ u[i] = t[j]
  <2>1. TAKE i \in 1..Len(u)
  <2>2. CASE i <= Len(s)
    BY <1>2, <1>3, <2>2
  <2>3. CASE i > Len(s)
    <3>1. i - Len(s) \in 1..Len(t) /\ i = Len(s) + (i - Len(s))
      BY <1>2, <1>3, <2>3
    <3>2. u[i] = t[i - Len(s)]
      BY <1>2, <1>3, <2>3
    <3>3. QED
      BY <3>1, <3>2
  <2>4. QED
    BY <1>2, <1>3, <2>2, <2>3
<1>7. Follow(u)
  <2>1. SUFFICES ASSUME NEW i \in 1..Len(u)
        PROVE  /\ u[i].do \in {"sweep", "answer"} => i - 1 \in 1..Len(u) /\ u[i-1] = Send(u[i].name)
               /\ u[i].do = "seq" =>
                    i - 2 \in 1..Len(u) /\ u[i-1].do # "send" /\ u[i-2] = Send(u[i].name)
    BY DEF Follow
  <2>2. CASE i \in 1..Len(s) /\ u[i] = s[i]
    <3>1. /\ s[i].do \in {"sweep", "answer"} => i - 1 \in 1..Len(s) /\ s[i-1] = Send(s[i].name)
          /\ s[i].do = "seq" =>
               i - 2 \in 1..Len(s) /\ s[i-1].do # "send" /\ s[i-2] = Send(s[i].name)
      BY <2>2 DEF Follow
    <3>2. i - 2 \in 1..Len(s) => i - 1 \in 1..Len(s)
      BY <2>2
    <3>3. QED
      BY <1>4, <2>2, <3>1, <3>2
  <2>3. ASSUME NEW j \in 1..Len(t), i = Len(s) + j, u[i] = t[j]
        PROVE  /\ u[i].do \in {"sweep", "answer"} => i - 1 \in 1..Len(u) /\ u[i-1] = Send(u[i].name)
               /\ u[i].do = "seq" =>
                    i - 2 \in 1..Len(u) /\ u[i-1].do # "send" /\ u[i-2] = Send(u[i].name)
    <3>1. j - 1 \in 1..Len(t) => i - 1 \in 1..Len(u) /\ u[i-1] = t[j-1]
      <4>1. i - 1 = Len(s) + (j - 1)
        BY <1>2, <2>3
      <4>2. QED
        BY <1>5, <4>1
    <3>2. j - 2 \in 1..Len(t) => i - 2 \in 1..Len(u) /\ u[i-2] = t[j-2] /\ j - 1 \in 1..Len(t)
      <4>1. i - 2 = Len(s) + (j - 2)
        BY <1>2, <2>3
      <4>2. j - 2 \in 1..Len(t) => j - 1 \in 1..Len(t)
        BY <1>2, <2>3
      <4>3. QED
        BY <1>5, <4>1, <4>2
    <3>3. /\ t[j].do \in {"sweep", "answer"} => j - 1 \in 1..Len(t) /\ t[j-1] = Send(t[j].name)
          /\ t[j].do = "seq" =>
               j - 2 \in 1..Len(t) /\ t[j-1].do # "send" /\ t[j-2] = Send(t[j].name)
      BY DEF Follow
    <3>4. QED
      BY <2>3, <3>1, <3>2, <3>3
  <2>4. QED
    BY <1>6, <2>2, <2>3
<1>8. SentBy(u) = SentBy(s) \cup SentBy(t)
  <2>1. \A i \in 1..Len(s) : s[i].do = "send" => s[i].name \in SentBy(u)
    BY <1>4 DEF SentBy
  <2>2. \A i \in 1..Len(t) : t[i].do = "send" => t[i].name \in SentBy(u)
    BY <1>5 DEF SentBy
  <2>3. \A i \in 1..Len(u) : u[i].do = "send" => u[i].name \in SentBy(s) \cup SentBy(t)
    BY <1>6 DEF SentBy
  <2>4. QED
    BY <2>1, <2>2, <2>3 DEF SentBy
<1>9. ASSUME StopsOnly(s), StopsOnly(t) PROVE StopsOnly(u)
  BY <1>6, <1>9 DEF StopsOnly
<1>10. ASSUME SentOnce(s), SentOnce(t), SentBy(s) \cap SentBy(t) = {}
       PROVE  SentOnce(u)
  <2>1. \A i \in 1..Len(u) : u[i].do = "named" => u[i].name # "initialize"
    BY <1>6, <1>10 DEF SentOnce
  <2>2. ASSUME NEW i \in 1..Len(u), NEW j \in 1..Len(u),
               u[i].do = "send", u[j].do = "send", u[i].name = u[j].name
        PROVE  i = j
    <3>1. CASE i \in 1..Len(s) /\ u[i] = s[i] /\ j \in 1..Len(s) /\ u[j] = s[j]
      BY <1>10, <2>2, <3>1 DEF SentOnce
    <3>2. ASSUME NEW k \in 1..Len(t), NEW l \in 1..Len(t), i = Len(s) + k, j = Len(s) + l,
                 u[i] = t[k], u[j] = t[l]
          PROVE  i = j
      BY <1>10, <2>2, <3>2 DEF SentOnce
    <3>3. \A k \in 1..Len(s), l \in 1..Len(t) :
            ~(s[k].do = "send" /\ t[l].do = "send" /\ s[k].name = t[l].name)
      BY <1>10 DEF SentBy
    <3>4. CASE i \in 1..Len(s) /\ u[i] = s[i]
      <4>1. ASSUME NEW l \in 1..Len(t), u[j] = t[l] PROVE FALSE
        BY <2>2, <3>3, <3>4, <4>1
      <4>2. QED
        BY <1>6, <3>1, <3>4, <4>1
    <3>5. ASSUME NEW k \in 1..Len(t), i = Len(s) + k, u[i] = t[k]
          PROVE  i = j
      <4>1. ~(j \in 1..Len(s) /\ u[j] = s[j])
        BY <2>2, <3>3, <3>5
      <4>2. QED
        BY <1>6, <3>2, <3>5, <4>1
    <3>6. QED
      BY <1>6, <3>4, <3>5
  <2>3. QED
    BY <2>1, <2>2 DEF SentOnce
<1>11. QED
  BY <1>1, <1>3, <1>7, <1>8, <1>9, <1>10

\* Lists of one and two steps.
LEMMA ShortLists ==
  ASSUME NEW S, NEW a \in S, NEW b \in S
  PROVE  /\ <<a>> \in Seq(S) /\ Len(<<a>>) = 1 /\ <<a>>[1] = a
         /\ <<a, b>> \in Seq(S) /\ Len(<<a, b>>) = 2 /\ <<a, b>>[1] = a /\ <<a, b>>[2] = b
OBVIOUS

LEMMA RecordLemma ==
  ASSUME NEW do, NEW c,
         \/ do \in {"send", "sweep", "answer", "seq", "named"} /\ c \in Commands
         \/ do \in {"arrival", "event"} /\ c \in EventNames
         \/ do = "drain" /\ c \in Purposes
  PROVE  [do |-> do, name |-> c] \in StepRecords
BY DEF StepRecords

\* The parts that lists are made of.
LEMMA AskList ==
  ASSUME NEW c \in Commands
  PROVE  CallList(Ask(c))
<1>1. /\ Ask(c) \in Seq(StepRecords) /\ Len(Ask(c)) = 2
      /\ Ask(c)[1] = Send(c) /\ Ask(c)[2] = [do |-> "sweep", name |-> c]
  BY RecordLemma, ShortLists DEF Ask, Send
<1>2. QED
  BY <1>1 DEF CallList, Follow, StopsOnly, Send

LEMMA AskAndKeepList ==
  ASSUME NEW c \in Commands
  PROVE  CallList(AskAndKeep(c)) /\ InitList(AskAndKeep(c)) /\ SentBy(AskAndKeep(c)) = {c}
<1> DEFINE s == AskAndKeep(c)
<1>1. /\ s \in Seq(StepRecords) /\ Len(s) = 2
      /\ s[1] = Send(c) /\ s[2] = [do |-> "answer", name |-> c]
  BY RecordLemma, ShortLists DEF AskAndKeep, Send
<1> HIDE DEF s
<1>2. Follow(s) /\ StopsOnly(s) /\ SentOnce(s)
  BY <1>1 DEF Follow, StopsOnly, SentOnce, Send
<1>3. SentBy(s) = {c}
  <2>1. {j \in 1..Len(s) : s[j].do = "send"} = {1}
    BY <1>1 DEF Send
  <2>2. QED
    BY <1>1, <2>1 DEF SentBy, Send
<1>4. QED
  BY <1>1, <1>2, <1>3 DEF CallList, InitList, s

LEMMA SendAndAwaitList ==
  ASSUME NEW c \in Commands, NEW e \in EventNames
  PROVE  /\ InitList(SendAndAwait(c, e)) /\ SentBy(SendAndAwait(c, e)) = {c}
         /\ InitList(SendAndAwait(c, e) \o Step("seq", c))
         /\ SentBy(SendAndAwait(c, e) \o Step("seq", c)) = {c}
<1> DEFINE s == SendAndAwait(c, e)
           t == s \o Step("seq", c)
<1>1. /\ s \in Seq(StepRecords) /\ Len(s) = 2
      /\ s[1] = Send(c) /\ s[2] = [do |-> "arrival", name |-> e]
  BY RecordLemma, ShortLists DEF SendAndAwait, Send
<1>2. /\ Step("seq", c) \in Seq(StepRecords) /\ Len(Step("seq", c)) = 1
      /\ Step("seq", c)[1] = [do |-> "seq", name |-> c]
  BY RecordLemma, ShortLists DEF Step
<1> HIDE DEF s
<1>3. /\ t \in Seq(StepRecords) /\ Len(t) = 3
      /\ t[1] = s[1] /\ t[2] = s[2] /\ t[3] = [do |-> "seq", name |-> c]
  <2>1. PICK r : r = Step("seq", c)
    OBVIOUS
  <2>2. /\ t \in Seq(StepRecords) /\ Len(t) = Len(s) + Len(r)
        /\ \A i \in 1..(Len(s) + Len(r)) : t[i] = IF i <= Len(s) THEN s[i] ELSE r[i - Len(s)]
    BY <1>1, <1>2, <2>1, ConcatProperties
  <2> HIDE DEF t
  <2>3. QED
    BY <1>1, <1>2, <2>1, <2>2
<1> HIDE DEF t
<1>4. Follow(s) /\ SentOnce(s)
  BY <1>1 DEF Follow, SentOnce, Send
<1>5. Follow(t) /\ SentOnce(t)
  BY <1>1, <1>3 DEF Follow, SentOnce, Send
<1>6. SentBy(s) = {c}
  <2>1. {j \in 1..Len(s) : s[j].do = "send"} = {1}
    BY <1>1 DEF Send
  <2>2. QED
    BY <1>1, <2>1 DEF SentBy, Send
<1>7. SentBy(t) = {c}
  <2>1. {j \in 1..Len(t) : t[j].do = "send"} = {1}
    BY <1>1, <1>3 DEF Send
  <2>2. QED
    BY <1>1, <1>3, <2>1 DEF SentBy, Send
<1>8. QED
  BY <1>1, <1>3, <1>4, <1>5, <1>6, <1>7 DEF InitList, s, t

LEMMA StepList ==
  ASSUME NEW do, NEW name,
         \/ do = "named" /\ name \in Commands
         \/ do = "event" /\ name \in EventNames
         \/ do = "drain" /\ name \in Purposes
  PROVE  /\ Step(do, name) \in Seq(StepRecords) /\ Follow(Step(do, name))
         /\ SentBy(Step(do, name)) = {}
         /\ (do # "named" \/ name # "initialize") => InitList(Step(do, name))
         /\ do = "drain" \/ (do = "event" /\ name = "stopped") => CallList(Step(do, name))
<1> DEFINE s == Step(do, name)
<1>1. s \in Seq(StepRecords) /\ Len(s) = 1 /\ s[1] = [do |-> do, name |-> name]
  BY RecordLemma, ShortLists DEF Step
<1> HIDE DEF s
<1>2. Follow(s) /\ SentBy(s) = {}
  BY <1>1 DEF Follow, SentBy
<1>3. (do # "named" \/ name # "initialize") => SentOnce(s)
  BY <1>1 DEF SentOnce
<1>4. do = "drain" \/ (do = "event" /\ name = "stopped") => StopsOnly(s)
  BY <1>1 DEF StopsOnly
<1>5. QED
  BY <1>1, <1>2, <1>3, <1>4 DEF InitList, CallList, s

LEMMA EmptyList ==
  /\ <<>> \in Seq(StepRecords) /\ Follow(<<>>) /\ SentBy(<<>>) = {}
  /\ InitList(<<>>) /\ CallList(<<>>)
<1>1. <<>> \in Seq(StepRecords) /\ Len(<<>>) = 0
  BY EmptySeq
<1>2. 1..0 = {}
  OBVIOUS
<1>3. QED
  BY <1>1, <1>2 DEF Follow, SentBy, InitList, CallList, SentOnce, StopsOnly

\* The commands and events of the handshake are among those that have a name.
LEMMA HandshakeNames ==
  /\ {"initialize", "launch", "attach", "configurationDone", "setBreakpoints", "threads"} \subseteq Commands
  /\ {"initialized", "stopped", "continued", "exited"} = EventNames
BY DEF Commands, FrameRequests, EventNames

\* A step of a manifest sends what it is to request, if anything.
LEMMA InitStepList ==
  ASSUME NEW request, NEW event, NEW response,
         request = None \/ request \in Commands, event = None \/ event \in EventNames,
         response = None \/ response \in Commands \ {"initialize"}
  PROVE  /\ InitList(InitStep(request, event, response))
         /\ SentBy(InitStep(request, event, response)) = IF request = None THEN {} ELSE {request}
<1>1. CASE request = None
  BY <1>1, EmptyList, StepList DEF InitStep
<1>2. CASE request # None /\ event # None
  <2>1. request \in Commands /\ event \in EventNames
    BY <1>2
  <2>2. CASE response = request
    BY <1>2, <2>1, <2>2, SendAndAwaitList DEF InitStep
  <2>3. CASE response # request
    <3>1. SendAndAwait(request, event) \in Seq(StepRecords)
      BY <2>1, SendAndAwaitList DEF InitList
    <3>2. InitStep(request, event, response) = SendAndAwait(request, event)
      BY <1>2, <2>3, <3>1, ConcatEmptySeq DEF InitStep
    <3>3. QED
      BY <1>2, <2>1, <3>2, SendAndAwaitList
  <2>4. QED
    BY <2>2, <2>3
<1>3. CASE request # None /\ event = None
  <2>1. request \in Commands
    BY <1>3
  <2>2. PICK s : s = AskAndKeep(request)
    OBVIOUS
  <2>3. InitList(s) /\ SentBy(s) = {request}
    BY <2>1, <2>2, AskAndKeepList
  <2>4. PICK t : t = IF response = None THEN <<>> ELSE Step("named", response)
    OBVIOUS
  <2>5. InitList(t) /\ SentBy(t) = {}
    BY <2>4, EmptyList, StepList
  <2>6. InitStep(request, event, response) = s \o t
    BY <1>3, <2>2, <2>4 DEF InitStep
  <2>7. InitList(s \o t) /\ SentBy(s \o t) = {request}
    BY <2>3, <2>5, ListConcat DEF InitList
  <2>8. QED
    BY <1>3, <2>6, <2>7
<1>4. QED
  BY <1>1, <1>2, <1>3

\* A list that sends nothing the other sends goes on as an initialisation.
LEMMA InitConcat ==
  ASSUME NEW s, NEW t, InitList(s), InitList(t), SentBy(s) \cap SentBy(t) = {}
  PROVE  InitList(s \o t) /\ SentBy(s \o t) = SentBy(s) \cup SentBy(t)
BY ListConcat DEF InitList

LEMMA InitStepsList ==
  ASSUME NEW p
  PROVE  InitList(InitSteps(p)) /\ "initialize" \notin SentBy(InitSteps(p))
<1> DEFINE Done(s, sent) == InitList(s) /\ SentBy(s) \subseteq sent
<1>1. \A r \in Commands : \A e \in EventNames \cup {None} : \A a \in (Commands \ {"initialize"}) \cup {None} :
        Done(InitStep(r, e, a), {r})
  BY InitStepList
<1>2. \A a \in Commands \ {"initialize"} : Done(InitStep(None, None, a), {})
  BY InitStepList
<1>3. \A s, t, x, y : Done(s, x) /\ Done(t, y) /\ x \cap y = {} => Done(s \o t, x \cup y)
  <2>1. TAKE s, t, x, y
  <2>2. HAVE Done(s, x) /\ Done(t, y) /\ x \cap y = {}
  <2>3. InitList(s) /\ InitList(t) /\ SentBy(s) \cap SentBy(t) = {}
    BY <2>2
  <2>4. InitList(s \o t) /\ SentBy(s \o t) = SentBy(s) \cup SentBy(t)
    BY <2>3, InitConcat
  <2>5. QED
    BY <2>2, <2>4
<1> DEFINE python == InitStep("launch", "initialized", None) \o InitStep("setBreakpoints", None, None)
                       \o InitStep("configurationDone", None, None) \o InitStep(None, None, "launch")
           remote == InitStep("attach", "initialized", None) \o InitStep("configurationDone", None, None)
           launch == InitStep("launch", "initialized", None) \o InitStep("configurationDone", None, "launch")
           attach == InitStep("attach", "initialized", "attach") \o InitStep("configurationDone", None, None)
<1>4. InitSteps(p) \in {python, remote, launch, attach, <<>>}
  BY DEF InitSteps
<1> HIDE DEF Done
<1>5. /\ Done(InitStep("launch", "initialized", None), {"launch"})
      /\ Done(InitStep("attach", "initialized", None), {"attach"})
      /\ Done(InitStep("attach", "initialized", "attach"), {"attach"})
      /\ Done(InitStep("setBreakpoints", None, None), {"setBreakpoints"})
      /\ Done(InitStep("configurationDone", None, None), {"configurationDone"})
      /\ Done(InitStep("configurationDone", None, "launch"), {"configurationDone"})
      /\ Done(InitStep(None, None, "launch"), {})
  BY <1>1, <1>2, HandshakeNames
<1>6. Done(python, {"launch", "setBreakpoints", "configurationDone"})
  <2>1. Done(InitStep("launch", "initialized", None) \o InitStep("setBreakpoints", None, None),
             {"launch"} \cup {"setBreakpoints"})
    BY <1>3, <1>5
  <2>2. Done(InitStep("launch", "initialized", None) \o InitStep("setBreakpoints", None, None)
               \o InitStep("configurationDone", None, None),
             ({"launch"} \cup {"setBreakpoints"}) \cup {"configurationDone"})
    BY <1>3, <1>5, <2>1
  <2>3. Done(python, (({"launch"} \cup {"setBreakpoints"}) \cup {"configurationDone"}) \cup {})
    BY <1>3, <1>5, <2>2
  <2>4. (({"launch"} \cup {"setBreakpoints"}) \cup {"configurationDone"}) \cup {}
          = {"launch", "setBreakpoints", "configurationDone"}
    OBVIOUS
  <2>5. QED
    BY <2>3, <2>4
<1>7. /\ Done(remote, {"attach"} \cup {"configurationDone"})
      /\ Done(launch, {"launch"} \cup {"configurationDone"})
      /\ Done(attach, {"attach"} \cup {"configurationDone"})
  BY <1>3, <1>5
<1>8. Done(<<>>, {})
  BY EmptyList DEF Done
<1> HIDE DEF python, remote, launch, attach
<1>9. QED
  BY <1>4, <1>6, <1>7, <1>8 DEF Done

\* The lists a client begins with.
LEMMA SessionInitList ==
  ASSUME NEW p PROVE InitList(SessionInit(p))
<1> DEFINE rest == IF InitSteps(p) = <<>> THEN DefaultSequence ELSE InitSteps(p)
<1>1. InitList(DefaultSequence) /\ SentBy(DefaultSequence) = {"launch"} \cup {"configurationDone"}
  <2>1. /\ InitList(AskAndKeep("launch")) /\ SentBy(AskAndKeep("launch")) = {"launch"}
        /\ InitList(AskAndKeep("configurationDone"))
        /\ SentBy(AskAndKeep("configurationDone")) = {"configurationDone"}
    BY AskAndKeepList, HandshakeNames
  <2>2. InitList(Step("event", "initialized")) /\ SentBy(Step("event", "initialized")) = {}
    BY StepList, HandshakeNames
  <2>3. /\ InitList(AskAndKeep("launch") \o Step("event", "initialized"))
        /\ SentBy(AskAndKeep("launch") \o Step("event", "initialized")) = {"launch"}
    BY <2>1, <2>2, InitConcat
  <2>4. QED
    BY <2>1, <2>3, InitConcat DEF DefaultSequence
<1>2. InitList(rest) /\ "initialize" \notin SentBy(rest)
  BY <1>1, InitStepsList
<1>3. InitList(AskAndKeep("initialize")) /\ SentBy(AskAndKeep("initialize")) = {"initialize"}
  BY AskAndKeepList, HandshakeNames
<1>4. InitList(Step("event", "stopped")) /\ SentBy(Step("event", "stopped")) = {}
  BY StepList, HandshakeNames
<1> HIDE DEF rest
<1>5. InitList(AskAndKeep("initialize") \o rest)
  BY <1>2, <1>3, InitConcat
<1>6. InitList(AskAndKeep("initialize") \o rest \o Step("event", "stopped"))
  BY <1>4, <1>5, InitConcat
<1>7. QED
  BY <1>6 DEF SessionInit, rest

\* The lists of the calls.
LEMMA CallStepsList ==
  ASSUME NEW c \in Calls PROVE CallList(CallSteps(c))
<1>1. ASSUME NEW s, NEW t, CallList(s), CallList(t) PROVE CallList(s \o t)
  BY <1>1, ListConcat DEF CallList
<1> DEFINE Asks == FrameRequests \cup EditRequests \cup {"disconnect"}
           Others == {"probe_status", "drain", "wait_for_event"}
<1>2. Asks \cap Navigations = {} /\ Asks \cap Others = {} /\ Navigations \cap Others = {}
  BY DEF FrameRequests, EditRequests, Navigations
<1>3. Asks \cup Navigations \subseteq Commands
  BY DEF Commands
<1>4. CallSteps(c) = CASE c \in Asks -> Ask(c)
                       [] c \in Navigations -> Navigate(c)
                       [] c = "probe_status" -> Step("drain", "probe")
                       [] c = "drain" -> Step("drain", "caller")
                       [] c = "wait_for_event" -> Step("event", "stopped")
  BY DEF CallSteps
<1>5. CallList(Step("event", "stopped"))
  BY StepList DEF EventNames
<1>6. CallList(Step("drain", "step")) /\ CallList(Step("drain", "probe")) /\ CallList(Step("drain", "caller"))
  BY StepList DEF Purposes
<1>7. c \in Asks \cup Navigations \cup Others
  BY CallsAssumption
<1> HIDE DEF Asks
<1>8. CASE c \in Asks
  <2>1. CallSteps(c) = Ask(c)
    BY <1>2, <1>4, <1>8
  <2>2. QED
    BY <1>3, <1>8, <2>1, AskList
<1>9. CASE c \in Navigations
  <2>1. CallSteps(c) = Navigate(c)
    BY <1>2, <1>4, <1>9
  <2>2. CallList(AskAndKeep(c))
    BY <1>3, <1>9, AskAndKeepList
  <2>3. QED
    BY <1>1, <1>5, <1>6, <2>1, <2>2 DEF Navigate
<1>10. CASE c \in Others
  BY <1>2, <1>4, <1>5, <1>6, <1>10
<1>11. QED
  BY <1>7, <1>8, <1>9, <1>10

\* The list with which probe_status goes on, and the one of a client that attaches.
LEMMA OtherLists ==
  CallList(Ask("threads") \o Step("drain", "again")) /\ InitList(Step("drain", "absorb"))
<1>1. CallList(Ask("threads"))
  BY AskList, HandshakeNames
<1>2. CallList(Step("drain", "again")) /\ InitList(Step("drain", "absorb"))
  BY StepList DEF Purposes
<1>3. QED
  BY <1>1, <1>2, ListConcat DEF CallList

-----------------------------------------------------------------------------
(* The session *)

\* A response bears the name and the number of a request, and the replayed one no number.
Answers ==
  {m \in Messages : m.kind = "response" =>
     IF m.seq = 0 THEN m.name = "initialize" ELSE m.seq \in 1..Len(asked) /\ m.name = asked[m.seq]}
Outstanding == {r \in [name : Commands, seq : 1..Len(asked)] : r.name = asked[r.seq]}

SessionInv == log \in Seq(Answers) /\ requests \in Seq(Outstanding)

\* What the steps of the session have in common: up to three messages are sent, and
\* nothing of the client changes.
Speaks(messages) ==
  /\ messages \in Seq(Answers) /\ Len(messages) \in 0..3 /\ Emit(messages)
  /\ open' \in BOOLEAN /\ requests' \in Seq(Outstanding) /\ owed' \in 0..Len(asked)
  /\ debuggee' \in {"none", "running", "stopped", "exited"} /\ stops' \in 0..MaxStops
  /\ UNCHANGED <<kind, client>>

LEMMA SeqWiden ==
  ASSUME NEW S, NEW T, S \subseteq T, NEW s \in Seq(S)
  PROVE  s \in Seq(T)
OBVIOUS

LEMMA EventIsAnswer ==
  ASSUME NEW e \in EventNames PROVE Event(e) \in Answers
BY DEF Event, Answers, Messages

LEMMA ResponseIsAnswer ==
  ASSUME NEW r \in Outstanding, TypeOK PROVE Response(r) \in Answers
<1>1. Len(asked) \in Nat
  BY LenProperties DEF TypeOK
<1>2. r.name \in Commands /\ r.seq \in 1..Len(asked) /\ r.name = asked[r.seq]
  BY DEF Outstanding
<1>3. PICK n : n = r.seq
  OBVIOUS
<1>4. n \in Nat /\ n # 0
  BY <1>1, <1>2, <1>3
<1>5. QED
  BY <1>2, <1>3, <1>4 DEF Response, Answers, Messages

\* One message, or two.
LEMMA ShortSpeech ==
  ASSUME NEW m \in Answers, NEW n \in Answers
  PROVE  /\ <<m>> \in Seq(Answers) /\ Len(<<m>>) = 1
         /\ <<m, n>> \in Seq(Answers) /\ Len(<<m, n>>) = 2
         /\ <<>> \in Seq(Answers) /\ Len(<<>>) = 0
BY ShortLists, EmptySeq

\* A speech after a speech.
LEMMA SpeechConcat ==
  ASSUME NEW s \in Seq(Answers), NEW t \in Seq(Answers)
  PROVE  s \o t \in Seq(Answers) /\ Len(s \o t) = Len(s) + Len(t)
BY ConcatProperties

\* What the adapter answers to a request.
LEMMA ReactionLemma ==
  ASSUME TypeOK, NEW r \in Outstanding
  PROVE  /\ Reaction(r) \in Seq(Answers) /\ Len(Reaction(r)) \in 0..2
         /\ r.name \in {"continue", "next"} => Len(Reaction(r)) = 1
<1>1. Response(r) \in Answers /\ Event("initialized") \in Answers
  BY ResponseIsAnswer, EventIsAnswer DEF EventNames
<1>2. PICK a : a = Response(r)
  OBVIOUS
<1>3. PICK e : e = Event("initialized")
  OBVIOUS
<1>4. /\ <<>> \in Seq(Answers) /\ Len(<<>>) = 0
      /\ <<a>> \in Seq(Answers) /\ Len(<<a>>) = 1
      /\ <<e>> \in Seq(Answers) /\ Len(<<e>>) = 1
  BY <1>1, <1>2, <1>3, ShortSpeech
<1>5. CASE r.name = "initialize"
  <2>1. PICK s : s = IF announces = "before" THEN <<e>> ELSE <<>>
    OBVIOUS
  <2>2. PICK t : t = IF announces = "after" THEN <<e>> ELSE <<>>
    OBVIOUS
  <2>3. Reaction(r) = s \o <<a>> \o t
    BY <1>2, <1>3, <1>5, <2>1, <2>2 DEF Reaction
  <2>4. s \in Seq(Answers) /\ t \in Seq(Answers) /\ Len(s) + Len(t) \in 0..1 /\ Len(s) \in Nat /\ Len(t) \in Nat
    BY <1>4, <2>1, <2>2
  <2>5. s \o <<a>> \in Seq(Answers) /\ Len(s \o <<a>>) = Len(s) + 1
    BY <1>4, <2>4, SpeechConcat
  <2>6. s \o <<a>> \o t \in Seq(Answers) /\ Len(s \o <<a>> \o t) = Len(s) + 1 + Len(t)
    BY <2>4, <2>5, SpeechConcat
  <2>7. QED
    BY <1>5, <2>3, <2>4, <2>6
<1>6. CASE r.name \in {"launch", "attach"}
  <2>1. PICK s : s = IF deferred THEN <<>> ELSE <<a>>
    OBVIOUS
  <2>2. PICK t : t = IF announces = "launch" /\ flaw # "refused" THEN <<e>> ELSE <<>>
    OBVIOUS
  <2>3. Reaction(r) = s \o t
    BY <1>2, <1>3, <1>6, <2>1, <2>2 DEF Reaction
  <2>4. s \in Seq(Answers) /\ t \in Seq(Answers) /\ Len(s) \in 0..1 /\ Len(t) \in 0..1
    BY <1>4, <2>1, <2>2
  <2>5. QED
    BY <1>6, <2>3, <2>4, SpeechConcat
<1>7. CASE r.name = "configurationDone"
  <2>1. PICK o : o = [name |-> asked[owed], seq |-> owed]
    OBVIOUS
  <2>2. PICK t : t = IF owed # 0 THEN <<Response(o)>> ELSE <<>>
    OBVIOUS
  <2>3. Reaction(r) = <<a>> \o t
    BY <1>2, <1>7, <2>1, <2>2 DEF Reaction
  <2>4. owed # 0 => o \in Outstanding
    <3>1. HAVE owed # 0
    <3>2. asked \in Seq(Commands) /\ owed \in 0..Len(asked) /\ Len(asked) \in Nat
      BY LenProperties DEF TypeOK
    <3>3. owed \in 1..Len(asked)
      BY <3>1, <3>2
    <3>4. asked[owed] \in Commands
      BY <3>2, <3>3, ElementOfSeq
    <3>5. QED
      BY <2>1, <3>3, <3>4 DEF Outstanding
  <2>5. t \in Seq(Answers) /\ Len(t) \in 0..1
    BY <1>4, <2>2, <2>4, ResponseIsAnswer, ShortSpeech
  <2>6. QED
    BY <1>4, <1>7, <2>3, <2>5, SpeechConcat
<1>8. CASE r.name \notin {"initialize", "launch", "attach", "configurationDone"}
  <2>1. Reaction(r) = <<a>>
    BY <1>2, <1>8 DEF Reaction
  <2>2. QED
    BY <1>4, <2>1
<1>9. QED
  BY <1>5, <1>6, <1>7, <1>8

\* What the adapter answers to request r: the answer, unless it is deferred, and initialized
\* when it announces it there and does not refuse; the answer to initialize first, unless
\* it announces before it.
Announced(r) == r.name \in IF announces = "launch" THEN {"launch", "attach"} ELSE {"initialize"}
Says(s, m) == \E i \in 1..Len(s) : s[i] = m
Answered(r, s) ==
  /\ ~(deferred /\ r.name \in {"launch", "attach"}) => Says(s, Response(r))
  /\ Announced(r) /\ flaw # "refused" => Says(s, Event("initialized"))
  /\ r.name = "initialize" /\ announces # "before" => s # <<>> /\ s[1] = Response(r)

\* What two lists of messages say together, and what one message says.
LEMMA SaysConcat ==
  ASSUME NEW S, NEW s \in Seq(S), NEW t \in Seq(S)
  PROVE  /\ \A m : Says(s, m) \/ Says(t, m) => Says(s \o t, m)
         /\ s # <<>> => s \o t # <<>> /\ (s \o t)[1] = s[1]
<1>1. PICK k \in Nat, l \in Nat : k = Len(s) /\ l = Len(t)
  BY LenProperties
<1>2. PICK u : u = s \o t
  OBVIOUS
<1>3. /\ u \in Seq(S) /\ Len(u) = k + l
      /\ \A i \in 1..(k + l) : u[i] = IF i <= k THEN s[i] ELSE t[i - k]
  BY <1>1, <1>2, ConcatProperties
<1>4. ASSUME NEW i \in 1..k PROVE i \in 1..(k + l) /\ u[i] = s[i]
  BY <1>3
<1>5. ASSUME NEW i \in 1..l PROVE k + i \in 1..(k + l) /\ u[k + i] = t[i]
  <2>1. k + i \in 1..(k + l) /\ ~(k + i <= k) /\ (k + i) - k = i
    OBVIOUS
  <2>2. QED
    BY <1>3, <2>1
<1>6. \A m : Says(s, m) \/ Says(t, m) => Says(u, m)
  BY <1>1, <1>3, <1>4, <1>5 DEF Says
<1>7. s # <<>> => u # <<>> /\ u[1] = s[1]
  <2>1. HAVE s # <<>>
  <2>2. k # 0
    BY <1>1, <2>1, EmptySeq
  <2>3. 1 \in 1..k /\ k + l # 0
    BY <2>2
  <2>4. u # <<>>
    BY <1>3, <2>3, EmptySeq
  <2>5. QED
    BY <1>4, <2>3, <2>4
<1>8. QED
  BY <1>2, <1>6, <1>7

LEMMA SaysOne ==
  ASSUME NEW S, NEW m \in S
  PROVE  <<>> \in Seq(S) /\ <<m>> \in Seq(S) /\ Says(<<m>>, m) /\ <<m>> # <<>> /\ <<m>>[1] = m
BY ShortLists, EmptySeq DEF Says

\* What Reaction sends is such an answer.
LEMMA ReactionAnswers ==
  ASSUME TypeOK, NEW r \in Outstanding
  PROVE  Answered(r, Reaction(r))
<1>1. PICK a, e, b : a = Response(r) /\ e = Event("initialized")
                      /\ b = Response([name |-> asked[owed], seq |-> owed])
  OBVIOUS
<1>2. announces \in {"before", "after", "launch"}
  BY DEF TypeOK
<1>3. PICK S : S = {a, e, b}
  OBVIOUS
<1>4. /\ <<>> \in Seq(S) /\ <<a>> \in Seq(S) /\ <<e>> \in Seq(S) /\ <<b>> \in Seq(S)
      /\ Says(<<a>>, a) /\ Says(<<e>>, e) /\ <<a>> # <<>> /\ <<a>>[1] = a
  BY <1>3, SaysOne
<1>5. CASE r.name = "initialize"
  <2>1. PICK s : s = IF announces = "before" THEN <<e>> ELSE <<>>
    OBVIOUS
  <2>2. PICK t : t = IF announces = "after" THEN <<e>> ELSE <<>>
    OBVIOUS
  <2>3. Reaction(r) = (s \o <<a>>) \o t
    BY <1>1, <1>5, <2>1, <2>2 DEF Reaction
  <2>4. s \in Seq(S) /\ t \in Seq(S)
    BY <1>4, <2>1, <2>2
  <2>5. PICK u : u = s \o <<a>>
    OBVIOUS
  <2>6. /\ u \in Seq(S) /\ Says(u, a) /\ (announces = "before" => Says(u, e))
        /\ announces # "before" => u # <<>> /\ u[1] = a
    <3>1. u \in Seq(S) /\ Says(u, a) /\ (announces = "before" => Says(u, e))
      BY <1>4, <2>1, <2>4, <2>5, SaysConcat, ConcatProperties
    <3>2. announces # "before" => u = <<a>>
      BY <1>4, <2>1, <2>5, ConcatEmptySeq
    <3>3. QED
      BY <1>4, <3>1, <3>2
  <2>7. /\ Says(u \o t, a) /\ (announces = "before" => Says(u \o t, e))
        /\ announces = "after" => Says(u \o t, e)
        /\ announces # "before" => u \o t # <<>> /\ (u \o t)[1] = a
    BY <1>4, <2>2, <2>4, <2>6, SaysConcat
  <2>8. Reaction(r) = u \o t
    BY <2>3, <2>5
  <2>9. QED
    BY <1>1, <1>2, <1>5, <2>7, <2>8 DEF Answered, Announced
<1>6. CASE r.name \in {"launch", "attach"}
  <2>1. PICK s : s = IF deferred THEN <<>> ELSE <<a>>
    OBVIOUS
  <2>2. PICK t : t = IF announces = "launch" /\ flaw # "refused" THEN <<e>> ELSE <<>>
    OBVIOUS
  <2>3. Reaction(r) = s \o t
    BY <1>1, <1>6, <2>1, <2>2 DEF Reaction
  <2>4. s \in Seq(S) /\ t \in Seq(S)
    BY <1>4, <2>1, <2>2
  <2>5. (~deferred => Says(s \o t, a)) /\ (announces = "launch" /\ flaw # "refused" => Says(s \o t, e))
    BY <1>4, <2>1, <2>2, <2>4, SaysConcat
  <2>6. QED
    BY <1>1, <1>6, <2>3, <2>5 DEF Answered, Announced
<1>7. CASE r.name = "configurationDone"
  <2>1. PICK t : t = IF owed # 0 THEN <<b>> ELSE <<>>
    OBVIOUS
  <2>2. Reaction(r) = <<a>> \o t
    BY <1>1, <1>7, <2>1 DEF Reaction
  <2>3. t \in Seq(S)
    BY <1>4, <2>1
  <2>4. Says(<<a>> \o t, a)
    BY <1>4, <2>3, SaysConcat
  <2>5. QED
    BY <1>1, <1>7, <2>2, <2>4 DEF Answered, Announced
<1>8. CASE r.name \notin {"initialize", "launch", "attach", "configurationDone"}
  <2>1. Reaction(r) = <<a>>
    BY <1>1, <1>8 DEF Reaction
  <2>2. QED
    BY <1>1, <1>4, <1>8, <2>1 DEF Answered, Announced
<1>9. QED
  BY <1>5, <1>6, <1>7, <1>8

\* The adapter takes a request and answers it.
LEMMA AdapterSpeaks ==
  ASSUME TypeOK, SessionInv, AdapterTakes
  PROVE  /\ Head(requests) \in Outstanding /\ requests \in Seq(Outstanding)
         /\ \E messages : Speaks(messages) /\ Answered(Head(requests), messages)
<1>1. /\ open \in BOOLEAN /\ owed \in 0..Len(asked) /\ stops \in 0..MaxStops /\ MaxStops \in Nat
      /\ debuggee \in {"none", "running", "stopped", "exited"} /\ asked \in Seq(Commands)
      /\ requests \in Seq(Outstanding) /\ Len(asked) \in Nat
  BY LenProperties, ClientAssumption DEF TypeOK, SessionInv
<1>2. PICK r : r = Head(requests)
  OBVIOUS
<1>3. requests # <<>> /\ r \in Outstanding /\ Tail(requests) \in Seq(Outstanding)
  BY <1>1, <1>2, HeadTailProperties DEF AdapterTakes
<1>4. PICK note \in {<<>>, <<Event("continued")>>} :
        /\ note # <<>> => Resumes(r) /\ debuggee = "stopped"
        /\ Emit(Reaction(r) \o note)
  BY <1>2 DEF AdapterTakes
<1>5. note \in Seq(Answers) /\ Len(note) \in 0..1 /\ (note = <<>> => Len(note) = 0)
  <2>1. PICK m : m = Event("continued")
    OBVIOUS
  <2>2. m \in Answers
    BY <2>1, EventIsAnswer DEF EventNames
  <2>3. /\ <<m>> \in Seq(Answers) /\ Len(<<m>>) = 1
        /\ <<>> \in Seq(Answers) /\ Len(<<>>) = 0
    BY <2>2, ShortSpeech
  <2>4. note = <<>> \/ note = <<m>>
    BY <2>1
  <2>5. CASE note = <<>>
    BY <2>3, <2>5
  <2>6. CASE note = <<m>>
    <3>1. note \in Seq(Answers) /\ Len(note) = 1
      BY <2>3, <2>6
    <3>2. note # <<>>
      BY <3>1, EmptySeq
    <3>3. Len(note) \in 0..1
      BY <3>1
    <3>4. QED
      BY <3>1, <3>2, <3>3
  <2>7. QED
    BY <2>4, <2>5, <2>6
<1>6. note # <<>> => r.name \in {"continue", "next"}
  BY <1>4 DEF Resumes
<1>7. /\ Reaction(r) \in Seq(Answers) /\ Len(Reaction(r)) \in 0..2
      /\ r.name \in {"continue", "next"} => Len(Reaction(r)) = 1
  BY <1>3, ReactionLemma
<1>8. Reaction(r) \o note \in Seq(Answers) /\ Len(Reaction(r) \o note) \in 0..3
  <2>1. Len(Reaction(r)) + Len(note) \in 0..3
    <3>1. PICK k, l : k = Len(Reaction(r)) /\ l = Len(note)
      OBVIOUS
    <3>2. k \in 0..2 /\ l \in 0..1 /\ (l # 0 => k = 1)
      BY <1>5, <1>6, <1>7, <3>1
    <3>3. k + l \in 0..3
      BY <3>2
    <3>4. QED
      BY <3>1, <3>3
  <2>2. QED
    BY <1>5, <1>7, <2>1, SpeechConcat
<1>9. r.seq \in 0..Len(asked)
  BY <1>3 DEF Outstanding
<1>10. /\ owed' \in {r.seq, 0, owed} /\ debuggee' \in {"running", debuggee} /\ open' \in BOOLEAN
       /\ requests' = Tail(requests) /\ UNCHANGED <<kind, stops, client>>
  BY <1>2 DEF AdapterTakes
<1>11. Speaks(Reaction(r) \o note)
  BY <1>1, <1>3, <1>4, <1>8, <1>9, <1>10 DEF Speaks
<1>12. Answered(r, Reaction(r) \o note)
  <2>1. PICK s : s = Reaction(r)
    OBVIOUS
  <2>2. Answered(r, s) /\ s \in Seq(Answers)
    BY <1>3, <1>7, <2>1, ReactionAnswers
  <2>3. Answered(r, s \o note)
    BY <1>5, <2>2, SaysConcat DEF Answered
  <2>4. QED
    BY <2>1, <2>3
<1>13. QED
  BY <1>1, <1>2, <1>3, <1>11, <1>12

\* Every step of the session but its end speaks.
LEMMA SessionSpeaks ==
  ASSUME TypeOK, SessionInv, SessionStep, ~SessionCloses
  PROVE  \E messages : Speaks(messages)
<1>1. /\ open \in BOOLEAN /\ owed \in 0..Len(asked) /\ stops \in 0..MaxStops /\ MaxStops \in Nat
      /\ debuggee \in {"none", "running", "stopped", "exited"} /\ asked \in Seq(Commands)
      /\ requests \in Seq(Outstanding) /\ Len(asked) \in Nat
  BY LenProperties, ClientAssumption DEF TypeOK, SessionInv
<1>2. ASSUME NEW e \in {"stopped", "continued", "exited"}, NEW s \in {<<>>, <<Event(e)>>}
      PROVE  s \in Seq(Answers) /\ Len(s) \in 0..1 /\ (s # <<>> => Len(s) = 1)
  <2>1. PICK m : m = Event(e)
    OBVIOUS
  <2>2. m \in Answers
    BY <2>1, EventIsAnswer DEF EventNames
  <2>3. /\ <<m>> \in Seq(Answers) /\ Len(<<m>>) = 1
        /\ <<>> \in Seq(Answers) /\ Len(<<>>) = 0
    BY <2>2, ShortSpeech
  <2>4. CASE s = <<>>
    BY <2>3, <2>4
  <2>5. CASE s # <<>>
    <3>1. s = <<m>>
      BY <2>1, <2>5
    <3>2. s \in Seq(Answers) /\ Len(s) = 1
      BY <2>3, <3>1
    <3>3. QED
      BY <3>2
  <2>6. QED
    BY <2>4, <2>5
<1>3. ASSUME Replay PROVE \E messages : Speaks(messages)
  <2>1. PICK stop \in {<<>>, <<Event("stopped")>>} :
          Emit(<<Response([name |-> "initialize", seq |-> 0]), Event("initialized")>> \o stop)
    BY <1>3 DEF Replay
  <2>2. PICK a, e : a = Response([name |-> "initialize", seq |-> 0]) /\ e = Event("initialized")
    OBVIOUS
  <2>3. a \in Answers /\ e \in Answers
    <3>1. a = [kind |-> "response", name |-> "initialize", seq |-> 0] /\ "initialize" \in Commands
      BY <2>2, HandshakeNames DEF Response
    <3>2. a \in Messages
      BY <3>1 DEF Messages
    <3>3. QED
      BY <2>2, <3>1, <3>2, EventIsAnswer DEF Answers, EventNames
  <2>4. <<a, e>> \in Seq(Answers) /\ Len(<<a, e>>) = 2
    BY <2>3, ShortSpeech
  <2>5. stop \in Seq(Answers) /\ Len(stop) \in 0..1
    BY <1>2
  <2>6. <<a, e>> \o stop \in Seq(Answers) /\ Len(<<a, e>> \o stop) \in 0..3
    <3>1. /\ <<a, e>> \o stop \in Seq(Answers)
          /\ Len(<<a, e>> \o stop) = Len(<<a, e>>) + Len(stop)
      BY <2>4, <2>5, SpeechConcat
    <3>2. PICK l : l = Len(stop)
      OBVIOUS
    <3>3. l \in 0..1 /\ Len(<<a, e>> \o stop) = 2 + l
      BY <2>4, <2>5, <3>1, <3>2
    <3>4. QED
      BY <3>1, <3>3
  <2>7. Speaks(<<a, e>> \o stop)
    BY <1>1, <1>3, <2>1, <2>2, <2>6 DEF Speaks, Replay
  <2>8. QED
    BY <2>7
<1>4. ASSUME AdapterTakes PROVE \E messages : Speaks(messages)
  BY <1>4, AdapterSpeaks
<1>5. ASSUME DebuggeeStops PROVE \E messages : Speaks(messages)
  <2>1. stops + 1 \in 0..MaxStops
    BY <1>1, <1>5 DEF DebuggeeStops
  <2>2. Speaks(<<Event("stopped")>>)
    BY <1>1, <1>2, <1>5, <2>1 DEF Speaks, DebuggeeStops
  <2>3. QED
    BY <2>2
<1>6. ASSUME DebuggeeExits PROVE \E messages : Speaks(messages)
  <2>1. Speaks(<<Event("exited")>>)
    BY <1>1, <1>2, <1>6 DEF Speaks, DebuggeeExits
  <2>2. QED
    BY <2>1
<1>7. ASSUME EditorResumes PROVE \E messages : Speaks(messages)
  <2>1. Speaks(<<Event("continued")>>)
    BY <1>1, <1>2, <1>7 DEF Speaks, EditorResumes
  <2>2. QED
    BY <2>1
<1>8. QED
  BY <1>3, <1>4, <1>5, <1>6, <1>7 DEF SessionStep

-----------------------------------------------------------------------------
(* The buffers *)

Sorted(s) == \A i, j \in 1..Len(s) : i < j => s[i] < s[j]

\* Every number of M is below every number of N.
Below(M, N) == \A m \in M, n \in N : m < n

\* What a drain has read is older than what the client keeps, and that than what is on the
\* wire.
Ordered ==
  /\ Sorted(batch) /\ Sorted(pending) /\ Sorted(wire)
  /\ Below(ToSet(batch), ToSet(pending)) /\ Below(ToSet(batch), ToSet(wire))
  /\ Below(ToSet(pending), ToSet(wire))

LEMMA ElementsLemma ==
  ASSUME NEW s \in Seq(Nat)
  PROVE  /\ Len(s) \in Nat /\ \A i \in 1..Len(s) : s[i] \in Nat /\ s[i] \in ToSet(s)
         /\ \A n \in ToSet(s) : n \in Nat /\ \E i \in 1..Len(s) : n = s[i]
         /\ (s = <<>> => ToSet(s) = {}) /\ (s # <<>> => 1 \in 1..Len(s))
<1>1. Len(s) \in Nat /\ DOMAIN s = 1..Len(s) /\ \A i \in 1..Len(s) : s[i] \in Nat
  BY LenProperties, ElementOfSeq
<1>2. s = <<>> => ToSet(s) = {}
  BY DEF ToSet
<1>3. s # <<>> => Len(s) # 0
  BY EmptySeq
<1>4. QED
  BY <1>1, <1>2, <1>3 DEF ToSet

\* The numbers of a sequence and those of another that come after them.
LEMMA NumbersConcat ==
  ASSUME NEW s \in Seq(Nat), NEW t \in Seq(Nat)
  PROVE  /\ s \o t \in Seq(Nat) /\ ToSet(s \o t) = ToSet(s) \cup ToSet(t)
         /\ Sorted(s) /\ Sorted(t) /\ Below(ToSet(s), ToSet(t)) => Sorted(s \o t)
<1>1. PICK u : u = s \o t
  OBVIOUS
<1>2. PICK k, l : k = Len(s) /\ l = Len(t)
  OBVIOUS
<1>3. k \in Nat /\ l \in Nat
  BY <1>2, LenProperties
<1>4. /\ u \in Seq(Nat) /\ Len(u) = k + l
      /\ \A i \in 1..(k + l) : u[i] = IF i <= k THEN s[i] ELSE t[i - k]
  BY <1>1, <1>2, ConcatProperties
<1>5. \A i \in 1..k : i \in 1..Len(u) /\ u[i] = s[i]
  BY <1>3, <1>4
<1>6. \A i \in 1..l : k + i \in 1..Len(u) /\ u[k + i] = t[i]
  <2>1. TAKE i \in 1..l
  <2>2. k + i \in 1..(k + l) /\ ~(k + i <= k) /\ (k + i) - k = i
    BY <1>3
  <2>3. QED
    BY <1>4, <2>2
<1>7. \A i \in 1..Len(u) : \/ i \in 1..k /\ u[i] = s[i]
                           \/ i > k /\ i - k \in 1..l /\ u[i] = t[i - k]
  BY <1>3, <1>4
<1>8. ToSet(u) = ToSet(s) \cup ToSet(t)
  <2>1. \A n \in ToSet(u) : n \in ToSet(s) \cup ToSet(t)
    <3>1. TAKE n \in ToSet(u)
    <3>2. PICK i \in 1..Len(u) : n = u[i]
      BY <1>4, ElementsLemma
    <3>3. QED
      BY <1>2, <1>7, <3>2, ElementsLemma
  <2>2. \A n \in ToSet(s) : n \in ToSet(u)
    <3>1. TAKE n \in ToSet(s)
    <3>2. PICK i \in 1..k : n = s[i]
      BY <1>2, ElementsLemma
    <3>3. i \in 1..Len(u) /\ u[i] = n
      BY <1>5, <3>2
    <3>4. QED
      BY <1>4, <3>3, ElementsLemma
  <2>3. \A n \in ToSet(t) : n \in ToSet(u)
    <3>1. TAKE n \in ToSet(t)
    <3>2. PICK i \in 1..l : n = t[i]
      BY <1>2, ElementsLemma
    <3>3. k + i \in 1..Len(u) /\ u[k + i] = n
      BY <1>6, <3>2
    <3>4. QED
      BY <1>4, <3>3, ElementsLemma
  <2>4. QED
    BY <2>1, <2>2, <2>3
<1>9. ASSUME Sorted(s), Sorted(t), Below(ToSet(s), ToSet(t)) PROVE Sorted(u)
  <2>1. SUFFICES ASSUME NEW i \in 1..Len(u), NEW j \in 1..Len(u), i < j
        PROVE  u[i] < u[j]
    BY DEF Sorted
  <2>2. CASE i \in 1..k /\ j \in 1..k
    BY <1>2, <1>5, <1>9, <2>1, <2>2 DEF Sorted
  <2>3. CASE i \in 1..k /\ j > k
    <3>1. u[i] = s[i] /\ j - k \in 1..l /\ u[j] = t[j - k]
      BY <1>3, <1>7, <2>3
    <3>2. s[i] \in ToSet(s) /\ t[j - k] \in ToSet(t)
      BY <1>2, <2>3, <3>1, ElementsLemma
    <3>3. QED
      BY <1>9, <3>1, <3>2 DEF Below
  <2>4. CASE i > k /\ j > k
    <3>1. i - k \in 1..l /\ u[i] = t[i - k] /\ j - k \in 1..l /\ u[j] = t[j - k]
      BY <1>3, <1>7, <2>4, SMTT(40)
    <3>2. i \in Nat /\ j \in Nat
      BY <1>3, <1>4
    <3>3. i - k < j - k
      BY <1>3, <2>1, <3>2
    <3>4. QED
      BY <1>2, <1>9, <3>1, <3>3 DEF Sorted
  <2>5. QED
    BY <1>3, <1>4, <2>1, <2>2, <2>3, <2>4
<1>10. QED
  BY <1>1, <1>4, <1>8, <1>9

\* What a sequence keeps without its first number, and with one more.
LEMMA NumbersTail ==
  ASSUME NEW s \in Seq(Nat), s # <<>>
  PROVE  /\ Head(s) \in Nat /\ Tail(s) \in Seq(Nat)
         /\ ToSet(s) = {Head(s)} \cup ToSet(Tail(s))
         /\ Sorted(s) => Sorted(Tail(s)) /\ Below({Head(s)}, ToSet(Tail(s)))
<1>1. PICK t : t = Tail(s)
  OBVIOUS
<1>2. PICK k : k = Len(s)
  OBVIOUS
<1>3. /\ k \in Nat \ {0} /\ Head(s) = s[1] /\ t \in Seq(Nat) /\ Len(t) = k - 1
      /\ \A i \in 1..(k - 1) : t[i] = s[i+1]
  BY <1>1, <1>2, HeadTailProperties, LenProperties, EmptySeq
<1>4. \A i \in 1..(k - 1) : i + 1 \in 1..k
  BY <1>3
<1>5. \A i \in 1..k : i = 1 \/ (i - 1 \in 1..(k - 1) /\ t[i-1] = s[i])
  BY <1>3
<1>6. ToSet(s) = {Head(s)} \cup ToSet(t)
  <2>1. \A n \in ToSet(s) : n = s[1] \/ n \in ToSet(t)
    <3>1. TAKE n \in ToSet(s)
    <3>2. PICK i \in 1..Len(s) : n = s[i]
      BY ElementsLemma
    <3>3. QED
      BY <1>2, <1>3, <1>5, <3>2, ElementsLemma
  <2>2. s[1] \in ToSet(s)
    BY ElementsLemma
  <2>3. \A n \in ToSet(t) : n \in ToSet(s)
    <3>1. TAKE n \in ToSet(t)
    <3>2. PICK i \in 1..Len(t) : n = t[i]
      BY <1>3, ElementsLemma
    <3>3. QED
      BY <1>2, <1>3, <1>4, <3>2, ElementsLemma
  <2>4. QED
    BY <1>3, <2>1, <2>2, <2>3
<1>7. ASSUME Sorted(s) PROVE Sorted(t) /\ Below({Head(s)}, ToSet(t))
  <2>1. \A i, j \in 1..(k - 1) : i < j => s[i+1] < s[j+1]
    <3>1. TAKE i, j \in 1..(k - 1)
    <3>2. HAVE i < j
    <3>3. i + 1 \in 1..k /\ j + 1 \in 1..k /\ i + 1 < j + 1
      BY <1>3, <3>2
    <3>4. QED
      BY <1>2, <1>7, <3>3 DEF Sorted
  <2>2. \A i \in 1..(k - 1) : s[1] < s[i+1]
    <3>1. TAKE i \in 1..(k - 1)
    <3>2. 1 \in 1..k /\ i + 1 \in 1..k /\ 1 < i + 1
      BY <1>3
    <3>3. QED
      BY <1>2, <1>7, <3>2 DEF Sorted
  <2>3. Sorted(t)
    <3>1. Len(t) = k - 1 /\ \A i, j \in 1..(k - 1) : i < j => t[i] < t[j]
      BY <1>3, <2>1
    <3>2. QED
      BY <3>1, Zenon DEF Sorted
  <2>4. Below({Head(s)}, ToSet(t))
    <3>1. \A n \in ToSet(t) : s[1] < n
      <4>1. TAKE n \in ToSet(t)
      <4>2. PICK i \in 1..Len(t) : n = t[i]
        BY <1>3, ElementsLemma
      <4>3. QED
        BY <1>3, <2>2, <4>2
    <3>2. QED
      BY <1>3, <3>1 DEF Below
  <2>5. QED
    BY <2>3, <2>4
<1>8. QED
  BY <1>1, <1>3, <1>6, <1>7, HeadTailProperties

LEMMA NumbersAppend ==
  ASSUME NEW s \in Seq(Nat), NEW n \in Nat
  PROVE  /\ Append(s, n) \in Seq(Nat) /\ ToSet(Append(s, n)) = ToSet(s) \cup {n}
         /\ Sorted(s) /\ Below(ToSet(s), {n}) => Sorted(Append(s, n))
<1>1. <<n>> \in Seq(Nat) /\ Len(<<n>>) = 1 /\ <<n>>[1] = n
  BY ShortLists
<1>2. ToSet(<<n>>) = {n} /\ Sorted(<<n>>)
  BY <1>1 DEF ToSet, Sorted
<1>3. Append(s, n) = s \o <<n>>
  BY AppendIsConcat
<1>4. QED
  BY <1>1, <1>2, <1>3, NumbersConcat

\* What Vec::remove takes out of the buffer.
LEMMA NumbersRemove ==
  ASSUME NEW s \in Seq(Nat), NEW i \in 1..Len(s)
  PROVE  /\ RemoveAt(s, i) \in Seq(Nat) /\ ToSet(s) = {s[i]} \cup ToSet(RemoveAt(s, i))
         /\ Sorted(s) => Sorted(RemoveAt(s, i)) /\ s[i] \notin ToSet(RemoveAt(s, i))
<1>1. PICK t : t = RemoveAt(s, i)
  OBVIOUS
<1>2. PICK k : k = Len(s)
  OBVIOUS
<1>3. /\ k \in Nat /\ i \in 1..k /\ t \in Seq(Nat) /\ Len(t) = k - 1
      /\ \A j \in 1..(k - 1) : t[j] = IF j < i THEN s[j] ELSE s[j+1]
  BY <1>1, <1>2, RemoveAtLemma, LenProperties
<1> DEFINE at(j) == IF j < i THEN j ELSE j + 1
<1>4. \A j \in 1..(k - 1) : at(j) \in 1..k /\ at(j) # i /\ t[j] = s[at(j)]
  BY <1>3
<1>5. \A j \in 1..k : j # i => \E l \in 1..(k - 1) : at(l) = j
  <2>1. TAKE j \in 1..k
  <2>2. HAVE j # i
  <2>3. CASE j < i
    <3>1. j \in 1..(k - 1) /\ at(j) = j
      BY <1>3, <2>3
    <3>2. QED
      BY <3>1
  <2>4. CASE j > i
    <3>1. j - 1 \in 1..(k - 1) /\ at(j - 1) = j
      BY <1>3, <2>4
    <3>2. QED
      BY <3>1
  <2>5. QED
    BY <1>3, <2>2, <2>3, <2>4
<1>6. \A j, l \in 1..(k - 1) : j < l => at(j) < at(l)
  BY <1>3
<1> HIDE DEF at
<1>7. ToSet(s) = {s[i]} \cup ToSet(t)
  <2>1. \A n \in ToSet(s) : n = s[i] \/ n \in ToSet(t)
    <3>1. TAKE n \in ToSet(s)
    <3>2. PICK j \in 1..Len(s) : n = s[j]
      BY ElementsLemma
    <3>3. CASE j = i
      BY <3>2, <3>3
    <3>4. CASE j # i
      <4>1. PICK l \in 1..(k - 1) : at(l) = j
        BY <1>2, <1>5, <3>4
      <4>2. QED
        BY <1>3, <1>4, <3>2, <4>1, ElementsLemma
    <3>5. QED
      BY <3>3, <3>4
  <2>2. s[i] \in ToSet(s)
    BY ElementsLemma
  <2>3. \A n \in ToSet(t) : n \in ToSet(s)
    <3>1. TAKE n \in ToSet(t)
    <3>2. PICK j \in 1..Len(t) : n = t[j]
      BY <1>3, ElementsLemma
    <3>3. QED
      BY <1>2, <1>3, <1>4, <3>2, ElementsLemma
  <2>4. QED
    BY <2>1, <2>2, <2>3
<1>8. ASSUME Sorted(s) PROVE Sorted(t) /\ s[i] \notin ToSet(t)
  <2>1. Sorted(t)
    <3>1. SUFFICES ASSUME NEW j \in 1..Len(t), NEW l \in 1..Len(t), j < l
          PROVE  t[j] < t[l]
      BY DEF Sorted
    <3>2. /\ at(j) \in 1..Len(s) /\ at(l) \in 1..Len(s) /\ at(j) < at(l)
          /\ t[j] = s[at(j)] /\ t[l] = s[at(l)]
      BY <1>2, <1>3, <1>4, <1>6, <3>1
    <3>3. QED
      BY <1>8, <3>2 DEF Sorted
  <2>2. ASSUME NEW n \in ToSet(t) PROVE n # s[i]
    <3>1. PICK j \in 1..Len(t) : n = t[j]
      BY <1>3, ElementsLemma
    <3>2. PICK q : q = at(j)
      OBVIOUS
    <3>3. q \in 1..Len(s) /\ q # i /\ n = s[q]
      BY <1>2, <1>3, <1>4, <3>1, <3>2
    <3>4. s[q] \in Nat /\ s[i] \in Nat
      BY <3>3, ElementsLemma
    <3>5. q < i \/ i < q
      BY <1>3, <3>3
    <3>6. s[q] < s[i] \/ s[i] < s[q]
      BY <1>8, <3>3, <3>5 DEF Sorted
    <3>7. QED
      BY <3>3, <3>4, <3>6
  <2>3. QED
    BY <2>1, <2>2
<1>9. QED
  BY <1>1, <1>3, <1>7, <1>8

\* The numbers of the messages sent next.
LEMMA NumbersNext ==
  ASSUME NEW k \in Nat, NEW l \in Nat
  PROVE  /\ [i \in 1..k |-> l + i] \in Seq(Nat) /\ Sorted([i \in 1..k |-> l + i])
         /\ ToSet([i \in 1..k |-> l + i]) = (l + 1)..(l + k)
<1>1. PICK t : t = [i \in 1..k |-> l + i]
  OBVIOUS
<1>2. t \in Seq(Nat) /\ Len(t) = k /\ \A i \in 1..k : t[i] = l + i
  BY <1>1, IsASeq
<1>3. Sorted(t)
  BY <1>2 DEF Sorted
<1>4. ToSet(t) = (l + 1)..(l + k)
  <2>1. \A n \in ToSet(t) : n \in (l + 1)..(l + k)
    <3>1. TAKE n \in ToSet(t)
    <3>2. PICK i \in 1..Len(t) : n = t[i]
      BY <1>2, ElementsLemma
    <3>3. QED
      BY <1>2, <3>2
  <2>2. \A n \in (l + 1)..(l + k) : n \in ToSet(t)
    <3>1. TAKE n \in (l + 1)..(l + k)
    <3>2. n - l \in 1..k /\ l + (n - l) = n
      OBVIOUS
    <3>3. n - l \in 1..Len(t) /\ t[n - l] = n
      BY <1>2, <3>2
    <3>4. QED
      BY <1>2, <3>3, ElementsLemma
  <2>3. QED
    BY <2>1, <2>2
<1>5. QED
  BY <1>1, <1>2, <1>3, <1>4

\* The queue of three sequences, one after the other.
LEMMA QueueLemma ==
  ASSUME NEW N \in SUBSET Nat, NEW b \in Seq(N), NEW p \in Seq(N), NEW w \in Seq(N)
  PROVE  /\ b \in Seq(Nat) /\ p \in Seq(Nat) /\ w \in Seq(Nat)
         /\ ToSet(b) \subseteq N /\ ToSet(p) \subseteq N /\ ToSet(w) \subseteq N
         /\ ToSet(b \o p \o w) = ToSet(b) \cup ToSet(p) \cup ToSet(w)
         /\ (/\ Sorted(b) /\ Sorted(p) /\ Sorted(w)
             /\ Below(ToSet(b), ToSet(p)) /\ Below(ToSet(b), ToSet(w)) /\ Below(ToSet(p), ToSet(w)))
            => Sorted(b \o p \o w)
<1>1. ASSUME NEW s \in Seq(N) PROVE s \in Seq(Nat) /\ ToSet(s) \subseteq N
  <2>1. s \in Seq(Nat)
    BY SeqWiden
  <2>2. ASSUME NEW n \in ToSet(s) PROVE n \in N
    <3>1. PICK i \in 1..Len(s) : n = s[i]
      BY <2>1, ElementsLemma
    <3>2. QED
      BY <3>1, ElementOfSeq
  <2>3. QED
    BY <2>1, <2>2
<1>2. b \in Seq(Nat) /\ p \in Seq(Nat) /\ w \in Seq(Nat)
  BY <1>1
<1>3. PICK q : q = b \o p
  OBVIOUS
<1>4. /\ q \in Seq(Nat) /\ ToSet(q) = ToSet(b) \cup ToSet(p)
      /\ Sorted(b) /\ Sorted(p) /\ Below(ToSet(b), ToSet(p)) => Sorted(q)
  BY <1>2, <1>3, NumbersConcat
<1>5. /\ ToSet(q \o w) = ToSet(q) \cup ToSet(w)
      /\ Sorted(q) /\ Sorted(w) /\ Below(ToSet(q), ToSet(w)) => Sorted(q \o w)
  BY <1>2, <1>4, NumbersConcat
<1>6. Below(ToSet(b), ToSet(w)) /\ Below(ToSet(p), ToSet(w)) => Below(ToSet(q), ToSet(w))
  BY <1>4 DEF Below
<1>7. QED
  BY <1>1, <1>2, <1>3, <1>4, <1>5, <1>6

\* What the client has not given away.
Held == ToSet(batch) \cup ToSet(pending) \cup ToSet(wire)

LEMMA HeldLemma ==
  ASSUME TypeOK
  PROVE  /\ Unread = Held /\ Held \subseteq Numbers /\ Len(log) \in Nat /\ Numbers \subseteq Nat
         /\ batch \in Seq(Nat) /\ pending \in Seq(Nat) /\ wire \in Seq(Nat)
<1>1. Len(log) \in Nat /\ Numbers \subseteq Nat
  BY LenProperties DEF TypeOK, Numbers
<1>2. batch \in Seq(Numbers) /\ pending \in Seq(Numbers) /\ wire \in Seq(Numbers)
  BY DEF TypeOK
<1>3. QED
  BY <1>1, <1>2, QueueLemma DEF Unread, Held

\* What the steps of the client have in common: the messages in given are given to the
\* caller, those in dropped are swept, and the rest waits in the order it had.
Moves(gives, drops) ==
  /\ UNCHANGED log
  /\ batch' \in Seq(Numbers) /\ pending' \in Seq(Numbers) /\ wire' \in Seq(Numbers)
  /\ Ordered'
  /\ given' = given \cup gives /\ swept' = swept \cup drops
  /\ gives \cap drops = {}
  /\ Held = gives \cup drops \cup Held' /\ Held' \cap (gives \cup drops) = {}

LEMMA StaysMoves ==
  ASSUME TypeOK, Ordered, UNCHANGED <<log, batch, pending, wire, given, swept>>
  PROVE  Moves({}, {})
BY DEF Moves, TypeOK, Ordered, Held

LEMMA BufferedLemma ==
  ASSUME TypeOK, Waiting, Buffered # {}
  PROVE  /\ Min(Buffered) \in 1..Len(pending) /\ Wanted(log[pending[Min(Buffered)]])
         /\ pending[Min(Buffered)] \in Numbers
<1>1. DOMAIN pending = 1..Len(pending) /\ Len(pending) \in Nat
  BY LenProperties DEF TypeOK
<1>2. Buffered \in SUBSET Nat /\ Buffered \subseteq 1..Len(pending)
  BY <1>1 DEF Buffered
<1>3. Min(Buffered) \in Buffered
  BY <1>2, MinLemma
<1>4. Wanted(log[pending[Min(Buffered)]])
  BY <1>3 DEF Buffered
<1>5. QED
  BY <1>2, <1>3, <1>4, ElementOfSeq DEF TypeOK

LEMMA TakeBufferedMoves ==
  ASSUME TypeOK, Ordered, TakeBuffered
  PROVE  Moves({pending[Min(Buffered)]}, {})
<1>1. PICK i : i = Min(Buffered)
  OBVIOUS
<1>2. PICK p : p = RemoveAt(pending, i)
  OBVIOUS
<1>3. PICK n : n = pending[i]
  OBVIOUS
<1>4. i \in 1..Len(pending) /\ pending \in Seq(Numbers) /\ pending \in Seq(Nat)
  BY <1>1, BufferedLemma, HeldLemma DEF TakeBuffered, TypeOK
<1>5. /\ p \in Seq(Numbers) /\ ToSet(pending) = {n} \cup ToSet(p) /\ Sorted(p)
      /\ n \notin ToSet(p)
  BY <1>2, <1>3, <1>4, RemoveAtLemma, NumbersRemove DEF Ordered
<1>6. /\ pending' = p /\ UNCHANGED <<log, wire, batch, swept>> /\ given' = given \cup {n}
  BY <1>1, <1>2, <1>3 DEF TakeBuffered, Give, session
<1>7. n \in Nat /\ n \notin ToSet(batch) /\ n \notin ToSet(wire)
  <2>1. n \in Nat /\ n \in ToSet(pending)
    BY <1>3, <1>4, ElementsLemma
  <2>2. QED
    BY <2>1 DEF Ordered, Below
<1>8. Held = {n} \cup Held' /\ n \notin Held'
  BY <1>5, <1>6, <1>7 DEF Held
<1>9. Ordered'
  BY <1>5, <1>6 DEF Ordered, Below
<1>10. QED
  BY <1>1, <1>3, <1>5, <1>6, <1>8, <1>9 DEF Moves, TypeOK

\* The first message on the wire goes to the caller, to the buffer, or is dropped.
LEMMA ReadWireMoves ==
  ASSUME TypeOK, Ordered, ReadWire
  PROVE  /\ Head(wire) \in Numbers
         /\ \/ Wanted(log[Head(wire)]) /\ Give(Head(wire)) /\ Moves({Head(wire)}, {})
            \/ UNCHANGED <<given, steps, outcome, capabilities>> /\ Moves({}, {Head(wire)})
            \/ UNCHANGED <<given, steps, outcome, capabilities>> /\ Moves({}, {})
<1>1. PICK n, w : n = Head(wire) /\ w = Tail(wire)
  OBVIOUS
<1>2. wire # <<>> /\ wire \in Seq(Numbers) /\ wire \in Seq(Nat) /\ pending \in Seq(Numbers) /\ pending \in Seq(Nat)
  BY HeldLemma DEF ReadWire, TypeOK
<1>3. /\ n \in Numbers /\ w \in Seq(Numbers) /\ n \in Nat /\ w \in Seq(Nat)
      /\ ToSet(wire) = {n} \cup ToSet(w) /\ Sorted(w) /\ Below({n}, ToSet(w))
  BY <1>1, <1>2, HeadTailProperties, NumbersTail DEF Ordered
<1>4. n \notin ToSet(w) /\ n \notin ToSet(batch) /\ n \notin ToSet(pending)
  BY <1>3 DEF Ordered, Below
<1>5. wire' = w /\ UNCHANGED <<log, batch>>
  BY <1>1 DEF ReadWire
<1>6. CASE Wanted(log[n]) /\ Give(n) /\ UNCHANGED <<pending, swept>>
  <2>1. given' = given \cup {n} /\ UNCHANGED <<pending, swept>>
    BY <1>6 DEF Give
  <2>2. Held = {n} \cup Held' /\ n \notin Held'
    BY <1>3, <1>4, <1>5, <2>1 DEF Held
  <2>3. Ordered'
    BY <1>3, <1>5, <2>1 DEF Ordered, Below
  <2>4. Moves({n}, {})
    BY <1>3, <1>5, <2>1, <2>2, <2>3 DEF Moves, TypeOK
  <2>5. QED
    BY <1>1, <1>3, <1>6, <2>4
<1>7. CASE PassOver(n) /\ swept' = swept \cup {n} /\ UNCHANGED pending
  <2>1. UNCHANGED <<given, steps, outcome, capabilities>>
    BY <1>7 DEF PassOver
  <2>2. Held = {n} \cup Held' /\ n \notin Held'
    BY <1>3, <1>4, <1>5, <1>7 DEF Held
  <2>3. Ordered'
    BY <1>3, <1>5, <1>7 DEF Ordered, Below
  <2>4. Moves({}, {n})
    BY <1>3, <1>5, <1>7, <2>1, <2>2, <2>3 DEF Moves, TypeOK
  <2>5. QED
    BY <1>1, <1>3, <2>1, <2>4
<1>8. CASE PassOver(n) /\ pending' = Append(pending, n) /\ UNCHANGED swept
  <2>1. UNCHANGED <<given, steps, outcome, capabilities>>
    BY <1>8 DEF PassOver
  <2>2. Below(ToSet(pending), {n})
    BY <1>3 DEF Ordered, Below
  <2>3. PICK p : p = Append(pending, n)
    OBVIOUS
  <2>4. p \in Seq(Numbers) /\ ToSet(p) = ToSet(pending) \cup {n} /\ Sorted(p)
    BY <1>2, <1>3, <2>2, <2>3, AppendProperties, NumbersAppend DEF Ordered
  <2>5. pending' = p
    BY <1>8, <2>3
  <2>6. Held' = Held
    BY <1>3, <1>5, <2>4, <2>5 DEF Held
  <2>7. Ordered'
    BY <1>3, <1>5, <2>4, <2>5 DEF Ordered, Below
  <2>8. Moves({}, {})
    BY <1>3, <1>5, <1>8, <2>1, <2>4, <2>5, <2>6, <2>7 DEF Moves, TypeOK
  <2>9. QED
    BY <1>1, <1>3, <2>1, <2>8
<1>9. QED
  BY <1>1, <1>6, <1>7, <1>8 DEF ReadWire, PassOver

LEMMA DrainReadsMoves ==
  ASSUME TypeOK, Ordered, DrainReads
  PROVE  Moves({}, {})
<1>1. /\ batch \in Seq(Numbers) /\ pending \in Seq(Numbers) /\ wire \in Seq(Numbers)
      /\ batch \in Seq(Nat) /\ pending \in Seq(Nat) /\ wire \in Seq(Nat)
  BY HeldLemma DEF TypeOK
<1>2. UNCHANGED <<log, given, swept>>
  BY DEF DrainReads
<1>3. CASE pending # <<>> /\ batch' = Append(batch, Head(pending)) /\ pending' = Tail(pending) /\ UNCHANGED wire
  <2>1. PICK n, p, b : n = Head(pending) /\ p = Tail(pending) /\ b = Append(batch, n)
    OBVIOUS
  <2>2. /\ n \in Numbers /\ p \in Seq(Numbers) /\ n \in Nat
        /\ ToSet(pending) = {n} \cup ToSet(p) /\ Sorted(p) /\ Below({n}, ToSet(p))
    BY <1>1, <1>3, <2>1, HeadTailProperties, NumbersTail DEF Ordered
  <2>3. Below(ToSet(batch), {n})
    BY <2>2 DEF Ordered, Below
  <2>4. b \in Seq(Numbers) /\ ToSet(b) = ToSet(batch) \cup {n} /\ Sorted(b)
    BY <1>1, <2>1, <2>2, <2>3, AppendProperties, NumbersAppend DEF Ordered
  <2>5. batch' = b /\ pending' = p /\ UNCHANGED wire
    BY <1>3, <2>1
  <2>6. Held' = Held
    BY <2>2, <2>4, <2>5 DEF Held
  <2>7. Ordered'
    BY <2>2, <2>4, <2>5 DEF Ordered, Below
  <2>8. QED
    BY <1>1, <1>2, <2>2, <2>4, <2>5, <2>6, <2>7 DEF Moves
<1>4. CASE pending = <<>> /\ wire # <<>> /\ batch' = Append(batch, Head(wire)) /\ wire' = Tail(wire)
             /\ UNCHANGED pending
  <2>1. PICK n, w, b : n = Head(wire) /\ w = Tail(wire) /\ b = Append(batch, n)
    OBVIOUS
  <2>2. /\ n \in Numbers /\ w \in Seq(Numbers) /\ n \in Nat
        /\ ToSet(wire) = {n} \cup ToSet(w) /\ Sorted(w) /\ Below({n}, ToSet(w))
    BY <1>1, <1>4, <2>1, HeadTailProperties, NumbersTail DEF Ordered
  <2>3. Below(ToSet(batch), {n})
    BY <2>2 DEF Ordered, Below
  <2>4. b \in Seq(Numbers) /\ ToSet(b) = ToSet(batch) \cup {n} /\ Sorted(b)
    BY <1>1, <2>1, <2>2, <2>3, AppendProperties, NumbersAppend DEF Ordered
  <2>5. batch' = b /\ wire' = w /\ UNCHANGED pending
    BY <1>4, <2>1
  <2>6. ToSet(pending) = {}
    BY <1>1, <1>4, ElementsLemma
  <2>7. Held' = Held
    BY <2>2, <2>4, <2>5 DEF Held
  <2>8. Ordered'
    BY <2>2, <2>4, <2>5, <2>6 DEF Ordered, Below
  <2>9. QED
    BY <1>1, <1>2, <2>2, <2>4, <2>5, <2>7, <2>8 DEF Moves
<1>5. QED
  BY <1>3, <1>4 DEF DrainReads

\* A drain keeps what it has read or gives all of it to the caller.
LEMMA DrainEndsMoves ==
  ASSUME TypeOK, Ordered, DrainEnds
  PROVE  \E gives : Moves(gives, {})
<1>1. /\ batch \in Seq(Numbers) /\ pending = <<>> /\ wire = <<>>
      /\ batch' = <<>> /\ UNCHANGED <<log, wire, swept>>
  BY DEF DrainEnds, TypeOK, session
<1>2. <<>> \in Seq(Numbers) /\ ToSet(<<>>) = {} /\ Sorted(<<>>)
  <2>1. <<>> \in Seq(Nat) /\ Len(<<>>) = 0 /\ <<>> \in Seq(Numbers)
    BY EmptySeq
  <2>2. QED
    BY <2>1, ElementsLemma DEF Sorted
<1>3. CASE Absorb
  <2>1. pending' = batch /\ given' = given
    BY <1>3 DEF Absorb
  <2>2. Held' = Held
    BY <1>1, <1>2, <2>1 DEF Held
  <2>3. Ordered'
    BY <1>1, <1>2, <2>1 DEF Ordered, Below
  <2>4. Moves({}, {})
    BY <1>1, <1>2, <2>1, <2>2, <2>3 DEF Moves
  <2>5. QED
    BY <2>4
<1>4. CASE given' = given \cup ToSet(batch) /\ UNCHANGED pending
  <2>1. Held = ToSet(batch) /\ Held' = {}
    BY <1>1, <1>2, <1>4 DEF Held
  <2>2. Ordered'
    BY <1>1, <1>2, <1>4 DEF Ordered, Below
  <2>3. Moves(ToSet(batch), {})
    BY <1>1, <1>2, <1>4, <2>1, <2>2 DEF Moves
  <2>4. QED
    BY <2>3
<1>5. QED
  BY <1>3, <1>4 DEF DrainEnds, Probe, DrainReturns

\* Every step of the client, and the start of a call, moves what it has.
LEMMA ClientMoves ==
  ASSUME TypeOK, Ordered, ClientStep \/ Call
  PROVE  \E gives, drops : Moves(gives, drops)
<1>1. CASE Call \/ SendRequest \/ TimeOut \/ ChannelEnds
  <2>1. UNCHANGED <<log, batch, pending, wire, given, swept>>
    BY <1>1 DEF Call, SendRequest, TimeOut, ChannelEnds, Fail, session
  <2>2. QED
    BY <2>1, StaysMoves
<1>2. CASE TakeBuffered
  BY <1>2, TakeBufferedMoves
<1>3. CASE ReadWire
  BY <1>3, ReadWireMoves
<1>4. CASE DrainReads
  BY <1>4, DrainReadsMoves
<1>5. CASE DrainEnds
  BY <1>5, DrainEndsMoves
<1>6. QED
  BY <1>1, <1>2, <1>3, <1>4, <1>5 DEF ClientStep

\* What is sent comes last on the wire, under the next numbers.
LEMMA SpeaksGrows ==
  ASSUME TypeOK, SessionInv, NEW messages, Speaks(messages)
  PROVE  \E k \in 0..3 :
           /\ k = Len(messages) /\ Len(log') = Len(log) + k /\ log' \in Seq(Answers)
           /\ \A i \in Numbers : log'[i] = log[i]
           /\ wire' = wire \o [i \in 1..k |-> Len(log) + i]
           /\ UNCHANGED <<batch, pending, given, swept>>
<1>1. PICK k : k = Len(messages)
  OBVIOUS
<1>2. PICK l : l = Len(log)
  OBVIOUS
<1>3. messages \in Seq(Answers) /\ log \in Seq(Answers) /\ k \in 0..3 /\ l \in Nat
  BY <1>1, <1>2, LenProperties DEF Speaks, SessionInv
<1>4. DOMAIN messages = 1..k
  BY <1>1, <1>3, LenProperties
<1>5. log' = log \o messages /\ wire' = wire \o [i \in 1..k |-> l + i]
  BY <1>2, <1>4 DEF Speaks, Emit
<1>6. PICK r : r = log \o messages
  OBVIOUS
<1>7. r \in Seq(Answers) /\ Len(r) = l + k /\ \A i \in 1..(l + k) : r[i] = IF i <= l THEN log[i] ELSE messages[i - l]
  BY <1>1, <1>2, <1>3, <1>6, ConcatProperties
<1>8. \A i \in 1..l : r[i] = log[i]
  BY <1>3, <1>7
<1>9. UNCHANGED <<batch, pending, given, swept>>
  BY DEF Speaks, client
<1>10. QED
  BY <1>1, <1>2, <1>3, <1>5, <1>6, <1>7, <1>8, <1>9 DEF Numbers

LEMMA SpeaksKeeps ==
  ASSUME TypeOK, SessionInv, Ordered, NEW messages, Speaks(messages)
  PROVE  /\ wire' \in Seq(Numbers') /\ Ordered'
         /\ Numbers' = Numbers \cup ((Len(log) + 1)..Len(log'))
         /\ Held' = Held \cup ((Len(log) + 1)..Len(log'))
<1>1. PICK k \in 0..3 :
        /\ Len(log') = Len(log) + k
        /\ wire' = wire \o [i \in 1..k |-> Len(log) + i]
        /\ UNCHANGED <<batch, pending, given, swept>>
  BY SpeaksGrows
<1>2. PICK l : l = Len(log)
  OBVIOUS
<1>3. PICK t : t = [i \in 1..k |-> l + i]
  OBVIOUS
<1>4. PICK w : w = wire \o t
  OBVIOUS
<1>5. /\ l \in Nat /\ k \in Nat /\ Numbers = 1..l /\ Numbers' = 1..(l + k)
      /\ wire \in Seq(Nat) /\ Held \subseteq 1..l
  BY <1>1, <1>2, HeldLemma DEF Numbers
<1>6. t \in Seq(Nat) /\ Sorted(t) /\ ToSet(t) = (l + 1)..(l + k)
  BY <1>3, <1>5, NumbersNext
<1>7. Below(1..l, ToSet(t))
  BY <1>5, <1>6 DEF Below
<1>8. ToSet(wire) \subseteq 1..l /\ ToSet(batch) \subseteq 1..l /\ ToSet(pending) \subseteq 1..l
  BY <1>5 DEF Held
<1>9. Below(ToSet(wire), ToSet(t)) /\ Below(ToSet(pending), ToSet(t)) /\ Below(ToSet(batch), ToSet(t))
  BY <1>7, <1>8 DEF Below
<1>10. ToSet(w) = ToSet(wire) \cup ToSet(t) /\ Sorted(w)
  BY <1>4, <1>5, <1>6, <1>9, NumbersConcat DEF Ordered
<1>11. wire' = w
  BY <1>1, <1>2, <1>3, <1>4
<1>12. wire' \in Seq(Numbers')
  <2>1. wire \in Seq(1..(l + k))
    <3>1. wire \in Seq(1..l) /\ 1..l \subseteq 1..(l + k)
      BY <1>5 DEF TypeOK
    <3>2. QED
      BY <3>1, SeqWiden
  <2>2. t \in Seq(1..(l + k))
    <3>1. \A i \in 1..k : l + i \in 1..(l + k)
      BY <1>5
    <3>2. QED
      BY <1>3, <1>5, <3>1, IsASeq
  <2>3. w \in Seq(1..(l + k))
    BY <1>4, <2>1, <2>2, ConcatProperties
  <2>4. QED
    BY <1>5, <1>11, <2>3
<1>13. Ordered'
  BY <1>1, <1>9, <1>10, <1>11 DEF Ordered, Below
<1>14. 1..(l + k) = (1..l) \cup ((l + 1)..(l + k))
  BY <1>5
<1>15. Held' = Held \cup ((l + 1)..(l + k))
  BY <1>1, <1>6, <1>10, <1>11 DEF Held
<1>16. QED
  BY <1>1, <1>2, <1>5, <1>12, <1>13, <1>14, <1>15

-----------------------------------------------------------------------------
(* The types *)

LEMMA HeldAfter ==
  ASSUME TypeOK'
  PROVE  /\ Unread' = Held' /\ Numbers' \subseteq Nat
         /\ Ordered' => Sorted((batch \o pending \o wire)')
<1>1. Len(log') \in Nat /\ Numbers' \subseteq Nat
  BY LenProperties DEF TypeOK, Numbers
<1>2. batch' \in Seq(Numbers') /\ pending' \in Seq(Numbers') /\ wire' \in Seq(Numbers')
  BY DEF TypeOK
<1>3. QED
  BY <1>1, <1>2, QueueLemma DEF Unread, Held, Ordered

\* A step of a call, and what is left of it.
LEMMA HeadStep ==
  ASSUME TypeOK, steps # <<>>
  PROVE  /\ Head(steps) \in StepRecords /\ Tail(steps) \in Seq(StepRecords)
         /\ Head(steps).do = "send" => Head(steps).name \in Commands
<1>1. Head(steps) \in StepRecords /\ Tail(steps) \in Seq(StepRecords)
  BY HeadTailProperties DEF TypeOK
<1>2. QED
  BY <1>1 DEF StepRecords

LEMMA StatusLemma ==
  ASSUME NEW ns
  PROVE  Track(ns) \in {"unknown", "running", "stopped", "exited"}
<1>1. \A e : StatusOf(e) \in {"unknown", "running", "stopped", "exited"}
  BY DEF StatusOf
<1>2. PICK n : Track(ns) \in {"unknown", StatusOf(n)}
  BY DEF Track
<1>3. QED
  BY <1>1, <1>2

\* More requests leave the answers to those before as they are.
LEMMA SendTypes ==
  ASSUME TypeOK, SessionInv, SendRequest
  PROVE  TypeOK' /\ SessionInv'
<1>1. PICK c : c = Head(steps).name
  OBVIOUS
<1>2. PICK k : k = Len(asked)
  OBVIOUS
<1>3. PICK a : a = Append(asked, c)
  OBVIOUS
<1>4. /\ steps # <<>> /\ c \in Commands /\ asked \in Seq(Commands) /\ Tail(steps) \in Seq(StepRecords)
      /\ k \in Nat
  BY <1>1, <1>2, HeadStep, LenProperties DEF SendRequest, Doing, TypeOK
<1>5. /\ a \in Seq(Commands) /\ Len(a) = k + 1 /\ a[k+1] = c
      /\ \A i \in 1..k : i \in 1..Len(a) /\ a[i] = asked[i]
  BY <1>2, <1>3, <1>4, AppendProperties
<1>6. asked' = a
  BY <1>1, <1>3 DEF SendRequest
<1>7. Answers \subseteq Answers'
  <2>1. \A s \in 1..k : s \in 1..Len(a) /\ a[s] = asked[s]
    BY <1>5
  <2>2. QED
    BY <1>2, <1>6, <2>1 DEF Answers
<1>8. Outstanding \subseteq Outstanding'
  <2>1. ASSUME NEW r \in Outstanding PROVE r \in Outstanding'
    <3>1. r \in [name : Commands, seq : 1..k] /\ r.name = asked[r.seq] /\ r.seq \in 1..k
      BY <1>2, <2>1 DEF Outstanding
    <3>2. r.name = a[r.seq]
      BY <1>5, <3>1
    <3>3. r \in [name : Commands, seq : 1..Len(a)]
      <4>1. 1..k \subseteq 1..Len(a)
        BY <1>5
      <4>2. QED
        BY <3>1, <4>1
    <3>4. QED
      BY <1>6, <3>2, <3>3 DEF Outstanding
  <2>2. QED
    BY <2>1
<1>9. [name |-> c, seq |-> k + 1] \in Outstanding'
  <2>1. k + 1 \in 1..Len(a)
    BY <1>4, <1>5
  <2>2. [name |-> c, seq |-> k + 1] \in [name : Commands, seq : 1..Len(a)]
    BY <1>4, <2>1
  <2>3. QED
    BY <1>5, <1>6, <2>2 DEF Outstanding
<1>10. /\ requests' = Append(requests, [name |-> c, seq |-> k + 1])
       /\ steps' = Tail(steps)
       /\ UNCHANGED <<kind, open, log, wire, owed, debuggee, stops, pending, batch, capabilities, outcome,
                      status, calls, given, swept, mark, slow>>
  BY <1>1, <1>2 DEF SendRequest
<1>11. log' \in Seq(Answers') /\ requests' \in Seq(Outstanding')
  <2>1. log \in Seq(Answers') /\ requests \in Seq(Outstanding')
    BY <1>7, <1>8, SeqWiden DEF SessionInv
  <2>2. QED
    BY <1>9, <1>10, <2>1, AppendProperties
<1>12. requests' \in Seq([name : Commands, seq : 1..Len(asked')])
  <2>1. Outstanding' \subseteq [name : Commands, seq : 1..Len(asked')]
    BY DEF Outstanding
  <2>2. QED
    BY <1>11, <2>1, SeqWiden
<1>13. owed' \in 0..Len(asked')
  <2>1. owed \in 0..k
    BY <1>2 DEF TypeOK
  <2>2. QED
    BY <1>4, <1>5, <1>6, <1>10, <2>1
<1>14. TypeOK'
  BY <1>4, <1>5, <1>6, <1>10, <1>12, <1>13 DEF TypeOK, kind, Numbers
<1>15. QED
  BY <1>11, <1>14 DEF SessionInv

LEMMA SpeaksTypes ==
  ASSUME TypeOK, SessionInv, Ordered, NEW messages, Speaks(messages)
  PROVE  TypeOK' /\ SessionInv'
<1>1. PICK k \in 0..3 : Len(log') = Len(log) + k /\ log' \in Seq(Answers)
  BY SpeaksGrows
<1>2. wire' \in Seq(Numbers') /\ Numbers \subseteq Numbers'
  BY SpeaksKeeps
<1>3. /\ requests' \in Seq(Outstanding) /\ UNCHANGED <<kind, client>>
      /\ open' \in BOOLEAN /\ owed' \in 0..Len(asked)
      /\ debuggee' \in {"none", "running", "stopped", "exited"} /\ stops' \in 0..MaxStops
  BY DEF Speaks
<1>4. UNCHANGED asked
  BY <1>3 DEF client
<1>5. SessionInv'
  BY <1>1, <1>3, <1>4 DEF SessionInv, Answers, Outstanding
<1>6. log' \in Seq(Messages)
  <2>1. Answers \subseteq Messages
    BY DEF Answers
  <2>2. QED
    BY <1>1, <2>1, SeqWiden
<1>7. requests' \in Seq([name : Commands, seq : 1..Len(asked')])
  <2>1. Outstanding \subseteq [name : Commands, seq : 1..Len(asked)]
    BY DEF Outstanding
  <2>2. QED
    BY <1>3, <1>4, <2>1, SeqWiden
<1>8. pending' \in Seq(Numbers') /\ batch' \in Seq(Numbers')
  BY <1>2, <1>3, SeqWiden DEF TypeOK, client
<1>9. mark' \in 0..Len(log') /\ given' \subseteq Numbers' /\ swept' \subseteq Numbers'
  <2>1. mark \in 0..Len(log) /\ Len(log) \in Nat /\ given \subseteq Numbers /\ swept \subseteq Numbers
    BY HeldLemma DEF TypeOK
  <2>2. UNCHANGED <<mark, given, swept>>
    BY <1>3 DEF client
  <2>3. mark' \in 0..Len(log')
    BY <1>1, <2>1, <2>2
  <2>4. QED
    BY <1>2, <2>1, <2>2, <2>3
<1>10. TypeOK'
  BY <1>2, <1>3, <1>4, <1>6, <1>7, <1>8, <1>9 DEF TypeOK, kind, client
<1>11. QED
  BY <1>5, <1>10

\* What the steps of a call leave to do.
Goes ==
  \/ UNCHANGED steps
  \/ steps # <<>> /\ steps' = Tail(steps) /\ ~Doing({"send"})
  \/ steps' = <<>>
  \/ steps' = Ask("threads") \o Step("drain", "again")

LEMMA ClientGoes ==
  ASSUME TypeOK, Ordered, ClientStep, ~SendRequest
  PROVE  /\ Goes /\ UNCHANGED <<kind, open, requests, owed, debuggee, stops, asked, calls, mark>>
         /\ capabilities' \in BOOLEAN /\ slow' \in BOOLEAN
         /\ outcome' \in {"working", "ok", "failed"}
         /\ status' \in {"unknown", "running", "stopped", "exited"}
<1> USE DEF TypeOK
<1>1. CASE TakeBuffered
  BY <1>1 DEF TakeBuffered, Give, Goes, session, Waiting, Doing
<1>2. CASE ReadWire
  <2>1. \/ Give(Head(wire)) \/ UNCHANGED <<given, steps, outcome, capabilities>>
    BY <1>2 DEF ReadWire, PassOver
  <2>2. QED
    BY <1>2, <2>1 DEF ReadWire, Give, Goes, Waiting, Doing
<1>3. CASE TimeOut \/ ChannelEnds
  <2>1. slow' \in BOOLEAN
    BY <1>3 DEF TimeOut, ChannelEnds, Silent
  <2>2. Fail
    BY <1>3 DEF TimeOut, ChannelEnds
  <2>3. QED
    BY <2>1, <2>2 DEF Fail, Goes, session
<1>4. CASE DrainReads
  BY <1>4 DEF DrainReads, Goes
<1>5. CASE DrainEnds
  <2>1. UNCHANGED <<kind, session, asked, calls, mark>>
    BY <1>5 DEF DrainEnds
  <2>2. slow' \in BOOLEAN /\ outcome' \in {"working", "ok", "failed"}
    BY <1>5 DEF DrainEnds, Silent
  <2>3. steps # <<>> /\ ~Doing({"send"})
    BY <1>5 DEF DrainEnds, Doing
  <2>4. CASE Absorb
    BY <2>1, <2>2, <2>3, <2>4 DEF Absorb, Goes, session
  <2>5. CASE Probe
    BY <2>1, <2>2, <2>3, <2>5, StatusLemma DEF Probe, Goes, session
  <2>6. CASE DrainReturns
    BY <2>1, <2>2, <2>3, <2>6 DEF DrainReturns, Goes, session
  <2>7. QED
    BY <1>5, <2>4, <2>5, <2>6 DEF DrainEnds
<1>6. QED
  BY <1>1, <1>2, <1>3, <1>4, <1>5 DEF ClientStep

LEMMA GoesTypes ==
  ASSUME TypeOK, Goes
  PROVE  steps' \in Seq(StepRecords)
<1>1. Ask("threads") \o Step("drain", "again") \in Seq(StepRecords) /\ <<>> \in Seq(StepRecords)
  BY OtherLists, EmptyList DEF CallList
<1>2. QED
  BY <1>1, HeadStep DEF Goes, TypeOK

LEMMA ClientTypes ==
  ASSUME TypeOK, SessionInv, Ordered, ClientStep \/ Call \/ SessionCloses, ~SendRequest
  PROVE  TypeOK' /\ SessionInv'
<1>1. CASE ClientStep
  <2>1. /\ Goes /\ UNCHANGED <<kind, open, requests, owed, debuggee, stops, asked, calls, mark>>
        /\ capabilities' \in BOOLEAN /\ slow' \in BOOLEAN
        /\ outcome' \in {"working", "ok", "failed"}
        /\ status' \in {"unknown", "running", "stopped", "exited"}
    BY <1>1, ClientGoes
  <2>2. PICK gives, drops : Moves(gives, drops)
    BY <1>1, ClientMoves
  <2>3. given' \subseteq Numbers /\ swept' \subseteq Numbers
    <3>1. gives \subseteq Numbers /\ drops \subseteq Numbers
      BY <2>2, HeldLemma DEF Moves
    <3>2. QED
      BY <2>2, <3>1 DEF Moves, TypeOK
  <2>4. steps' \in Seq(StepRecords)
    BY <2>1, GoesTypes
  <2>5. UNCHANGED log /\ batch' \in Seq(Numbers) /\ pending' \in Seq(Numbers) /\ wire' \in Seq(Numbers)
    BY <2>2 DEF Moves
  <2>6. TypeOK'
    BY <2>1, <2>3, <2>4, <2>5 DEF TypeOK, kind, Numbers
  <2>7. SessionInv'
    BY <2>1, <2>5 DEF SessionInv, Answers, Outstanding
  <2>8. QED
    BY <2>6, <2>7
<1>2. CASE Call
  <2>1. PICK c \in Calls : steps' = CallSteps(c)
    BY <1>2 DEF Call
  <2>2. steps' \in Seq(StepRecords)
    BY <2>1, CallStepsList DEF CallList
  <2>3. calls' \in 0..MaxCalls
    BY <1>2, ClientAssumption DEF Call, TypeOK
  <2>4. mark' \in 0..Len(log')
    BY <1>2, HeldLemma DEF Call, session
  <2>5. outcome' = "working"
        /\ UNCHANGED <<kind, session, asked, pending, batch, capabilities, status, given, swept, slow>>
    BY <1>2 DEF Call
  <2>6. TypeOK'
    BY <2>2, <2>3, <2>4, <2>5 DEF TypeOK, kind, session, Numbers
  <2>7. SessionInv'
    BY <2>5 DEF SessionInv, Answers, Outstanding, session
  <2>8. QED
    BY <2>6, <2>7
<1>3. CASE SessionCloses
  <2>1. open' = FALSE /\ UNCHANGED <<kind, requests, log, wire, owed, debuggee, stops, client>>
    BY <1>3 DEF SessionCloses
  <2>2. UNCHANGED <<asked, pending, batch, capabilities, steps, outcome, status, calls, given, swept, mark, slow>>
    BY <2>1 DEF client
  <2>3. TypeOK'
    <3>1. UNCHANGED Numbers
      BY <2>1 DEF Numbers
    <3>2. open' \in BOOLEAN
      BY <2>1
    <3>3. QED
      BY <2>1, <2>2, <3>1, <3>2 DEF TypeOK, kind
  <2>4. SessionInv'
    BY <2>1, <2>2 DEF SessionInv, Answers, Outstanding
  <2>5. QED
    BY <2>3, <2>4
<1>4. QED
  BY <1>1, <1>2, <1>3

-----------------------------------------------------------------------------
(* Nothing is lost *)

\* What every step preserves, whatever the calls are for.
BufferInv == TypeOK /\ SessionInv /\ Ordered /\ KeepsEvents

LEMMA BufferInit ==
  ASSUME Init
  PROVE  BufferInv
<1>1. \A S : <<>> \in Seq(S) /\ Len(<<>>) = 0
  BY EmptySeq
<1>2. ToSet(<<>>) = {} /\ Sorted(<<>>)
  BY <1>1, ElementsLemma DEF Sorted
<1>3. steps \in Seq(StepRecords)
  BY SessionInitList, OtherLists DEF Init, InitList
<1>4. TypeOK
  <2>1. /\ plugin \in Plugins /\ attaches \in BOOLEAN /\ deferred \in BOOLEAN
        /\ announces \in {"before", "after", "launch"} /\ open \in BOOLEAN
        /\ flaw \in {"none", "undescribed", "refused", "unresolved"}
        /\ debuggee \in {"none", "running", "stopped", "exited"}
        /\ capabilities \in BOOLEAN /\ slow \in BOOLEAN /\ given = {} /\ swept = {}
        /\ outcome \in {"working", "ok", "failed"} /\ status \in {"unknown", "running", "stopped", "exited"}
    BY DEF Init
  <2>2. owed \in 0..Len(asked) /\ stops \in 0..MaxStops /\ calls \in 0..MaxCalls /\ mark \in 0..Len(log)
    BY <1>1, ClientAssumption DEF Init
  <2>3. /\ requests \in Seq([name : Commands, seq : 1..Len(asked)]) /\ log \in Seq(Messages)
        /\ wire \in Seq(Numbers) /\ pending \in Seq(Numbers) /\ batch \in Seq(Numbers)
        /\ asked \in Seq(Commands)
    BY <1>1 DEF Init
  <2>4. QED
    BY <1>3, <2>1, <2>2, <2>3 DEF TypeOK
<1>5. SessionInv
  BY <1>1 DEF Init, SessionInv
<1>6. Ordered /\ Held = {}
  BY <1>2 DEF Init, Ordered, Held, Below
<1>7. KeepsEvents
  <2>1. Unread = {} /\ Numbers = {} /\ given = {} /\ swept = {}
    BY <1>1, <1>4, <1>6, HeldLemma DEF Init, Numbers
  <2>2. QED
    BY <2>1 DEF KeepsEvents
<1>8. QED
  BY <1>4, <1>5, <1>6, <1>7 DEF BufferInv

\* A step either speaks, or moves what the client has, or closes the channel.
LEMMA StepKinds ==
  ASSUME BufferInv, [Next]_vars
  PROVE  \/ \E messages : Speaks(messages)
         \/ (ClientStep \/ Call) /\ \E gives, drops : Moves(gives, drops)
         \/ SessionCloses
         \/ UNCHANGED vars
<1>1. TypeOK /\ SessionInv /\ Ordered
  BY DEF BufferInv
<1>2. QED
  BY <1>1, SessionSpeaks, ClientMoves DEF Next, vars

LEMMA BufferTypes ==
  ASSUME BufferInv, [Next]_vars
  PROVE  TypeOK' /\ SessionInv' /\ Ordered'
<1>1. TypeOK /\ SessionInv /\ Ordered
  BY DEF BufferInv
<1>2. CASE \E messages : Speaks(messages)
  BY <1>1, <1>2, SpeaksTypes, SpeaksKeeps
<1>3. CASE (ClientStep \/ Call) /\ \E gives, drops : Moves(gives, drops)
  <2>1. Ordered'
    BY <1>3 DEF Moves
  <2>2. TypeOK' /\ SessionInv'
    BY <1>1, <1>3, SendTypes, ClientTypes
  <2>3. QED
    BY <2>1, <2>2
<1>4. CASE SessionCloses
  <2>1. Ordered'
    BY <1>1, <1>4 DEF SessionCloses, client, Ordered
  <2>2. ~SendRequest
    <3>1. SendRequest => UNCHANGED open
      BY DEF SendRequest
    <3>2. open /\ ~open'
      BY <1>4 DEF SessionCloses
    <3>3. QED
      BY <3>1, <3>2
  <2>3. QED
    BY <1>1, <1>4, <2>1, <2>2, ClientTypes
<1>5. CASE UNCHANGED vars
  <2>1. Ordered' /\ SessionInv'
    BY <1>1, <1>5 DEF vars, session, client, Ordered, SessionInv, Answers, Outstanding
  <2>2. TypeOK'
    BY <1>1, <1>5 DEF vars, kind, session, client, TypeOK, Numbers
  <2>3. QED
    BY <2>1, <2>2
<1>6. QED
  BY <1>2, <1>3, <1>4, <1>5, StepKinds

LEMMA BufferNext ==
  ASSUME BufferInv, [Next]_vars
  PROVE  BufferInv'
<1>1. TypeOK' /\ SessionInv' /\ Ordered' /\ Unread' = Held'
  BY BufferTypes, HeldAfter
<1>2. /\ TypeOK /\ SessionInv /\ Ordered /\ Unread = Held /\ Held \subseteq Numbers
      /\ given \subseteq Numbers /\ swept \subseteq Numbers /\ Len(log) \in Nat
      /\ Numbers = given \cup swept \cup Held /\ given \cap swept = {}
      /\ Held \cap (given \cup swept) = {}
  BY HeldLemma DEF BufferInv, TypeOK, KeepsEvents
<1>3. SUFFICES Numbers' = given' \cup swept' \cup Held' /\ given' \cap swept' = {}
               /\ Held' \cap (given' \cup swept') = {}
  BY <1>1 DEF BufferInv, KeepsEvents
<1>4. ASSUME NEW messages, Speaks(messages)
      PROVE  Numbers' = given' \cup swept' \cup Held' /\ given' \cap swept' = {}
             /\ Held' \cap (given' \cup swept') = {}
  <2>1. PICK sent : sent = (Len(log) + 1)..Len(log')
    OBVIOUS
  <2>2. Numbers' = Numbers \cup sent /\ Held' = Held \cup sent /\ UNCHANGED <<given, swept>>
    BY <1>2, <1>4, <2>1, SpeaksKeeps, SpeaksGrows
  <2>3. Numbers \cap sent = {}
    BY <1>2, <2>1 DEF Numbers
  <2>4. QED
    BY <1>2, <2>2, <2>3
<1>5. ASSUME NEW gives, NEW drops, Moves(gives, drops)
      PROVE  Numbers' = given' \cup swept' \cup Held' /\ given' \cap swept' = {}
             /\ Held' \cap (given' \cup swept') = {}
  <2>1. /\ Numbers' = Numbers /\ given' = given \cup gives /\ swept' = swept \cup drops
        /\ gives \cap drops = {} /\ Held = gives \cup drops \cup Held' /\ Held' \cap (gives \cup drops) = {}
    BY <1>5 DEF Moves, Numbers
  <2>2. QED
    BY <1>2, <2>1
<1>6. ASSUME UNCHANGED <<log, batch, pending, wire, given, swept>>
      PROVE  Numbers' = given' \cup swept' \cup Held' /\ given' \cap swept' = {}
             /\ Held' \cap (given' \cup swept') = {}
  <2>1. Numbers' = Numbers /\ Held' = Held /\ given' = given /\ swept' = swept
    BY <1>6 DEF Numbers, Held
  <2>2. QED
    BY <1>2, <2>1
<1>7. (SessionCloses \/ UNCHANGED vars) => UNCHANGED <<log, batch, pending, wire, given, swept>>
  BY DEF SessionCloses, vars, session, client
<1>8. QED
  BY <1>4, <1>5, <1>6, <1>7, StepKinds

\* Nothing the session sent is lost or given twice, by any calls in any order
\* (ClientConsistent: control_client.rs, read_message, consume_replay and drain).
THEOREM ClientStaysConsistent == Spec => []ClientConsistent
<1>1. Init => BufferInv
  BY BufferInit
<1>2. BufferInv /\ [Next]_vars => BufferInv'
  BY BufferNext
<1>3. BufferInv => ClientConsistent
  BY DEF BufferInv, ClientConsistent
<1>4. QED
  BY <1>1, <1>2, <1>3, PTL DEF Spec

-----------------------------------------------------------------------------
(* The client implements an inbox *)

Queue == batch \o pending \o wire

LEMMA QueueType ==
  ASSUME TypeOK PROVE Queue \in Seq(Nat) /\ ToSet(Queue) = Unread
<1>1. batch \in Seq(Nat) /\ pending \in Seq(Nat) /\ wire \in Seq(Nat)
  BY HeldLemma
<1>2. batch \o pending \in Seq(Nat)
  BY <1>1, NumbersConcat
<1>3. QED
  BY <1>1, <1>2, NumbersConcat DEF Queue, Unread

LEMMA QueueTypeAfter ==
  ASSUME TypeOK' PROVE Queue' \in Seq(Nat) /\ ToSet(Queue') = Unread'
<1>1. batch' \in Seq(Nat) /\ pending' \in Seq(Nat) /\ wire' \in Seq(Nat)
  <2>1. Numbers' \in SUBSET Nat
    BY HeldAfter
  <2>2. batch' \in Seq(Numbers') /\ pending' \in Seq(Numbers') /\ wire' \in Seq(Numbers')
    BY DEF TypeOK
  <2>3. QED
    BY <2>1, <2>2, QueueLemma
<1>2. batch' \o pending' \in Seq(Nat)
  BY <1>1, NumbersConcat
<1>3. QED
  BY <1>1, <1>2, NumbersConcat DEF Queue, Unread

LEMMA NumbersAssociative ==
  ASSUME NEW s \in Seq(Nat), NEW t \in Seq(Nat), NEW u \in Seq(Nat)
  PROVE  (s \o t) \o u = s \o (t \o u)
BY ConcatAssociative, Z3T(60)

\* What the session sends arrives, all of it at once.
LEMMA SpeaksArrives ==
  ASSUME BufferInv, NEW messages, Speaks(messages)
  PROVE  Inbox!Arrive \/ UNCHANGED <<Len(log), Queue>>
<1>1. PICK k \in 0..3 :
        /\ Len(log') = Len(log) + k
        /\ wire' = wire \o [i \in 1..k |-> Len(log) + i]
        /\ UNCHANGED <<batch, pending, given, swept>>
  BY SpeaksGrows DEF BufferInv
<1>2. PICK l : l = Len(log)
  OBVIOUS
<1>3. PICK t : t = [i \in 1..k |-> l + i]
  OBVIOUS
<1>4. /\ l \in Nat /\ k \in Nat /\ t \in Seq(Nat)
      /\ batch \in Seq(Nat) /\ pending \in Seq(Nat) /\ wire \in Seq(Nat)
  BY <1>2, <1>3, HeldLemma, NumbersNext DEF BufferInv
<1>5. batch \o pending \in Seq(Nat)
  BY <1>4, NumbersConcat
<1>6. (batch \o pending) \o (wire \o t) = ((batch \o pending) \o wire) \o t
  <2>1. PICK s, w : s = batch \o pending /\ w = wire
    OBVIOUS
  <2>2. s \in Seq(Nat) /\ w \in Seq(Nat)
    BY <1>4, <1>5, <2>1
  <2>3. (s \o w) \o t = s \o (w \o t)
    <3>1. t \in Seq(Nat)
      BY <1>4
    <3>2. QED
      BY <2>2, <3>1, NumbersAssociative
  <2>4. QED
    BY <2>1, <2>3, Zenon
<1>7. Queue' = Queue \o t
  BY <1>1, <1>2, <1>3, <1>6 DEF Queue
<1>8. CASE k = 0
  <2>1. t = <<>>
    <3>1. Len(t) = 0
      BY <1>3, <1>4, <1>8, LenProperties
    <3>2. QED
      BY <1>4, <3>1, EmptySeq
  <2>2. Queue' = Queue
    BY <1>7, <2>1, QueueType, ConcatEmptySeq DEF BufferInv
  <2>3. QED
    BY <1>1, <1>2, <1>4, <1>8, <2>2
<1>9. CASE k # 0
  <2>1. k \in 1..3
    BY <1>9
  <2>2. Len(log') = Len(log) + k /\ Queue' = Queue \o [i \in 1..k |-> Len(log) + i]
    BY <1>1, <1>2, <1>3, <1>7
  <2>3. QED
    BY <2>1, <2>2 DEF Inbox!Arrive, Queue
<1>10. QED
  BY <1>8, <1>9

\* What the client gives away or drops leaves.
LEMMA MovesLeaves ==
  ASSUME BufferInv, BufferInv', NEW gives, NEW drops, Moves(gives, drops)
  PROVE  Inbox!Leave
<1>1. PICK q, r : q = Queue /\ r = Queue'
  OBVIOUS
<1>2. /\ q \in Seq(Nat) /\ r \in Seq(Nat) /\ ToSet(q) = Held /\ ToSet(r) = Held'
  BY <1>1, QueueType, QueueTypeAfter, HeldLemma, HeldAfter DEF BufferInv
<1>3. ToSet(r) \subseteq ToSet(q) /\ UNCHANGED log
  BY <1>2 DEF Moves
<1>4. \A i \in 1..Len(r) : \E j \in 1..Len(q) : r[i] = q[j]
  <2>1. TAKE i \in 1..Len(r)
  <2>2. r[i] \in ToSet(q)
    BY <1>2, <1>3, ElementsLemma
  <2>3. QED
    BY <1>2, <2>2, ElementsLemma
<1>5. Sorted(r)
  BY <1>1, HeldAfter DEF Moves, BufferInv, Queue
<1>6. \A i, j \in 1..Len(r) : i < j => r[i] < r[j]
  BY <1>5 DEF Sorted
<1>7. /\ \A i \in 1..Len(Queue') : \E j \in 1..Len(Queue) : Queue'[i] = Queue[j]
      /\ \A i, j \in 1..Len(Queue') : i < j => Queue'[i] < Queue'[j]
  BY <1>1, <1>4, <1>6
<1>8. QED
  BY <1>3, <1>7 DEF Inbox!Leave, Inbox!Ascending, Queue

\* What waits in the client, in a drain and on the wire is one inbox in the order of
\* arrival, whatever the calls (ImplementsInbox: control_client.rs, read_message and drain).
THEOREM ClientImplementsInbox == Spec => ImplementsInbox
<1>1. Init => Inbox!Init
  <2>1. <<>> \o <<>> = <<>> /\ Len(<<>>) = 0
    BY EmptySeq, ConcatEmptySeq
  <2>2. QED
    BY <2>1 DEF Init, Inbox!Init
<1>2. BufferInv /\ BufferInv' /\ [Next]_vars => [Inbox!Next]_<<Len(log), batch \o pending \o wire>>
  <2>1. SUFFICES ASSUME BufferInv, BufferInv', [Next]_vars
                 PROVE  Inbox!Next \/ UNCHANGED <<Len(log), Queue>>
    BY DEF Queue
  <2>2. ASSUME NEW messages, Speaks(messages)
        PROVE  Inbox!Next \/ UNCHANGED <<Len(log), Queue>>
    BY <2>1, <2>2, SpeaksArrives DEF Inbox!Next
  <2>3. ASSUME NEW gives, NEW drops, Moves(gives, drops)
        PROVE  Inbox!Next
    BY <2>1, <2>3, MovesLeaves DEF Inbox!Next
  <2>4. (SessionCloses \/ UNCHANGED vars) => UNCHANGED <<Len(log), Queue>>
    BY DEF SessionCloses, vars, session, client, Queue
  <2>5. QED
    BY <2>1, <2>2, <2>3, <2>4, StepKinds
<1>3. Spec => []BufferInv
  BY BufferInit, BufferNext, PTL DEF Spec
<1>4. QED
  BY <1>1, <1>2, <1>3, PTL DEF Spec, ImplementsInbox, Inbox!Spec

-----------------------------------------------------------------------------
(* What remains of a call, and what was asked *)

\* Who waits for the answer to a request waits for the last that was sent.
LastSent(s, a) ==
  \A i \in 1..Len(s) : s[i].do \in {"sweep", "answer", "seq"} =>
    \/ \E j \in 1..(i-1) : s[j] = Send(s[i].name) /\ \A k \in (j+1)..(i-1) : s[k].do # "send"
    \/ /\ \A k \in 1..(i-1) : s[k].do # "send"
       /\ a # <<>> /\ a[Len(a)] = s[i].name

\* As long as an answer will be known by its command, no command is sent twice.
SentBefore(s, a) ==
  (\E i \in 1..Len(s) : s[i].do = "named") =>
    /\ SentOnce(s)
    /\ \A i, j \in 1..Len(a) : a[i] = a[j] => i = j
    /\ \A i \in 1..Len(a) : a[i] \notin SentBy(s)

\* A call that was made with no stop unread waits for no event but a stop, and every stop
\* it can find is newer.
MarkInv ==
  mark > 0 => StopsOnly(steps) /\ \A n \in Held : log[n].name = "stopped" => n > mark

CallInv == LastSent(steps, asked) /\ SentBefore(steps, asked) /\ MarkInv

LEMMA FollowSent ==
  ASSUME NEW s \in Seq(StepRecords), Follow(s), NEW a
  PROVE  LastSent(s, a)
<1>1. SUFFICES ASSUME NEW i \in 1..Len(s), s[i].do \in {"sweep", "answer", "seq"}
      PROVE  \E j \in 1..(i-1) : s[j] = Send(s[i].name) /\ \A k \in (j+1)..(i-1) : s[k].do # "send"
  BY DEF LastSent
<1>2. Len(s) \in Nat /\ i \in Nat
  BY LenProperties
<1>3. CASE s[i].do \in {"sweep", "answer"}
  <2>1. i - 1 \in 1..Len(s) /\ s[i-1] = Send(s[i].name)
    BY <1>3 DEF Follow
  <2>2. i - 1 \in 1..(i-1) /\ ((i-1)+1)..(i-1) = {}
    BY <1>2, <2>1
  <2>3. QED
    BY <2>1, <2>2
<1>4. CASE s[i].do = "seq"
  <2>1. i - 2 \in 1..Len(s) /\ s[i-1].do # "send" /\ s[i-2] = Send(s[i].name)
    BY <1>4 DEF Follow
  <2>2. i - 2 \in 1..(i-1) /\ \A k \in ((i-2)+1)..(i-1) : k = i - 1
    BY <1>2, <2>1
  <2>3. QED
    BY <2>1, <2>2
<1>5. QED
  BY <1>1, <1>3, <1>4

LEMMA TailSteps ==
  ASSUME NEW s \in Seq(StepRecords), s # <<>>
  PROVE  \E k \in Nat \ {0} :
           /\ Len(s) = k /\ Len(Tail(s)) = k - 1 /\ Head(s) = s[1]
           /\ \A i \in 1..(k - 1) : i + 1 \in 1..k /\ Tail(s)[i] = s[i+1]
<1>1. PICK k : k = Len(s)
  OBVIOUS
<1>2. k \in Nat \ {0}
  BY <1>1, LenProperties, EmptySeq
<1>3. QED
  BY <1>1, <1>2, HeadTailProperties

LEMMA LastSentTail ==
  ASSUME NEW s \in Seq(StepRecords), s # <<>>, NEW a \in Seq(Commands), LastSent(s, a)
  PROVE  /\ Head(s).do # "send" => LastSent(Tail(s), a)
         /\ Head(s).do = "send" /\ Head(s).name \in Commands => LastSent(Tail(s), Append(a, Head(s).name))
<1>1. PICK t : t = Tail(s)
  OBVIOUS
<1>2. PICK k \in Nat \ {0} :
        /\ Len(s) = k /\ Len(t) = k - 1 /\ Head(s) = s[1]
        /\ \A i \in 1..(k - 1) : i + 1 \in 1..k /\ t[i] = s[i+1]
  BY <1>1, TailSteps
<1> DEFINE Asked(b) == \/ s[1].do # "send" /\ b = a
                       \/ s[1].do = "send" /\ b # <<>> /\ b[Len(b)] = s[1].name
<1>3. ASSUME NEW b, Asked(b), NEW i \in 1..(k - 1), t[i].do \in {"sweep", "answer", "seq"}
      PROVE  \/ \E j \in 1..(i-1) : t[j] = Send(t[i].name) /\ \A l \in (j+1)..(i-1) : t[l].do # "send"
             \/ /\ \A l \in 1..(i-1) : t[l].do # "send"
                /\ b # <<>> /\ b[Len(b)] = t[i].name
  <2>1. i \in Nat /\ i + 1 \in 1..k /\ t[i] = s[i+1] /\ (i + 1) - 1 = i
    BY <1>2, <1>3
  <2>2. \A l \in 1..(i - 1) : l + 1 \in 2..i /\ t[l] = s[l+1]
    BY <1>2, <1>3
  <2>3. \/ \E j \in 1..i : s[j] = Send(t[i].name) /\ \A l \in (j+1)..i : s[l].do # "send"
        \/ /\ \A l \in 1..i : s[l].do # "send"
           /\ a # <<>> /\ a[Len(a)] = t[i].name
    <3>1. PICK p : p = i + 1
      OBVIOUS
    <3>2. p \in 1..Len(s) /\ s[p].do \in {"sweep", "answer", "seq"} /\ s[p].name = t[i].name /\ p - 1 = i
      BY <1>2, <1>3, <2>1, <3>1
    <3>3. \/ \E j \in 1..(p-1) : s[j] = Send(s[p].name) /\ \A l \in (j+1)..(p-1) : s[l].do # "send"
          \/ /\ \A l \in 1..(p-1) : s[l].do # "send"
             /\ a # <<>> /\ a[Len(a)] = s[p].name
      BY <3>2, Zenon DEF LastSent
    <3>4. QED
      BY <3>2, <3>3
  <2>4. ASSUME NEW j \in 1..i, s[j] = Send(t[i].name), \A l \in (j+1)..i : s[l].do # "send", j # 1
        PROVE  \E m \in 1..(i-1) : t[m] = Send(t[i].name) /\ \A l \in (m+1)..(i-1) : t[l].do # "send"
    <3>1. j - 1 \in 1..(i-1) /\ (j - 1) + 1 = j
      BY <2>1, <2>4
    <3>2. t[j-1] = Send(t[i].name)
      BY <2>2, <2>4, <3>1
    <3>3. \A l \in ((j-1)+1)..(i-1) : l \in 1..(i-1) /\ l + 1 \in (j+1)..i
      BY <2>1, <2>4
    <3>4. \A l \in ((j-1)+1)..(i-1) : t[l].do # "send"
      BY <2>2, <2>4, <3>3
    <3>5. QED
      BY <3>1, <3>2, <3>4
  <2>5. ASSUME s[1] = Send(t[i].name), \A l \in (1+1)..i : s[l].do # "send"
        PROVE  (\A l \in 1..(i-1) : t[l].do # "send") /\ b # <<>> /\ b[Len(b)] = t[i].name
    <3>1. s[1].do = "send" /\ s[1].name = t[i].name
      BY <2>5 DEF Send
    <3>2. \A l \in 1..(i-1) : l + 1 \in (1+1)..i
      BY <2>1
    <3>3. \A l \in 1..(i-1) : t[l].do # "send"
      BY <2>2, <2>5, <3>2
    <3>4. QED
      BY <1>3, <3>1, <3>3
  <2>6. ASSUME \A l \in 1..i : s[l].do # "send", a # <<>>, a[Len(a)] = t[i].name
        PROVE  (\A l \in 1..(i-1) : t[l].do # "send") /\ b # <<>> /\ b[Len(b)] = t[i].name
    <3>1. 1 \in 1..i /\ \A l \in 1..(i-1) : l + 1 \in 1..i
      BY <1>3, <2>1
    <3>2. \A l \in 1..(i-1) : t[l].do # "send"
      BY <2>2, <2>6, <3>1
    <3>3. QED
      BY <1>3, <2>6, <3>1, <3>2
  <2>7. QED
    BY <2>3, <2>4, <2>5, <2>6
<1> HIDE DEF Asked
<1>4. ASSUME NEW b, Asked(b) PROVE LastSent(t, b)
  <2>1. Len(t) = k - 1
    BY <1>2
  <2>2. SUFFICES ASSUME NEW i \in 1..(k - 1), t[i].do \in {"sweep", "answer", "seq"}
        PROVE  \/ \E j \in 1..(i-1) : t[j] = Send(t[i].name) /\ \A l \in (j+1)..(i-1) : t[l].do # "send"
               \/ /\ \A l \in 1..(i-1) : t[l].do # "send"
                  /\ b # <<>> /\ b[Len(b)] = t[i].name
    BY <2>1, Zenon DEF LastSent
  <2>3. QED
    BY <1>3, <1>4, <2>2
<1>5. CASE s[1].do # "send"
  <2>1. LastSent(t, a)
    BY <1>4, <1>5 DEF Asked
  <2>2. QED
    BY <1>1, <1>2, <1>5, <2>1
<1>6. CASE s[1].do = "send" /\ s[1].name \in Commands
  <2>1. PICK b : b = Append(a, s[1].name)
    OBVIOUS
  <2>2. b # <<>> /\ b[Len(b)] = s[1].name
    BY <1>6, <2>1, AppendProperties
  <2>3. LastSent(t, b)
    BY <1>4, <1>6, <2>2 DEF Asked
  <2>4. QED
    BY <1>1, <1>2, <1>6, <2>1, <2>3
<1>7. QED
  BY <1>2, <1>5, <1>6

LEMMA SentBeforeTail ==
  ASSUME NEW s \in Seq(StepRecords), s # <<>>, NEW a \in Seq(Commands), SentBefore(s, a)
  PROVE  /\ Head(s).do # "send" => SentBefore(Tail(s), a)
         /\ Head(s).do = "send" /\ Head(s).name \in Commands => SentBefore(Tail(s), Append(a, Head(s).name))
         /\ StopsOnly(s) => StopsOnly(Tail(s))
<1>1. PICK t : t = Tail(s)
  OBVIOUS
<1>2. PICK k \in Nat \ {0} :
        /\ Len(s) = k /\ Len(t) = k - 1 /\ Head(s) = s[1]
        /\ \A i \in 1..(k - 1) : i + 1 \in 1..k /\ t[i] = s[i+1]
  BY <1>1, TailSteps
<1>3. StopsOnly(s) => StopsOnly(t)
  BY <1>2, SMTT(40) DEF StopsOnly
<1>4. (\E i \in 1..Len(t) : t[i].do = "named") => \E i \in 1..Len(s) : s[i].do = "named"
  BY <1>2
<1>5. SentBy(t) \subseteq SentBy(s)
  <2>1. \A i \in 1..Len(t) : t[i].do = "send" => t[i].name \in SentBy(s)
    <3>1. TAKE i \in 1..Len(t)
    <3>2. i + 1 \in 1..Len(s) /\ t[i] = s[i+1]
      BY <1>2
    <3>3. QED
      BY <3>2 DEF SentBy
  <2>2. QED
    BY <2>1 DEF SentBy
<1>6. SentOnce(s) => SentOnce(t)
  <2>1. HAVE SentOnce(s)
  <2>2. \A i \in 1..Len(t) : t[i].do = "named" => t[i].name # "initialize"
    BY <1>2, <2>1 DEF SentOnce
  <2>3. ASSUME NEW i \in 1..Len(t), NEW j \in 1..Len(t), t[i].do = "send", t[j].do = "send", t[i].name = t[j].name
        PROVE  i = j
    <3>1. i + 1 \in 1..Len(s) /\ t[i] = s[i+1] /\ j + 1 \in 1..Len(s) /\ t[j] = s[j+1]
      BY <1>2
    <3>2. i + 1 = j + 1
      BY <2>1, <2>3, <3>1 DEF SentOnce
    <3>3. QED
      BY <1>2, <3>2
  <2>4. QED
    BY <2>2, <2>3 DEF SentOnce
<1>7. ASSUME SentOnce(s), s[1].do = "send" PROVE s[1].name \notin SentBy(t) /\ s[1].name \in SentBy(s)
  <2>1. \A i \in 1..Len(t) : t[i].do = "send" => t[i].name # s[1].name
    <3>1. TAKE i \in 1..Len(t)
    <3>2. i + 1 \in 1..Len(s) /\ 1 \in 1..Len(s) /\ t[i] = s[i+1] /\ i + 1 # 1
      BY <1>2
    <3>3. QED
      BY <1>7, <3>2 DEF SentOnce
  <2>2. 1 \in 1..Len(s)
    BY <1>2
  <2>3. QED
    BY <1>7, <2>1, <2>2 DEF SentBy
<1>8. ASSUME s[1].do # "send" PROVE SentBefore(t, a)
  BY <1>4, <1>5, <1>6 DEF SentBefore
<1>9. ASSUME s[1].do = "send", s[1].name \in Commands PROVE SentBefore(t, Append(a, s[1].name))
  <2>1. PICK b, l, c : b = Append(a, c) /\ l = Len(a) /\ c = s[1].name
    OBVIOUS
  <2>2. l \in Nat /\ Len(b) = l + 1 /\ b[l+1] = c /\ \A i \in 1..l : b[i] = a[i]
    BY <1>9, <2>1, AppendProperties, LenProperties
  <2>3. SUFFICES ASSUME \E i \in 1..Len(t) : t[i].do = "named"
        PROVE  /\ SentOnce(t)
               /\ \A i, j \in 1..Len(b) : b[i] = b[j] => i = j
               /\ \A i \in 1..Len(b) : b[i] \notin SentBy(t)
    BY <2>1 DEF SentBefore
  <2>4. /\ SentOnce(s)
        /\ \A i, j \in 1..l : a[i] = a[j] => i = j
        /\ \A i \in 1..l : a[i] \notin SentBy(s)
    BY <1>4, <2>1, <2>3 DEF SentBefore
  <2>5. c \notin SentBy(t) /\ c \in SentBy(s)
    BY <1>7, <1>9, <2>1, <2>4
  <2>6. \A i \in 1..Len(b) : (i \in 1..l /\ b[i] = a[i] /\ b[i] # c /\ b[i] \notin SentBy(s)) \/ (i = l + 1 /\ b[i] = c)
    <3>1. \A i \in 1..Len(b) : i \in 1..l \/ i = l + 1
      BY <2>2
    <3>2. \A i \in 1..l : a[i] # c
      BY <2>4, <2>5
    <3>3. QED
      BY <2>2, <2>4, <3>1, <3>2
  <2>7. QED
    BY <1>5, <1>6, <2>4, <2>5, <2>6
<1>10. QED
  BY <1>1, <1>2, <1>3, <1>8, <1>9

\* A list of a call, and what a client begins with, whatever was asked before.
LEMMA ListsBegin ==
  ASSUME NEW s, NEW a
  PROVE  /\ CallList(s) => LastSent(s, a) /\ SentBefore(s, a) /\ StopsOnly(s)
         /\ InitList(s) /\ a = <<>> => LastSent(s, a) /\ SentBefore(s, a)
<1>1. ASSUME CallList(s) PROVE LastSent(s, a) /\ SentBefore(s, a) /\ StopsOnly(s)
  BY <1>1, FollowSent DEF CallList, StopsOnly, SentBefore
<1>2. ASSUME InitList(s), a = <<>> PROVE LastSent(s, a) /\ SentBefore(s, a)
  <2>1. 1..Len(a) = {}
    BY <1>2, EmptySeq
  <2>2. QED
    BY <1>2, <2>1, FollowSent DEF InitList, SentBefore
<1>3. QED
  BY <1>1, <1>2

LEMMA CallInit ==
  ASSUME Init PROVE CallInv
<1>1. InitList(steps) /\ asked = <<>> /\ mark = 0
  BY SessionInitList, OtherLists DEF Init
<1>2. QED
  BY <1>1, ListsBegin DEF CallInv, MarkInv

\* What a step leaves to do is a part of the list, or begins a new one.
LEMMA StepsNext ==
  ASSUME TypeOK, Ordered, CallInv, [Next]_vars
  PROVE  /\ LastSent(steps', asked') /\ SentBefore(steps', asked')
         /\ StopsOnly(steps) \/ Call => StopsOnly(steps')
<1>1. /\ steps \in Seq(StepRecords) /\ asked \in Seq(Commands)
      /\ LastSent(steps, asked) /\ SentBefore(steps, asked)
  BY DEF TypeOK, CallInv
<1>2. CASE UNCHANGED <<steps, asked>> /\ ~Call
  BY <1>1, <1>2
<1>3. CASE SendRequest
  <2>1. PICK s, a, h : s = steps /\ a = asked /\ h = Head(steps)
    OBVIOUS
  <2>2. s # <<>> /\ h.do = "send" /\ h.name \in Commands /\ steps' = Tail(s) /\ asked' = Append(a, h.name)
    BY <1>3, <2>1, HeadStep DEF SendRequest, Doing
  <2>3. LastSent(Tail(s), Append(a, h.name)) /\ SentBefore(Tail(s), Append(a, h.name))
    BY <1>1, <2>1, <2>2, LastSentTail, SentBeforeTail
  <2>4. StopsOnly(s) => StopsOnly(Tail(s))
    BY <1>1, <2>1, <2>2, SentBeforeTail
  <2>5. Call => FALSE
    BY <2>1, <2>2 DEF Call
  <2>6. QED
    BY <2>1, <2>2, <2>3, <2>4, <2>5
<1>4. CASE Call
  <2>1. PICK c \in Calls : steps' = CallSteps(c)
    BY <1>4 DEF Call
  <2>2. QED
    BY <2>1, CallStepsList, ListsBegin
<1>5. CASE Goes /\ UNCHANGED asked /\ ~Call
  <2>1. CASE steps # <<>> /\ steps' = Tail(steps) /\ ~Doing({"send"})
    <3>1. Head(steps).do # "send"
      BY <2>1 DEF Doing
    <3>2. QED
      BY <1>1, <1>5, <2>1, <3>1, LastSentTail, SentBeforeTail
  <2>2. CASE steps' = <<>>
    BY <2>2, EmptyList, ListsBegin
  <2>3. CASE steps' = Ask("threads") \o Step("drain", "again")
    BY <2>3, OtherLists, ListsBegin
  <2>4. QED
    BY <1>2, <1>5, <2>1, <2>2, <2>3 DEF Goes
<1>6. SessionStep \/ UNCHANGED vars => UNCHANGED client
  BY DEF SessionStep, Replay, AdapterTakes, DebuggeeStops, DebuggeeExits, EditorResumes, SessionCloses, vars
<1>7. UNCHANGED client => UNCHANGED <<steps, asked>> /\ ~Call
  <2>1. UNCHANGED client => UNCHANGED <<steps, asked, calls>>
    BY DEF client
  <2>2. Call => calls' = calls + 1 /\ calls \in Nat
    BY ClientAssumption DEF Call, TypeOK
  <2>3. QED
    BY <2>1, <2>2
<1>8. ClientStep => SendRequest \/ (Goes /\ UNCHANGED asked /\ UNCHANGED calls)
  BY ClientGoes
<1>9. Call => calls' # calls
  BY ClientAssumption DEF Call, TypeOK
<1>10. QED
  BY <1>2, <1>3, <1>4, <1>5, <1>6, <1>7, <1>8, <1>9 DEF Next

LEMMA MarkNext ==
  ASSUME BufferInv, CallInv, [Next]_vars
  PROVE  MarkInv'
<1>1. /\ TypeOK /\ SessionInv /\ Ordered /\ MarkInv /\ Unread = Held /\ Held \subseteq Numbers
      /\ Len(log) \in Nat /\ Numbers = 1..Len(log) /\ mark \in 0..Len(log)
      /\ Held \cap given = {} /\ KeepsEvents
  BY HeldLemma DEF BufferInv, CallInv, KeepsEvents, TypeOK, Numbers
<1>2. StopsOnly(steps) \/ Call => StopsOnly(steps')
  BY <1>1, StepsNext
<1>3. ASSUME NEW messages, Speaks(messages) PROVE MarkInv'
  <2>1. /\ \A i \in Numbers : log'[i] = log[i]
        /\ Held' = Held \cup ((Len(log) + 1)..Len(log'))
        /\ UNCHANGED <<mark, steps>>
    BY <1>1, <1>3, SpeaksGrows, SpeaksKeeps DEF Speaks, client
  <2>2. \A n \in (Len(log) + 1)..Len(log') : n > mark
    BY <1>1
  <2>3. QED
    BY <1>1, <2>1, <2>2 DEF MarkInv
<1>4. ASSUME Call, NEW gives, NEW drops, Moves(gives, drops) PROVE MarkInv'
  <2>1. Unread \ given = Held
    BY <1>1
  <2>2. Held' \subseteq Held /\ UNCHANGED log
    BY <1>4 DEF Moves
  <2>3. mark' = IF Stops(Held) = {} THEN Len(log) ELSE 0
    BY <1>4, <2>1 DEF Call
  <2>4. mark' > 0 => \A n \in Held : log[n].name # "stopped"
    BY <2>3 DEF Stops
  <2>5. QED
    BY <1>2, <1>4, <2>2, <2>4 DEF MarkInv
<1>5. ASSUME ClientStep, NEW gives, NEW drops, Moves(gives, drops) PROVE MarkInv'
  <2>1. Held' \subseteq Held /\ UNCHANGED log
    BY <1>5 DEF Moves
  <2>2. UNCHANGED mark
    <3>1. SendRequest => UNCHANGED mark
      BY DEF SendRequest
    <3>2. ~SendRequest => UNCHANGED mark
      BY <1>1, <1>5, ClientGoes
    <3>3. QED
      BY <3>1, <3>2
  <2>3. QED
    BY <1>1, <1>2, <2>1, <2>2 DEF MarkInv
<1>6. ASSUME UNCHANGED <<log, batch, pending, wire, steps, mark>> PROVE MarkInv'
  BY <1>1, <1>6 DEF MarkInv, Held
<1>7. SessionCloses \/ UNCHANGED vars => UNCHANGED <<log, batch, pending, wire, steps, mark>>
  BY DEF SessionCloses, vars, session, client
<1>8. QED
  BY <1>3, <1>4, <1>5, <1>6, <1>7, StepKinds

\* The invariant that the properties of the calls rest on.
ClientInv == BufferInv /\ CallInv

LEMMA ClientInvariant == Spec => []ClientInv
<1>1. Init => ClientInv
  BY BufferInit, CallInit DEF ClientInv
<1>2. ClientInv /\ [Next]_vars => ClientInv'
  <2>1. SUFFICES ASSUME ClientInv, [Next]_vars PROVE ClientInv'
    OBVIOUS
  <2>2. TypeOK /\ Ordered /\ BufferInv /\ CallInv
    BY <2>1 DEF ClientInv, BufferInv
  <2>3. BufferInv' /\ MarkInv' /\ LastSent(steps', asked') /\ SentBefore(steps', asked')
    BY <2>1, <2>2, BufferNext, MarkNext, StepsNext
  <2>4. QED
    BY <2>3 DEF ClientInv, CallInv
<1>3. QED
  BY <1>1, <1>2, PTL DEF Spec

-----------------------------------------------------------------------------
(* What a call returns *)

\* What is given to a caller that does not drain is what its step waits for.
LEMMA GivenIsWanted ==
  ASSUME ClientInv, Next, NEW n \in given' \ given, ~Doing({"drain"})
  PROVE  n \in Numbers /\ Wanted(log[n]) /\ steps # <<>>
<1>1. TypeOK /\ SessionInv /\ Ordered /\ CallInv
  BY DEF ClientInv, BufferInv
<1>2. CASE TakeBuffered
  <2>1. given' = given \cup {pending[Min(Buffered)]} /\ Waiting /\ Buffered # {}
    BY <1>2 DEF TakeBuffered, Give
  <2>2. QED
    BY <1>1, <2>1, BufferedLemma DEF Waiting, Doing
<1>3. CASE ReadWire
  <2>1. /\ Head(wire) \in Numbers
        /\ \/ Wanted(log[Head(wire)]) /\ Give(Head(wire)) /\ Moves({Head(wire)}, {})
           \/ UNCHANGED <<given, steps, outcome, capabilities>>
    BY <1>1, <1>3, ReadWireMoves
  <2>2. n = Head(wire) /\ Wanted(log[Head(wire)])
    BY <2>1 DEF Give
  <2>3. QED
    BY <1>3, <2>1, <2>2 DEF ReadWire, Waiting, Doing
<1>4. DrainEnds => Doing({"drain"})
  BY DEF DrainEnds
<1>5. SendRequest \/ TimeOut \/ ChannelEnds \/ DrainReads \/ Call => UNCHANGED given
  BY DEF SendRequest, TimeOut, ChannelEnds, Fail, DrainReads, Call
<1>6. SessionStep => UNCHANGED given
  BY DEF SessionStep, Replay, AdapterTakes, DebuggeeStops, DebuggeeExits, EditorResumes, SessionCloses, client
<1>7. QED
  BY <1>2, <1>3, <1>4, <1>5, <1>6 DEF Next, ClientStep

LEMMA MaxLemma ==
  ASSUME NEW S \in SUBSET Nat, NEW m \in S, \A n \in S : n <= m
  PROVE  Max(S) = m
<1>1. \E x \in S : \A y \in S : x >= y
  OBVIOUS
<1>2. Max(S) \in S /\ \A y \in S : Max(S) >= y
  BY <1>1 DEF Max
<1>3. PICK x : x = Max(S)
  OBVIOUS
<1>4. x \in Nat /\ m \in Nat /\ x >= m /\ x <= m
  BY <1>2, <1>3
<1>5. x = m
  BY <1>4
<1>6. QED
  BY <1>3, <1>5

\* What the log says of a message that answers a request.
LEMMA AnswerLemma ==
  ASSUME TypeOK, SessionInv, NEW n \in Numbers, log[n].kind = "response"
  PROVE  IF log[n].seq = 0 THEN log[n].name = "initialize"
         ELSE log[n].seq \in 1..Len(asked) /\ log[n].name = asked[log[n].seq]
<1>1. log[n] \in Answers
  BY ElementOfSeq DEF SessionInv, Numbers
<1>2. QED
  BY <1>1 DEF Answers

\* The first step of a call that waits for an answer, and the requests so far.
LEMMA FirstStep ==
  ASSUME ClientInv, steps # <<>>
  PROVE  /\ Head(steps).do \in {"sweep", "answer", "seq"} =>
              asked # <<>> /\ asked[Len(asked)] = Head(steps).name
         /\ Head(steps).do = "named" =>
              /\ Head(steps).name # "initialize"
              /\ \A i, j \in 1..Len(asked) : asked[i] = asked[j] => i = j
<1>1. PICK s : s = steps
  OBVIOUS
<1>2. s \in Seq(StepRecords) /\ s # <<>> /\ LastSent(s, asked) /\ SentBefore(s, asked)
  BY <1>1 DEF ClientInv, BufferInv, CallInv, TypeOK
<1>3. 1 \in 1..Len(s) /\ Head(s) = s[1] /\ 1..(1-1) = {}
  BY <1>2, TailSteps
<1>4. s[1].do \in {"sweep", "answer", "seq"} => asked # <<>> /\ asked[Len(asked)] = s[1].name
  BY <1>2, <1>3 DEF LastSent
<1>5. s[1].do = "named" => SentOnce(s) /\ \A i, j \in 1..Len(asked) : asked[i] = asked[j] => i = j
  BY <1>2, <1>3 DEF SentBefore
<1>6. s[1].do = "named" /\ SentOnce(s) => s[1].name # "initialize"
  BY <1>3 DEF SentOnce
<1>7. QED
  BY <1>1, <1>3, <1>4, <1>5, <1>6

\* A call is given the answer to the latest request of its command and to no other, a
\* late answer and the replayed initialize among them (AnswerIsOwn: control_client.rs,
\* response_matches_seq and response_matches_command).
THEOREM CallsGetOwnAnswer == Spec => AnswerIsOwn
<1> DEFINE Own(n) == /\ log[n].kind = "response" /\ log[n].name = Head(steps).name
                     /\ log[n].seq = Max({i \in DOMAIN asked : asked[i] = Head(steps).name})
<1>1. ASSUME ClientInv, Next, NEW n \in given' \ given, Doing({"sweep", "answer", "seq", "named"})
      PROVE  Own(n)
  <2>1. TypeOK /\ SessionInv /\ asked \in Seq(Commands)
    BY <1>1 DEF ClientInv, BufferInv, TypeOK
  <2>2. n \in Numbers /\ Wanted(log[n]) /\ steps # <<>>
    BY <1>1, GivenIsWanted DEF Doing
  <2>3. PICK l, c, s : l = Len(asked) /\ c = Head(steps).name /\ s = log[n].seq
    OBVIOUS
  <2>4. l \in Nat /\ DOMAIN asked = 1..l
    BY <2>1, <2>3, LenProperties
  <2>5. log[n].kind = "response"
    BY <1>1, <2>2 DEF Wanted, Doing
  <2>6. IF s = 0 THEN log[n].name = "initialize" ELSE s \in 1..l /\ log[n].name = asked[s]
    BY <2>1, <2>2, <2>3, <2>5, AnswerLemma
  <2>7. CASE Head(steps).do \in {"sweep", "answer", "seq"}
    <3>1. s = l
      BY <2>2, <2>3, <2>7 DEF Wanted
    <3>2. asked # <<>> /\ asked[l] = c
      BY <1>1, <2>2, <2>3, <2>7, FirstStep
    <3>3. l # 0
      BY <2>1, <2>3, <3>2, EmptySeq
    <3>4. log[n].name = c
      BY <2>6, <3>1, <3>2, <3>3
    <3>5. l \in {i \in 1..l : asked[i] = c} /\ \A i \in {i \in 1..l : asked[i] = c} : i <= l
      BY <2>4, <3>2, <3>3
    <3>6. Max({i \in 1..l : asked[i] = c}) = l
      BY <2>4, <3>5, MaxLemma
    <3>7. QED
      BY <2>3, <2>4, <2>5, <3>1, <3>4, <3>6
  <2>8. CASE Head(steps).do = "named"
    <3>1. log[n].name = c
      BY <2>2, <2>3, <2>8 DEF Wanted
    <3>2. c # "initialize" /\ \A i, j \in 1..l : asked[i] = asked[j] => i = j
      BY <1>1, <2>2, <2>3, <2>8, FirstStep
    <3>3. s \in 1..l /\ asked[s] = c
      BY <2>6, <3>1, <3>2
    <3>4. s \in {i \in 1..l : asked[i] = c} /\ \A i \in {i \in 1..l : asked[i] = c} : i <= s
      <4>1. \A i \in {i \in 1..l : asked[i] = c} : i = s
        BY <3>2, <3>3
      <4>2. QED
        BY <2>4, <3>3, <4>1
    <3>5. Max({i \in 1..l : asked[i] = c}) = s
      BY <2>4, <3>4, MaxLemma
    <3>6. QED
      BY <2>3, <2>4, <2>5, <3>1, <3>5
  <2>9. QED
    BY <1>1, <2>7, <2>8 DEF Doing
<1>2. ClientInv /\ [Next]_vars =>
        [\A n \in given' \ given : Doing({"sweep", "answer", "seq", "named"}) =>
           /\ log[n].kind = "response" /\ log[n].name = Head(steps).name
           /\ log[n].seq = Max({i \in DOMAIN asked : asked[i] = Head(steps).name})]_vars
  BY <1>1
<1>3. QED
  BY <1>2, ClientInvariant, PTL DEF Spec, AnswerIsOwn

\* A navigation that was called with no stop unread returns a stop of a later moment
\* (NavigateReturnsLaterStop: navigation.rs and control_client.rs, wait_for_event).
THEOREM NavigateReturnsLater == Spec => NavigateReturnsLaterStop
<1>1. ASSUME ClientInv, Next, Doing({"event"}), steps' = <<>>, outcome' = "ok"
      PROVE  Returned > mark
  <2>1. TypeOK /\ SessionInv /\ Ordered /\ MarkInv /\ Numbers \subseteq Nat /\ mark \in Nat
    BY <1>1, HeldLemma DEF ClientInv, BufferInv, CallInv, TypeOK
  <2>2. steps # <<>> /\ Head(steps).do = "event"
    BY <1>1 DEF Doing
  <2>3. TakeBuffered \/ ReadWire
    <3>1. ~(UNCHANGED steps)
      BY <1>1, <2>2
    <3>2. SessionStep => UNCHANGED steps
      BY DEF SessionStep, Replay, AdapterTakes, DebuggeeStops, DebuggeeExits, EditorResumes,
             SessionCloses, client
    <3>3. ~Call /\ ~SendRequest /\ ~DrainReads /\ ~DrainEnds
      BY <2>2 DEF Call, SendRequest, DrainReads, DrainEnds, Doing
    <3>4. ~TimeOut /\ ~ChannelEnds
      BY <1>1 DEF TimeOut, ChannelEnds, Fail
    <3>5. QED
      BY <1>1, <3>1, <3>2, <3>3, <3>4 DEF Next, ClientStep
  <2>4. /\ Returned \in Numbers /\ Returned \in Held /\ Wanted(log[Returned])
    <3>1. CASE TakeBuffered
      <4>1. Waiting /\ Buffered # {}
        BY <3>1 DEF TakeBuffered
      <4>2. /\ Returned = pending[Min(Buffered)] /\ Min(Buffered) \in 1..Len(pending)
            /\ Returned \in Numbers /\ Wanted(log[Returned])
        BY <2>1, <4>1, BufferedLemma DEF Returned
      <4>3. Returned \in Held
        BY <2>1, <4>2, HeldLemma, ElementsLemma DEF Held
      <4>4. QED
        BY <4>2, <4>3
    <3>2. CASE ReadWire
      <4>1. Buffered = {} /\ wire # <<>>
        BY <3>2 DEF ReadWire
      <4>2. Returned = Head(wire)
        BY <4>1 DEF Returned
      <4>3. Returned \in Numbers /\ Wanted(log[Returned])
        BY <1>1, <2>1, <2>2, <3>2, <4>2, ReadWireMoves
      <4>4. Returned \in Held
        BY <2>1, <4>1, <4>2, HeldLemma, NumbersTail DEF Held
      <4>5. QED
        BY <4>3, <4>4
    <3>3. QED
      BY <2>3, <3>1, <3>2
  <2>5. log[Returned].name = Head(steps).name
    BY <2>2, <2>4 DEF Wanted
  <2>6. mark > 0 => Head(steps).name = "stopped"
    <3>1. HAVE mark > 0
    <3>2. StopsOnly(steps) /\ steps \in Seq(StepRecords)
      BY <2>1, <3>1 DEF MarkInv, TypeOK
    <3>3. 1 \in 1..Len(steps) /\ Head(steps) = steps[1]
      BY <2>2, <3>2, TailSteps
    <3>4. QED
      BY <2>2, <3>2, <3>3 DEF StopsOnly
  <2>7. mark > 0 => Returned > mark
    BY <2>1, <2>4, <2>5, <2>6 DEF MarkInv
  <2>8. Returned > 0
    BY <2>4, HeldLemma, <2>1 DEF Numbers
  <2>9. QED
    BY <2>1, <2>4, <2>7, <2>8
<1>2. ClientInv /\ [Next]_vars =>
        [Doing({"event"}) /\ steps' = <<>> /\ outcome' = "ok" => Returned > mark]_vars
  BY <1>1
<1>3. QED
  BY <1>2, ClientInvariant, PTL DEF Spec, NavigateReturnsLaterStop

\* When the newest event that tells the state was unread, probe_status reports it
\* (ProbeReportsNewest: execution_state.rs, apply_message).
THEOREM ProbeFindsNewest == Spec => ProbeReportsNewest
<1>1. ASSUME ClientInv, DrainEnds, Head(steps).name \in {"probe", "again"}, NEW n \in ToSet(batch),
             Tells(n), \A k \in Numbers : Tells(k) => k <= n
      PROVE  status' = StatusOf(log[n].name)
  <2>1. status' = Track(batch)
    BY <1>1 DEF DrainEnds, Absorb, Probe, DrainReturns
  <2>2. PICK b : b = batch
    OBVIOUS
  <2>3. /\ b \in Seq(Nat) /\ Sorted(b) /\ ToSet(b) \subseteq Numbers /\ Len(b) \in Nat
        /\ DOMAIN b = 1..Len(b)
    BY <2>2, HeldLemma, <1>1, ElementsLemma, LenProperties DEF ClientInv, BufferInv, Ordered, Held
  <2>4. PICK p \in 1..Len(b) : n = b[p]
    BY <1>1, <2>2, <2>3, ElementsLemma
  <2>5. PICK telling : telling = {i \in DOMAIN b : Tells(b[i])}
    OBVIOUS
  <2>6. p \in telling /\ telling \in SUBSET Nat
    BY <1>1, <2>3, <2>4, <2>5
  <2>7. ASSUME NEW i \in telling PROVE i <= p
    <3>1. i \in 1..Len(b) /\ Tells(b[i])
      BY <2>3, <2>5, <2>7
    <3>2. b[i] \in Numbers /\ b[i] \in Nat /\ b[p] \in Nat
      BY <2>3, <2>4, <3>1, ElementsLemma
    <3>3. b[i] <= b[p]
      BY <1>1, <2>4, <3>1, <3>2
    <3>4. p < i => b[p] < b[i]
      BY <2>3, <2>4, <3>1 DEF Sorted
    <3>5. QED
      BY <2>4, <3>1, <3>2, <3>3, <3>4
  <2>8. Max(telling) = p
    BY <2>6, <2>7, MaxLemma
  <2>9. Track(b) = StatusOf(log[b[Max(telling)]].name)
    BY <2>5, <2>6 DEF Track
  <2>10. QED
    BY <2>1, <2>2, <2>4, <2>8, <2>9
<1>2. ClientInv /\ [Next]_vars =>
        [(DrainEnds /\ Head(steps).name \in {"probe", "again"}) =>
           \A n \in ToSet(batch) :
             (Tells(n) /\ \A k \in Numbers : Tells(k) => k <= n) => status' = StatusOf(log[n].name)]_vars
  BY <1>1
<1>3. QED
  BY <1>2, ClientInvariant, PTL DEF Spec, ProbeReportsNewest

-----------------------------------------------------------------------------
(* The first initialisation *)

\* The steps of run_session_init.
Answering(c) == [do |-> "answer", name |-> c]
Numbered(c) == [do |-> "seq", name |-> c]
Named(c) == [do |-> "named", name |-> c]
Arrival == [do |-> "arrival", name |-> "initialized"]
Awaiting(e) == [do |-> "event", name |-> e]

\* Those that wait for initialized, and the requests an adapter may send it for.
Awaits(step) == step \in {Arrival, Awaiting("initialized")}
Prompts == {Send("initialize"), Send("launch"), Send("attach")}

\* What one step of a list says of the plugin and of its place in the list.
Placed(p, s, i) ==
  /\ s[i].do \in {"send", "answer", "seq", "named"} \/ s[i] \in {Arrival, Awaiting("initialized"), Awaiting("stopped")}
  /\ s[i] = Awaiting("stopped") <=> i = Len(s)
  /\ s[i] = Answering("initialize") => i <= 2
  /\ s[i] = Send("initialize") => i = 1 /\ s[2] = Answering("initialize")
  /\ s[i] = Arrival => InitSteps(p) # <<>>
  /\ s[i] \in {Answering("launch"), Answering("attach"), Awaiting("initialized")} => InitSteps(p) = <<>>
  /\ s[i].do = "answer" /\ i > 1 => s[i-1] = Send(s[i].name)

\* What a step says of a later one.
Before(a, b) ==
  /\ b = Arrival => a.do = "send" \/ a = Answering("initialize")
  /\ Awaits(a) => ~Awaits(b) /\ b \notin Prompts

\* What is left of the initialisation of plugin p.
StartList(p, s) ==
  /\ \A i \in 1..Len(s) : Placed(p, s, i)
  /\ \A i, j \in 1..Len(s) : i < j => Before(s[i], s[j])

\* The list that plugin p begins with: it sends initialize first, a request that an adapter
\* may send initialized for, and configurationDone.
Begins(p, s) ==
  /\ StartList(p, s) /\ Len(s) \in Nat \ {0} /\ s[1] = Send("initialize")
  /\ \E i \in 1..Len(s) : s[i] \in {Send("launch"), Send("attach")}
  /\ \E i \in 1..Len(s) : s[i] = Send("configurationDone")

\* The init sequences of the manifests and the default one, step by step.
LEMMA SessionBegins ==
  ASSUME NEW p PROVE Begins(p, SessionInit(p))
<1> DEFINE Opening == <<Send("initialize"), Answering("initialize")>>
<1>1. None \notin {"launch", "attach", "setBreakpoints", "configurationDone", "initialized"}
  BY NoneAssumption, HandshakeNames DEF EventNames, Commands, FrameRequests
<1>2. PICK s : s = SessionInit(p)
  OBVIOUS
<1>3. CASE p = "python"
  <2>1. InitSteps(p) =
           <<Send("launch"), Arrival>> \o <<>> \o (<<Send("setBreakpoints"), Answering("setBreakpoints")>> \o <<>>)
           \o (<<Send("configurationDone"), Answering("configurationDone")>> \o <<>>) \o <<Named("launch")>>
    BY <1>1, <1>3, SMTT(60) DEF InitSteps, InitStep, SendAndAwait, AskAndKeep, Step, Arrival, Answering, Named, Numbered
  <2>2. InitSteps(p) # <<>>
    BY <2>1
  <2>3. s = Opening \o InitSteps(p) \o <<Awaiting("stopped")>>
    BY <1>2, <2>2, Zenon DEF SessionInit, AskAndKeep, Step, Answering, Awaiting
  <2>4. s = Opening
         \o (<<Send("launch"), Arrival>> \o <<>> \o (<<Send("setBreakpoints"), Answering("setBreakpoints")>> \o <<>>)
           \o (<<Send("configurationDone"), Answering("configurationDone")>> \o <<>>) \o <<Named("launch")>>)
         \o <<Awaiting("stopped")>>
    BY <2>1, <2>3
  <2>5. /\ Len(s) = 10 /\ s[1] = Send("initialize") /\ s[2] = Answering("initialize")
         /\ s[3] = Send("launch") /\ s[4] = Arrival /\ s[5] = Send("setBreakpoints")
         /\ s[6] = Answering("setBreakpoints") /\ s[7] = Send("configurationDone")
         /\ s[8] = Answering("configurationDone") /\ s[9] = Named("launch")
         /\ s[10] = Awaiting("stopped")
    BY <2>4, SMTT(60)
  <2>6. \A i \in 1..10 : Placed(p, s, i)
    BY <2>2, <2>5, SMTT(60) DEF Placed, Send, Answering, Named, Numbered, Arrival, Awaiting
  <2>7. \A i, j \in 1..10 : i < j => Before(s[i], s[j])
    BY <2>5, SMTT(60) DEF Before, Awaits, Prompts, Send, Answering, Named, Numbered, Arrival, Awaiting
  <2>8. 3 \in 1..10 /\ s[3] \in {Send("launch"), Send("attach")} /\ 7 \in 1..10 /\ s[7] = Send("configurationDone")
    BY <2>5
  <2>9. QED
    BY <1>2, <2>5, <2>6, <2>7, <2>8 DEF StartList, Begins
<1>4. CASE p = "gdb-remote"
  <2>1. InitSteps(p) =
           <<Send("attach"), Arrival>> \o <<>> \o (<<Send("configurationDone"), Answering("configurationDone")>> \o <<>>)
    BY <1>1, <1>4, SMTT(60) DEF InitSteps, InitStep, SendAndAwait, AskAndKeep, Step, Arrival, Answering, Named, Numbered
  <2>2. InitSteps(p) # <<>>
    BY <2>1
  <2>3. s = Opening \o InitSteps(p) \o <<Awaiting("stopped")>>
    BY <1>2, <2>2, Zenon DEF SessionInit, AskAndKeep, Step, Answering, Awaiting
  <2>4. s = Opening
         \o (<<Send("attach"), Arrival>> \o <<>> \o (<<Send("configurationDone"), Answering("configurationDone")>> \o <<>>))
         \o <<Awaiting("stopped")>>
    BY <2>1, <2>3
  <2>5. /\ Len(s) = 7 /\ s[1] = Send("initialize") /\ s[2] = Answering("initialize")
         /\ s[3] = Send("attach") /\ s[4] = Arrival /\ s[5] = Send("configurationDone")
         /\ s[6] = Answering("configurationDone") /\ s[7] = Awaiting("stopped")
    BY <2>4, SMTT(60)
  <2>6. \A i \in 1..7 : Placed(p, s, i)
    BY <2>2, <2>5, SMTT(60) DEF Placed, Send, Answering, Named, Numbered, Arrival, Awaiting
  <2>7. \A i, j \in 1..7 : i < j => Before(s[i], s[j])
    BY <2>5, SMTT(60) DEF Before, Awaits, Prompts, Send, Answering, Named, Numbered, Arrival, Awaiting
  <2>8. 3 \in 1..7 /\ s[3] \in {Send("launch"), Send("attach")} /\ 5 \in 1..7 /\ s[5] = Send("configurationDone")
    BY <2>5
  <2>9. QED
    BY <1>2, <2>5, <2>6, <2>7, <2>8 DEF StartList, Begins
<1>5. CASE p = "user-launch"
  <2>1. InitSteps(p) =
           <<Send("launch"), Arrival>> \o <<>>
           \o (<<Send("configurationDone"), Answering("configurationDone")>> \o <<Named("launch")>>)
    BY <1>1, <1>5, SMTT(60) DEF InitSteps, InitStep, SendAndAwait, AskAndKeep, Step, Arrival, Answering, Named, Numbered
  <2>2. InitSteps(p) # <<>>
    BY <2>1
  <2>3. s = Opening \o InitSteps(p) \o <<Awaiting("stopped")>>
    BY <1>2, <2>2, Zenon DEF SessionInit, AskAndKeep, Step, Answering, Awaiting
  <2>4. s = Opening
         \o (<<Send("launch"), Arrival>> \o <<>>
           \o (<<Send("configurationDone"), Answering("configurationDone")>> \o <<Named("launch")>>))
         \o <<Awaiting("stopped")>>
    BY <2>1, <2>3
  <2>5. /\ Len(s) = 8 /\ s[1] = Send("initialize") /\ s[2] = Answering("initialize")
         /\ s[3] = Send("launch") /\ s[4] = Arrival /\ s[5] = Send("configurationDone")
         /\ s[6] = Answering("configurationDone") /\ s[7] = Named("launch")
         /\ s[8] = Awaiting("stopped")
    BY <2>4, SMTT(60)
  <2>6. \A i \in 1..8 : Placed(p, s, i)
    BY <2>2, <2>5, SMTT(60) DEF Placed, Send, Answering, Named, Numbered, Arrival, Awaiting
  <2>7. \A i, j \in 1..8 : i < j => Before(s[i], s[j])
    BY <2>5, SMTT(60) DEF Before, Awaits, Prompts, Send, Answering, Named, Numbered, Arrival, Awaiting
  <2>8. 3 \in 1..8 /\ s[3] \in {Send("launch"), Send("attach")} /\ 5 \in 1..8 /\ s[5] = Send("configurationDone")
    BY <2>5
  <2>9. QED
    BY <1>2, <2>5, <2>6, <2>7, <2>8 DEF StartList, Begins
<1>6. CASE p = "user-attach"
  <2>1. InitSteps(p) =
           <<Send("attach"), Arrival>> \o <<Numbered("attach")>>
           \o (<<Send("configurationDone"), Answering("configurationDone")>> \o <<>>)
    BY <1>1, <1>6, SMTT(60) DEF InitSteps, InitStep, SendAndAwait, AskAndKeep, Step, Arrival, Answering, Named, Numbered
  <2>2. InitSteps(p) # <<>>
    BY <2>1
  <2>3. s = Opening \o InitSteps(p) \o <<Awaiting("stopped")>>
    BY <1>2, <2>2, Zenon DEF SessionInit, AskAndKeep, Step, Answering, Awaiting
  <2>4. s = Opening
         \o (<<Send("attach"), Arrival>> \o <<Numbered("attach")>>
           \o (<<Send("configurationDone"), Answering("configurationDone")>> \o <<>>))
         \o <<Awaiting("stopped")>>
    BY <2>1, <2>3
  <2>5. /\ Len(s) = 8 /\ s[1] = Send("initialize") /\ s[2] = Answering("initialize")
         /\ s[3] = Send("attach") /\ s[4] = Arrival /\ s[5] = Numbered("attach")
         /\ s[6] = Send("configurationDone") /\ s[7] = Answering("configurationDone")
         /\ s[8] = Awaiting("stopped")
    BY <2>4, SMTT(60)
  <2>6. \A i \in 1..8 : Placed(p, s, i)
    BY <2>2, <2>5, SMTT(60) DEF Placed, Send, Answering, Named, Numbered, Arrival, Awaiting
  <2>7. \A i, j \in 1..8 : i < j => Before(s[i], s[j])
    BY <2>5, SMTT(60) DEF Before, Awaits, Prompts, Send, Answering, Named, Numbered, Arrival, Awaiting
  <2>8. 3 \in 1..8 /\ s[3] \in {Send("launch"), Send("attach")} /\ 6 \in 1..8 /\ s[6] = Send("configurationDone")
    BY <2>5
  <2>9. QED
    BY <1>2, <2>5, <2>6, <2>7, <2>8 DEF StartList, Begins
<1>7. CASE p \notin {"python", "gdb-remote", "user-launch", "user-attach"}
  <2>1. InitSteps(p) = <<>>
    BY <1>7 DEF InitSteps
  <2>2. DefaultSequence = <<Send("launch"), Answering("launch")>> \o <<Awaiting("initialized")>>
                             \o <<Send("configurationDone"), Answering("configurationDone")>>
    BY Zenon DEF DefaultSequence, AskAndKeep, Step, Answering, Awaiting
  <2>3. s = Opening \o DefaultSequence \o <<Awaiting("stopped")>>
    BY <1>2, <2>1, Zenon DEF SessionInit, AskAndKeep, Step, Answering, Awaiting
  <2>4. s = Opening
         \o (<<Send("launch"), Answering("launch")>> \o <<Awaiting("initialized")>>
               \o <<Send("configurationDone"), Answering("configurationDone")>>)
         \o <<Awaiting("stopped")>>
    BY <2>2, <2>3
  <2>5. /\ Len(s) = 8 /\ s[1] = Send("initialize") /\ s[2] = Answering("initialize")
         /\ s[3] = Send("launch") /\ s[4] = Answering("launch")
         /\ s[5] = Awaiting("initialized") /\ s[6] = Send("configurationDone")
         /\ s[7] = Answering("configurationDone") /\ s[8] = Awaiting("stopped")
    BY <2>4, SMTT(60)
  <2>6. \A i \in 1..8 : Placed(p, s, i)
    BY <2>1, <2>5, SMTT(60) DEF Placed, Send, Answering, Named, Numbered, Arrival, Awaiting
  <2>7. \A i, j \in 1..8 : i < j => Before(s[i], s[j])
    BY <2>5, SMTT(60) DEF Before, Awaits, Prompts, Send, Answering, Named, Numbered, Arrival, Awaiting
  <2>8. 3 \in 1..8 /\ s[3] \in {Send("launch"), Send("attach")} /\ 6 \in 1..8 /\ s[6] = Send("configurationDone")
    BY <2>5
  <2>9. QED
    BY <1>2, <2>5, <2>6, <2>7, <2>8 DEF StartList, Begins
<1>8. QED
  BY <1>3, <1>4, <1>5, <1>6, <1>7

Remains(x) == \E i \in 1..Len(steps) : steps[i] = x

\* What is left of the initialisation after a step.
LEMMA BeginsTail ==
  ASSUME TypeOK, steps # <<>>, StartList(plugin, steps), steps' = Tail(steps), UNCHANGED plugin
  PROVE  /\ StartList(plugin, steps)'
         /\ \A x : Remains(x) => Head(steps) = x \/ Remains(x)'
         /\ \A x : Remains(x)' => Remains(x) /\ Before(Head(steps), x)
         /\ steps' = <<>> <=> Head(steps) = Awaiting("stopped")
         /\ steps' # <<>> =>
              /\ Head(steps').do = "answer" => Head(steps) = Send(Head(steps').name)
              /\ Head(steps') # Send("initialize")
<1>1. PICK s, t : s = steps /\ t = Tail(steps)
  OBVIOUS
<1>2. s \in Seq(StepRecords) /\ s # <<>> /\ StartList(plugin, s) /\ t \in Seq(StepRecords)
  BY <1>1, HeadStep DEF TypeOK
<1>3. PICK k \in Nat \ {0} :
        /\ Len(s) = k /\ Len(t) = k - 1 /\ Head(s) = s[1]
        /\ \A i \in 1..(k - 1) : i + 1 \in 1..k /\ t[i] = s[i+1]
  BY <1>1, <1>2, TailSteps
<1>4. steps' = t /\ plugin' = plugin /\ 1 \in 1..k
  BY <1>1, <1>3
<1>5. /\ \A i \in 1..k : Placed(plugin, s, i)
      /\ \A i, j \in 1..k : i < j => Before(s[i], s[j])
  BY <1>2, <1>3 DEF StartList
<1>6. \A i \in 1..(k - 1) : Placed(plugin, t, i)
  <2>1. TAKE i \in 1..(k - 1)
  <2>2. PICK j : j = i + 1
    OBVIOUS
  <2>3. /\ j \in 2..k /\ t[i] = s[j] /\ Placed(plugin, s, j) /\ (j = k <=> i = k - 1) /\ (j <= 2 => i <= 2)
        /\ j # 1 /\ (i > 1 => j > 1 /\ i - 1 \in 1..(k - 1) /\ t[i-1] = s[j-1])
    <3>1. i > 1 => i - 1 \in 1..(k - 1) /\ (i - 1) + 1 = j - 1
      BY <1>3, <2>2
    <3>2. i > 1 => t[i-1] = s[j-1]
      BY <1>3, <3>1
    <3>3. QED
      BY <1>3, <1>5, <2>2, <3>1, <3>2
  <2>4. QED
    BY <1>3, <2>3, SMTT(40) DEF Placed
<1>7. \A i, j \in 1..(k - 1) : i < j => Before(t[i], t[j])
  <2>1. TAKE i, j \in 1..(k - 1)
  <2>2. i + 1 \in 1..k /\ j + 1 \in 1..k /\ (i < j => i + 1 < j + 1) /\ t[i] = s[i+1] /\ t[j] = s[j+1]
    BY <1>3
  <2>3. QED
    BY <1>5, <2>2
<1>8. StartList(plugin, t)
  BY <1>3, <1>6, <1>7 DEF StartList
<1>9. ASSUME NEW x, NEW i \in 1..k, s[i] = x PROVE s[1] = x \/ \E j \in 1..(k - 1) : t[j] = x
  <2>1. i = 1 \/ (i - 1 \in 1..(k - 1) /\ (i - 1) + 1 = i)
    BY <1>3
  <2>2. QED
    BY <1>3, <1>9, <2>1
<1>10. ASSUME NEW x, NEW j \in 1..(k - 1), t[j] = x PROVE Before(s[1], x) /\ \E i \in 1..k : s[i] = x
  <2>1. j + 1 \in 1..k /\ 1 < j + 1 /\ s[j+1] = x
    BY <1>3, <1>10
  <2>2. QED
    BY <1>4, <1>5, <2>1
<1>11. t = <<>> <=> s[1] = Awaiting("stopped")
  <2>1. t = <<>> <=> k = 1
    BY <1>2, <1>3, EmptySeq
  <2>2. QED
    BY <1>3, <1>4, <1>5, <2>1 DEF Placed
<1>12. t # <<>> => /\ Head(t).do = "answer" => s[1] = Send(Head(t).name)
                   /\ Head(t) # Send("initialize")
  <2>1. HAVE t # <<>>
  <2>2. k - 1 # 0
    BY <1>2, <1>3, <2>1, EmptySeq
  <2>3. 2 \in 1..k /\ 1 \in 1..(k - 1) /\ t[1] = s[2]
    BY <1>3, <2>2
  <2>4. Head(t) = s[2]
    BY <1>2, <2>1, <2>3, HeadTailProperties
  <2>5. Placed(plugin, s, 2) /\ 2 > 1 /\ 2 - 1 = 1
    BY <1>5, <2>3
  <2>6. QED
    BY <2>4, <2>5 DEF Placed
<1>13. QED
  BY <1>1, <1>3, <1>4, <1>8, <1>9, <1>10, <1>11, <1>12 DEF Remains

\* The first of the steps that are left, and the others.
LEMMA BeginsHead ==
  ASSUME TypeOK, steps # <<>>, StartList(plugin, steps)
  PROVE  /\ Head(steps).do \in {"send", "answer", "arrival", "event", "seq", "named"}
         /\ Head(steps).do = "arrival" => Head(steps) = Arrival
         /\ Head(steps).do = "event" => Head(steps) \in {Awaiting("initialized"), Awaiting("stopped")}
         /\ Head(steps).do = "send" => Head(steps) = Send(Head(steps).name)
         /\ Head(steps).do = "answer" => Head(steps) = Answering(Head(steps).name)
         /\ Head(steps) = Arrival => InitSteps(plugin) # <<>>
         /\ Head(steps) \in {Answering("launch"), Answering("attach"), Awaiting("initialized")}
              => InitSteps(plugin) = <<>>
         /\ Remains(Head(steps)) /\ \A x : Remains(x) => x = Head(steps) \/ Before(Head(steps), x)
         /\ Head(steps) = Awaiting("stopped") => \A x : Remains(x) => x = Head(steps)
<1>1. PICK s : s = steps
  OBVIOUS
<1>2. s \in Seq(StepRecords) /\ s # <<>> /\ StartList(plugin, s)
  BY <1>1 DEF TypeOK
<1>3. PICK k \in Nat \ {0} : Len(s) = k /\ Head(s) = s[1]
  BY <1>2, TailSteps
<1>4. /\ \A i \in 1..k : Placed(plugin, s, i)
      /\ \A i, j \in 1..k : i < j => Before(s[i], s[j])
  BY <1>2, <1>3 DEF StartList
<1>5. 1 \in 1..k /\ Placed(plugin, s, 1) /\ s[1] \in StepRecords
  BY <1>2, <1>3, <1>4, ElementOfSeq
<1>6. \A i \in 1..k : i = 1 \/ Before(s[1], s[i])
  <2>1. \A i \in 1..k : i = 1 \/ 1 < i
    OBVIOUS
  <2>2. QED
    BY <1>4, <1>5, <2>1
<1>7. s[1] = Awaiting("stopped") => \A i \in 1..k : i = 1
  BY <1>3, <1>5 DEF Placed
<1>8. /\ s[1].do \in {"send", "answer", "arrival", "event", "seq", "named"}
      /\ s[1].do = "arrival" => s[1] = Arrival
      /\ s[1].do = "event" => s[1] \in {Awaiting("initialized"), Awaiting("stopped")}
  BY <1>5 DEF Placed, Arrival, Awaiting
<1>9. s[1] = [do |-> s[1].do, name |-> s[1].name]
  BY <1>5 DEF StepRecords
<1>10. QED
  BY <1>1, <1>3, <1>5, <1>6, <1>7, <1>8, <1>9 DEF Remains, Placed, Send, Answering

\* What the adapter has been asked for or still will be, and what the client has been sent.
Requested(c) == \E r \in ToSet(requests) : r.name = c
Prompted(c) == Remains(Send(c)) \/ Requested(c)
OnWire(m) == \E n \in ToSet(wire) : log[n] = m
Kept(m) == \E n \in ToSet(pending) \cup ToSet(wire) : log[n] = m

\* A request that the adapter sends initialized for is still to be taken.
Comes ==
  \/ announces \in {"before", "after"} /\ Prompted("initialize")
  \/ announces = "launch" /\ (Prompted("launch") \/ Prompted("attach"))

\* Until initialize is answered there is nothing else between the client and the adapter.
Fresh ==
  Head(steps) \in {Send("initialize"), Answering("initialize")} =>
    /\ debuggee = "none"
    /\ \/ Head(steps) = Send("initialize") /\ requests = <<>> /\ wire = <<>>
       \/ /\ Head(steps) = Answering("initialize") /\ wire = <<>>
          /\ requests # <<>> /\ Tail(requests) = <<>> /\ Head(requests).name = "initialize"
       \/ /\ Head(steps) = Answering("initialize") /\ requests = <<>>
          /\ announces # "before" =>
               wire # <<>> /\ log[Head(wire)] = Response([name |-> "initialize", seq |-> Len(asked)])

\* The answer that is waited for comes, unless it is deferred.
Replied ==
  Head(steps).do = "answer" =>
    LET r == [name |-> Head(steps).name, seq |-> Len(asked)] IN
    r \in ToSet(requests) \/ OnWire(Response(r)) \/ (deferred /\ r.name \in {"launch", "attach"})

\* initialized comes: over the wire for a manifest step, unless it was sent too early, and
\* in any way for the default sequence.
ArrivalDue ==
  Remains(Arrival) /\ announces # "before" => OnWire(Event("initialized")) \/ Comes
EventDue ==
  Remains(Awaiting("initialized")) => Kept(Event("initialized")) \/ Comes

\* The debuggee runs once configurationDone is taken, and a stop of it is not lost.
Configured == debuggee = "none" => Prompted("configurationDone")
StopDue == debuggee = "stopped" => Kept(Event("stopped"))

Starting ==
  /\ outcome = "working" /\ flaw = "none" /\ StartList(plugin, steps) /\ Fresh /\ Replied
  /\ ArrivalDue /\ EventDue /\ Configured /\ StopDue

\* Why an initialisation failed.
HasCause ==
  \/ slow \/ ~open \/ flaw # "none"
  \/ debuggee = "exited" \/ (debuggee = "running" /\ stops = MaxStops)
  \/ IF InitSteps(plugin) = <<>> THEN deferred ELSE announces = "before"

\* The first initialisation is under way, or ended as it may.
StartInv ==
  ~attaches /\ calls = 0 =>
    (steps # <<>> /\ flaw = "none" => Starting) /\ (outcome = "failed" => HasCause)

\* The elements of a sequence without its first, and with one more.
LEMMA ListElements ==
  ASSUME NEW S, NEW s \in Seq(S)
  PROVE  /\ s # <<>> => Head(s) \in S /\ Tail(s) \in Seq(S) /\ ToSet(s) = {Head(s)} \cup ToSet(Tail(s))
         /\ s = <<>> => ToSet(s) = {}
         /\ \A e \in S : ToSet(Append(s, e)) = ToSet(s) \cup {e}
<1>1. PICK n \in Nat : n = Len(s) /\ DOMAIN s = 1..n
  BY LenProperties
<1>2. ASSUME s # <<>>
      PROVE  Head(s) \in S /\ Tail(s) \in Seq(S) /\ ToSet(s) = {Head(s)} \cup ToSet(Tail(s))
  <2>1. PICK t : t = Tail(s)
    OBVIOUS
  <2>2. /\ n # 0 /\ Head(s) = s[1] /\ s[1] \in S /\ t \in Seq(S) /\ DOMAIN t = 1..(n - 1)
        /\ \A i \in 1..(n - 1) : i + 1 \in 1..n /\ t[i] = s[i+1]
    <3>1. n # 0
      BY <1>1, <1>2, EmptySeq
    <3>2. Head(s) = s[1] /\ t \in Seq(S) /\ Len(t) = n - 1 /\ \A i \in 1..(n - 1) : t[i] = s[i+1]
      BY <1>1, <1>2, <2>1, <3>1, HeadTailProperties
    <3>3. 1 \in 1..n /\ s[1] \in S
      BY <1>1, <3>1, ElementOfSeq
    <3>4. QED
      BY <1>1, <3>1, <3>2, <3>3, LenProperties
  <2>3. \A i \in 1..n : i = 1 \/ (i - 1 \in 1..(n - 1) /\ t[i-1] = s[i])
    BY <1>1, <2>2
  <2>4. 1 \in 1..n
    BY <1>1, <2>2
  <2>5. ToSet(s) = {s[1]} \cup ToSet(t)
    <3>1. ToSet(s) = {s[i] : i \in 1..n} /\ ToSet(t) = {t[i] : i \in 1..(n - 1)}
      BY <1>1, <2>2 DEF ToSet
    <3>2. \A i \in 1..n : s[i] = s[1] \/ s[i] \in {t[j] : j \in 1..(n - 1)}
      BY <2>3
    <3>3. \A i \in 1..(n - 1) : t[i] \in {s[j] : j \in 1..n}
      BY <2>2
    <3>4. s[1] \in {s[i] : i \in 1..n}
      BY <2>4
    <3>5. QED
      BY <3>1, <3>2, <3>3, <3>4
  <2>6. QED
    BY <2>1, <2>2, <2>5
<1>3. s = <<>> => ToSet(s) = {}
  BY DEF ToSet
<1>4. ASSUME NEW e \in S PROVE ToSet(Append(s, e)) = ToSet(s) \cup {e}
  <2>1. PICK t : t = Append(s, e)
    OBVIOUS
  <2>2. DOMAIN t = 1..(n + 1) /\ t[n+1] = e /\ \A i \in 1..n : t[i] = s[i]
    BY <1>1, <2>1, AppendProperties
  <2>3. 1..(n + 1) = (1..n) \cup {n + 1}
    BY <1>1
  <2>4. ToSet(t) = ToSet(s) \cup {e}
    BY <1>1, <2>2, <2>3 DEF ToSet
  <2>5. QED
    BY <2>1, <2>4
<1>5. QED
  BY <1>2, <1>3, <1>4

\* Whatever the session sends, the client is sent all of it, and keeps what it was sent.
LEMMA SpeechHeard ==
  ASSUME TypeOK, SessionInv, NEW messages, Speaks(messages)
  PROVE  /\ \A m : OnWire(m) => OnWire(m)'
         /\ \A m : Kept(m) => Kept(m)'
         /\ \A i \in 1..Len(messages) : OnWire(messages[i])' /\ Kept(messages[i])'
         /\ wire = <<>> /\ messages # <<>> => wire' # <<>> /\ log'[Head(wire')] = messages[1]
<1>1. PICK k \in 0..3 :
        /\ k = Len(messages) /\ Len(log') = Len(log) + k
        /\ \A i \in Numbers : log'[i] = log[i]
        /\ wire' = wire \o [i \in 1..k |-> Len(log) + i]
        /\ UNCHANGED pending
  BY SpeaksGrows
<1>2. PICK l, t : l = Len(log) /\ t = [i \in 1..k |-> l + i]
  OBVIOUS
<1>3. l \in Nat /\ wire \in Seq(Nat) /\ ToSet(wire) \subseteq Numbers /\ ToSet(pending) \subseteq Numbers
  BY <1>2, HeldLemma DEF Held
<1>4. t \in Seq(Nat) /\ Len(t) = k /\ ToSet(t) = (l + 1)..(l + k) /\ \A i \in 1..k : t[i] = l + i
  <2>1. k \in Nat /\ \A i \in 1..k : l + i \in Nat
    BY <1>3
  <2>2. t \in Seq(Nat) /\ ToSet(t) = (l + 1)..(l + k)
    BY <1>2, <1>3, <2>1, NumbersNext
  <2>3. Len(t) = k
    BY <1>2, <2>1, IsASeq
  <2>4. \A i \in 1..k : t[i] = l + i
    BY <1>2
  <2>5. QED
    BY <2>2, <2>3, <2>4
<1>5. wire' = wire \o t /\ ToSet(wire \o t) = ToSet(wire) \cup ToSet(t)
  BY <1>1, <1>2, <1>3, <1>4, NumbersConcat
<1>6. \A i \in 1..k : l + i \in ToSet(t) /\ log'[l + i] = messages[i]
  <2>1. log' = log \o messages /\ log \in Seq(Answers) /\ messages \in Seq(Answers)
    BY DEF Speaks, Emit, SessionInv
  <2>2. PICK r : r = log \o messages
    OBVIOUS
  <2>3. \A i \in 1..(l + k) : r[i] = IF i <= l THEN log[i] ELSE messages[i - l]
    BY <1>1, <1>2, <2>1, <2>2, ConcatProperties
  <2>4. \A i \in 1..k : l + i \in 1..(l + k) /\ ~(l + i <= l) /\ (l + i) - l = i /\ l + i \in (l + 1)..(l + k)
    BY <1>3
  <2>5. QED
    BY <1>4, <2>1, <2>2, <2>3, <2>4
<1>7. ASSUME wire = <<>>, messages # <<>> PROVE wire' # <<>> /\ log'[Head(wire')] = messages[1]
  <2>1. k # 0
    BY <1>1, <1>7, EmptySeq DEF Speaks
  <2>2. wire' = t
    BY <1>4, <1>5, <1>7, ConcatEmptySeq
  <2>3. 1 \in 1..k /\ t # <<>>
    BY <1>4, <2>1, EmptySeq
  <2>4. Head(t) = l + 1
    BY <1>4, <2>3, HeadTailProperties
  <2>5. QED
    BY <1>6, <2>2, <2>3, <2>4
<1>8. QED
  BY <1>1, <1>3, <1>5, <1>6, <1>7 DEF OnWire, Kept

\* What made an initialisation fail is still so after a step of the session.
LEMMA CauseRemains ==
  ASSUME TypeOK, SessionStep, ~attaches, HasCause
  PROVE  HasCause'
<1>1. /\ open \in BOOLEAN /\ debuggee \in {"none", "running", "stopped", "exited"}
      /\ stops \in 0..MaxStops /\ MaxStops \in Nat
  BY ClientAssumption DEF TypeOK
<1>2. CASE Replay \/ EditorResumes
  BY <1>2 DEF Replay, EditorResumes
<1>3. CASE AdapterTakes
  BY <1>1, <1>3 DEF AdapterTakes, Serving, Resumes, HasCause, kind, client
<1>4. CASE DebuggeeStops
  BY <1>1, <1>4 DEF DebuggeeStops, Serving, HasCause, kind, client
<1>5. CASE DebuggeeExits
  BY <1>5 DEF DebuggeeExits, HasCause
<1>6. CASE SessionCloses
  BY <1>6 DEF SessionCloses, HasCause
<1>7. QED
  BY <1>2, <1>3, <1>4, <1>5, <1>6 DEF SessionStep

\* The adapter takes a request while the client initialises.
LEMMA StartTakes ==
  ASSUME TypeOK, SessionInv, Starting, steps # <<>>, AdapterTakes
  PROVE  Starting'
<1>1. PICK r : r = Head(requests)
  OBVIOUS
<1>2. PICK messages : Speaks(messages) /\ Answered(r, messages)
  BY <1>1, AdapterSpeaks
<1>3. /\ requests # <<>> /\ requests \in Seq(Outstanding) /\ r \in Outstanding
      /\ ToSet(requests) = {r} \cup ToSet(Tail(requests)) /\ requests' = Tail(requests)
      /\ UNCHANGED <<plugin, attaches, deferred, announces, flaw, asked, steps, outcome, pending>>
      /\ debuggee' = IF Resumes(r) THEN "running" ELSE debuggee
  <2>1. requests # <<>> /\ requests \in Seq(Outstanding)
    BY AdapterSpeaks DEF AdapterTakes
  <2>2. QED
    BY <1>1, <2>1, ListElements DEF AdapterTakes, kind, client
<1>4. /\ \A m : OnWire(m) => OnWire(m)'
      /\ \A m : Kept(m) => Kept(m)'
      /\ \A m : Says(messages, m) => OnWire(m)' /\ Kept(m)'
      /\ wire = <<>> /\ messages # <<>> => wire' # <<>> /\ log'[Head(wire')] = messages[1]
  BY <1>2, SpeechHeard DEF Says
<1>5. \A c : Requested(c) => r.name = c \/ Requested(c)'
  BY <1>3 DEF Requested
<1>6. \A x : Remains(x) <=> Remains(x)'
  BY <1>3 DEF Remains
<1>7. \A c : Prompted(c) => r.name = c \/ Prompted(c)'
  BY <1>5, <1>6 DEF Prompted
<1>8. Comes => Announced(r) \/ Comes'
  BY <1>3, <1>7 DEF Comes, Announced
<1>9. Announced(r) => OnWire(Event("initialized"))' /\ Kept(Event("initialized"))'
  BY <1>2, <1>4 DEF Answered, Starting
<1>10. outcome' = "working" /\ StartList(plugin, steps)'
  BY <1>3 DEF Starting, StartList
<1>11. PICK d : d = [name |-> Head(steps).name, seq |-> Len(asked)]
  OBVIOUS
<1>12. Replied'
  <2>1. Head(steps).do = "answer" =>
          d \in ToSet(requests) \/ OnWire(Response(d)) \/ (deferred /\ d.name \in {"launch", "attach"})
    BY <1>11 DEF Starting, Replied
  <2>2. Head(steps).do = "answer" =>
          d \in ToSet(requests') \/ OnWire(Response(d))' \/ (deferred /\ d.name \in {"launch", "attach"})
    BY <1>2, <1>3, <1>4, <2>1 DEF Answered
  <2>3. d = [name |-> Head(steps').name, seq |-> Len(asked')]
    BY <1>3, <1>11
  <2>4. QED
    BY <1>3, <2>2, <2>3 DEF Replied
<1>13. Fresh'
  <2>1. SUFFICES ASSUME Head(steps) \in {Send("initialize"), Answering("initialize")} PROVE Fresh'
    BY <1>3 DEF Fresh
  <2>2. /\ debuggee = "none" /\ Head(steps) = Answering("initialize") /\ wire = <<>>
        /\ Tail(requests) = <<>> /\ r.name = "initialize"
    BY <1>1, <1>3, <2>1 DEF Starting, Fresh
  <2>3. debuggee' = "none" /\ requests' = <<>>
    BY <1>3, <2>2 DEF Resumes
  <2>4. d = r
    <3>1. Head(steps).do = "answer" /\ d.name = "initialize"
      BY <1>11, <2>2 DEF Answering
    <3>2. ~OnWire(Response(d))
      BY <2>2 DEF OnWire, ToSet
    <3>3. d \in ToSet(requests)
      BY <1>11, <3>1, <3>2 DEF Starting, Replied
    <3>4. ToSet(Tail(requests)) = {}
      BY <2>2 DEF ToSet
    <3>5. QED
      BY <1>3, <3>3, <3>4
  <2>5. announces # "before" => wire' # <<>> /\ log'[Head(wire')] = Response(d)
    BY <1>2, <1>4, <2>2, <2>4 DEF Answered
  <2>6. announces' # "before" =>
          wire' # <<>> /\ log'[Head(wire')] = Response([name |-> "initialize", seq |-> Len(asked')])
    <3>1. d = [name |-> "initialize", seq |-> Len(asked')]
      BY <1>3, <1>11, <2>2 DEF Answering
    <3>2. QED
      BY <1>3, <2>5, <3>1
  <2>7. QED
    BY <1>3, <2>2, <2>3, <2>6 DEF Fresh
<1>14. ArrivalDue'
  BY <1>3, <1>4, <1>6, <1>8, <1>9 DEF Starting, ArrivalDue
<1>15. EventDue'
  BY <1>3, <1>4, <1>6, <1>8, <1>9 DEF Starting, EventDue
<1>16. Configured'
  BY <1>3, <1>7 DEF Starting, Configured, Resumes
<1>17. StopDue'
  BY <1>3, <1>4 DEF Starting, StopDue
<1>18. flaw' = "none"
  BY <1>3 DEF Starting
<1>19. QED
  BY <1>18, <1>10, <1>12, <1>13, <1>14, <1>15, <1>16, <1>17 DEF Starting

\* The debuggee stops or exits, or the session ends, while the client initialises.
LEMMA StartHears ==
  ASSUME TypeOK, SessionInv, SessionStep, ~AdapterTakes, ~attaches, Starting, steps # <<>>
  PROVE  Starting'
<1>1. CASE SessionCloses
  BY <1>1 DEF SessionCloses, Starting, StartList, Fresh, Replied, ArrivalDue, EventDue, Configured, StopDue,
     Comes, Prompted, Requested, Remains, OnWire, Kept, kind, client
<1>2. CASE DebuggeeStops \/ DebuggeeExits
  <2>1. PICK e \in {"stopped", "exited"} :
          /\ Emit(<<Event(e)>>) /\ debuggee = "running" /\ debuggee' = e
          /\ UNCHANGED <<plugin, attaches, deferred, announces, flaw, requests, asked, steps, outcome, pending>>
    BY <1>2 DEF DebuggeeStops, DebuggeeExits, kind, client
  <2>2. PICK m : m = Event(e)
    OBVIOUS
  <2>3. Speaks(<<m>>)
    <3>1. m \in Answers
      BY <2>2, EventIsAnswer DEF EventNames
    <3>2. <<m>> \in Seq(Answers) /\ Len(<<m>>) = 1
      BY <3>1, ShortSpeech
    <3>3. /\ stops \in 0..MaxStops /\ MaxStops \in Nat /\ requests \in Seq(Outstanding)
          /\ owed \in 0..Len(asked) /\ open \in BOOLEAN
      BY ClientAssumption DEF TypeOK, SessionInv
    <3>4. stops' \in 0..MaxStops /\ UNCHANGED <<open, requests, owed, kind, client>>
      BY <1>2, <3>3 DEF DebuggeeStops, DebuggeeExits
    <3>5. owed' \in 0..Len(asked) /\ requests' \in Seq(Outstanding) /\ open' \in BOOLEAN
      BY <3>3, <3>4
    <3>6. QED
      BY <2>1, <2>2, <3>2, <3>4, <3>5 DEF Speaks
  <2>4. /\ \A n : OnWire(n) => OnWire(n)'
        /\ \A n : Kept(n) => Kept(n)'
        /\ Kept(m)'
    <3>1. 1 \in 1..Len(<<m>>) /\ <<m>>[1] = m
      OBVIOUS
    <3>2. QED
      BY <2>3, <3>1, SpeechHeard
  <2>5. /\ \A x : Remains(x) <=> Remains(x)'
        /\ \A c : Requested(c) <=> Requested(c)'
        /\ outcome' = "working" /\ StartList(plugin, steps)'
    BY <2>1 DEF Starting, StartList, Remains, Requested
  <2>6. \A c : Prompted(c) <=> Prompted(c)'
    BY <2>5 DEF Prompted
  <2>7. Comes => Comes'
    BY <2>1, <2>6 DEF Comes
  <2>8. Fresh'
    BY <2>1 DEF Starting, Fresh
  <2>9. Replied'
    <3>1. PICK d : d = [name |-> Head(steps).name, seq |-> Len(asked)]
      OBVIOUS
    <3>2. Head(steps).do = "answer" =>
            d \in ToSet(requests') \/ OnWire(Response(d))' \/ (deferred' /\ d.name \in {"launch", "attach"})
      BY <2>1, <2>4, <3>1 DEF Starting, Replied
    <3>3. d = [name |-> Head(steps').name, seq |-> Len(asked')]
      BY <2>1, <3>1
    <3>4. QED
      BY <2>1, <3>2, <3>3 DEF Replied
  <2>10. ArrivalDue' /\ EventDue'
    BY <2>1, <2>4, <2>5, <2>7 DEF Starting, ArrivalDue, EventDue
  <2>11. Configured' /\ StopDue'
    BY <2>1, <2>2, <2>4 DEF Configured, StopDue
  <2>12. flaw' = "none"
    BY <2>1 DEF Starting
  <2>13. QED
    BY <2>5, <2>8, <2>9, <2>10, <2>11, <2>12 DEF Starting
<1>3. CASE Replay \/ EditorResumes
  BY <1>3 DEF Replay, EditorResumes
<1>4. QED
  BY <1>1, <1>2, <1>3 DEF SessionStep

\* The client sends the request that is next in the initialisation.
LEMMA StartSends ==
  ASSUME TypeOK, SessionInv, Starting, steps # <<>>, SendRequest
  PROVE  Starting' /\ steps' # <<>>
<1>1. PICK c, d, n : /\ c = Head(steps).name /\ n = Len(asked) /\ d = [name |-> c, seq |-> n + 1]
                     /\ Head(steps) = Send(c)
  BY BeginsHead DEF Starting, SendRequest, Doing
<1>2. /\ steps' = Tail(steps) /\ requests' = Append(requests, d) /\ asked' = Append(asked, c)
      /\ UNCHANGED <<plugin, deferred, announces, flaw, log, wire, pending, debuggee, outcome>>
  BY <1>1 DEF SendRequest, kind
<1>3. n \in Nat /\ Len(asked') = n + 1
  BY <1>1, <1>2, AppendProperties, LenProperties DEF TypeOK
<1>4. PICK D : D = Outstanding \cup {d}
  OBVIOUS
<1>5. requests \in Seq(D) /\ d \in D
  BY <1>4, SeqWiden DEF SessionInv
<1>6. ToSet(requests') = ToSet(requests) \cup {d}
  BY <1>2, <1>5, ListElements
<1>7. /\ StartList(plugin, steps)'
      /\ \A x : Remains(x) => Send(c) = x \/ Remains(x)'
      /\ \A x : Remains(x)' => Remains(x)
      /\ steps' = <<>> <=> Send(c) = Awaiting("stopped")
      /\ steps' # <<>> => /\ Head(steps').do = "answer" => Send(c) = Send(Head(steps').name)
                          /\ Head(steps') # Send("initialize")
  BY <1>1, <1>2, BeginsTail DEF Starting
<1>8. steps' # <<>>
  BY <1>7 DEF Send, Awaiting
<1>9. \A k : Prompted(k) => Prompted(k)'
  <2>1. \A k : Requested(k) => Requested(k)'
    BY <1>6 DEF Requested
  <2>2. Requested(c)'
    BY <1>1, <1>6 DEF Requested
  <2>3. \A k : Send(c) = Send(k) => c = k
    BY DEF Send
  <2>4. QED
    BY <1>7, <2>1, <2>2, <2>3 DEF Prompted
<1>10. Comes => Comes'
  BY <1>2, <1>9 DEF Comes
<1>11. /\ \A m : OnWire(m) => OnWire(m)'
       /\ \A m : Kept(m) => Kept(m)'
  BY <1>2 DEF OnWire, Kept
<1>12. ASSUME Head(steps').do = "answer" PROVE Head(steps').name = c
  BY <1>7, <1>8, <1>12 DEF Send
<1>13. Replied'
  BY <1>1, <1>3, <1>6, <1>12 DEF Replied
<1>14. Fresh'
  <2>1. SUFFICES ASSUME Head(steps') \in {Send("initialize"), Answering("initialize")} PROVE Fresh'
    BY DEF Fresh
  <2>2. Head(steps') = Answering("initialize")
    BY <1>7, <1>8, <2>1
  <2>3. c = "initialize"
    BY <1>12, <2>2 DEF Answering
  <2>4. debuggee = "none" /\ requests = <<>> /\ wire = <<>>
    BY <1>1, <2>3 DEF Starting, Fresh, Send, Answering
  <2>5. requests' # <<>> /\ Tail(requests') = <<>> /\ Head(requests') = d
    <3>1. PICK q : q = requests'
      OBVIOUS
    <3>2. q \in Seq(D) /\ Len(q) = 1 /\ q[1] = d
      BY <1>2, <1>5, <2>4, <3>1, AppendProperties, EmptySeq
    <3>3. q # <<>>
      BY <3>2, EmptySeq
    <3>4. Head(q) = q[1] /\ Tail(q) \in Seq(D) /\ Len(Tail(q)) = 0
      BY <3>2, <3>3, HeadTailProperties
    <3>5. Tail(q) = <<>>
      BY <3>4, EmptySeq
    <3>6. QED
      BY <3>1, <3>2, <3>3, <3>4, <3>5
  <2>6. d.name = "initialize" /\ debuggee' = "none" /\ wire' = <<>>
    BY <1>1, <1>2, <2>3, <2>4
  <2>7. Head(requests').name = "initialize"
    BY <2>5, <2>6
  <2>8. QED
    BY <2>2, <2>5, <2>6, <2>7 DEF Fresh
<1>15. ArrivalDue' /\ EventDue'
  BY <1>2, <1>7, <1>10, <1>11 DEF Starting, ArrivalDue, EventDue
<1>16. Configured' /\ StopDue'
  BY <1>2, <1>9, <1>11 DEF Starting, Configured, StopDue
<1>17. outcome' = "working" /\ flaw' = "none"
  BY <1>2 DEF Starting
<1>18. QED
  BY <1>7, <1>8, <1>13, <1>14, <1>15, <1>16, <1>17 DEF Starting

\* The client is given a message that the initialisation waits for, one that it keeps.
Loses(n) ==
  /\ UNCHANGED log
  /\ ToSet(wire) \subseteq {n} \cup ToSet(wire')
  /\ ToSet(pending) \subseteq {n} \cup ToSet(pending')

LEMMA StartIsGiven ==
  ASSUME TypeOK, Starting, Waiting, NEW n, Wanted(log[n]), Give(n), Loses(n),
         UNCHANGED <<kind, requests, debuggee>>
  PROVE  IF steps' = <<>> THEN outcome' = "ok" ELSE Starting'
<1>1. PICK h : h = Head(steps)
  OBVIOUS
<1> ~Unusable(n)
  BY DEF Starting, Unusable
<1>2. /\ steps # <<>> /\ h.do \in {"sweep", "answer", "arrival", "event", "seq", "named"}
      /\ steps' = Tail(steps) /\ outcome' = (IF steps' = <<>> THEN "ok" ELSE outcome)
      /\ UNCHANGED <<plugin, deferred, announces, flaw, requests, debuggee, log>>
  BY <1>1 DEF Waiting, Doing, Give, kind, Loses
<1>3. /\ StartList(plugin, steps)'
      /\ \A x : Remains(x) => h = x \/ Remains(x)'
      /\ \A x : Remains(x)' => Remains(x) /\ Before(h, x)
      /\ steps' = <<>> <=> h = Awaiting("stopped")
      /\ steps' # <<>> => /\ Head(steps').do = "answer" => h = Send(Head(steps').name)
                          /\ Head(steps') # Send("initialize")
  BY <1>1, <1>2, BeginsTail DEF Starting
<1>4. SUFFICES ASSUME steps' # <<>> PROVE Starting'
  BY <1>2
<1>5. /\ h.do \in {"answer", "arrival", "event", "seq", "named"}
      /\ h.do = "arrival" => h = Arrival
      /\ h.do = "event" => h = Awaiting("initialized")
  BY <1>1, <1>2, <1>3, <1>4, BeginsHead DEF Starting
<1>6. /\ log[n] = Event("initialized") => Awaits(h)
      /\ log[n] # Event("stopped")
  BY <1>1, <1>5 DEF Wanted, Awaits, Event, Arrival, Awaiting
<1>7. /\ \A m : log[n] # m => (OnWire(m) => OnWire(m)')
      /\ \A m : log[n] # m => (Kept(m) => Kept(m)')
  BY <1>2 DEF OnWire, Kept, Loses
<1>8. \A c : Prompted(c) => Prompted(c)'
  <2>1. \A c : h # Send(c)
    BY <1>5 DEF Send
  <2>2. \A c : Requested(c) => Requested(c)'
    BY <1>2 DEF Requested
  <2>3. QED
    BY <1>3, <2>1, <2>2 DEF Prompted
<1>9. Comes => Comes'
  BY <1>2, <1>8 DEF Comes
<1>10. Head(steps').do # "answer" /\ Head(steps') # Send("initialize")
  BY <1>3, <1>4, <1>5 DEF Send
<1>11. Replied'
  BY <1>10 DEF Replied
<1>12. Fresh'
  BY <1>10 DEF Fresh, Answering
<1>13. ArrivalDue'
  <2>1. SUFFICES ASSUME Remains(Arrival)', announces # "before"
                 PROVE  (OnWire(Event("initialized")) \/ Comes)'
    BY <1>2 DEF ArrivalDue
  <2>2. Remains(Arrival) /\ h = Answering("initialize")
    BY <1>3, <1>5, <2>1 DEF Before
  <2>3. ~Awaits(h)
    BY <2>2 DEF Awaits, Answering, Arrival, Awaiting
  <2>4. QED
    BY <1>6, <1>7, <1>9, <2>1, <2>2, <2>3 DEF Starting, ArrivalDue
<1>14. EventDue'
  <2>1. SUFFICES ASSUME Remains(Awaiting("initialized"))'
                 PROVE  (Kept(Event("initialized")) \/ Comes)'
    BY DEF EventDue
  <2>2. Remains(Awaiting("initialized")) /\ ~Awaits(h)
    BY <1>3, <2>1 DEF Before, Awaits
  <2>3. QED
    BY <1>6, <1>7, <1>9, <2>2 DEF Starting, EventDue
<1>15. Configured' /\ StopDue'
  BY <1>2, <1>6, <1>7, <1>8 DEF Starting, Configured, StopDue
<1>16. outcome' = "working" /\ flaw' = "none"
  BY <1>2, <1>4 DEF Starting
<1>17. QED
  BY <1>3, <1>11, <1>12, <1>13, <1>14, <1>15, <1>16 DEF Starting

\* The client reads a message that it does not wait for, and keeps it.
LEMMA StartReads ==
  ASSUME TypeOK, Starting, Waiting, wire # <<>>, ~Wanted(log[Head(wire)]),
         wire' = Tail(wire), PassOver(Head(wire)), UNCHANGED <<kind, requests, debuggee, log, asked>>
  PROVE  Starting'
<1>1. PICK h, n : h = Head(steps) /\ n = Head(wire)
  OBVIOUS
<1>2. /\ steps # <<>> /\ h.do \in {"answer", "arrival", "event", "seq", "named"}
      /\ h.do = "arrival" => h = Arrival
      /\ h.do = "answer" => h = Answering(h.name)
      /\ \A x : Remains(x) => x = h \/ Before(h, x)
  BY <1>1, BeginsHead DEF Starting, Waiting, Doing
<1>3. /\ pending' = Append(pending, n)
      /\ UNCHANGED <<plugin, deferred, announces, flaw, requests, debuggee, log, asked, steps, outcome>>
  BY <1>1, <1>2 DEF PassOver, Doing, kind
<1>4. /\ ToSet(wire) = {n} \cup ToSet(wire') /\ ToSet(pending') = ToSet(pending) \cup {n}
  <2>1. wire \in Seq(Nat) /\ pending \in Seq(Nat) /\ n \in Nat
    BY <1>1, HeldLemma, NumbersTail
  <2>2. QED
    BY <1>1, <1>3, <2>1, NumbersTail, NumbersAppend
<1>5. /\ \A m : log[n] # m => (OnWire(m) => OnWire(m)')
      /\ \A m : Kept(m) => Kept(m)'
  BY <1>3, <1>4 DEF OnWire, Kept
<1>6. /\ \A x : Remains(x) <=> Remains(x)'
      /\ \A c : Requested(c) <=> Requested(c)'
      /\ outcome' = "working" /\ flaw' = "none" /\ StartList(plugin, steps)'
  BY <1>3 DEF Starting, StartList, Remains, Requested
<1>7. \A c : Prompted(c) <=> Prompted(c)'
  BY <1>6 DEF Prompted
<1>8. Comes => Comes'
  BY <1>3, <1>7 DEF Comes
<1>9. ASSUME h = Answering("initialize") PROVE announces = "before" /\ requests = <<>> /\ debuggee = "none"
  <2>1. debuggee = "none" /\ requests = <<>>
    BY <1>1, <1>9 DEF Starting, Fresh, Send, Answering
  <2>2. announces # "before" => log[n] = Response([name |-> "initialize", seq |-> Len(asked)])
    BY <1>1, <1>9 DEF Starting, Fresh, Send, Answering
  <2>3. log[n] # Response([name |-> "initialize", seq |-> Len(asked)])
    BY <1>1, <1>9 DEF Wanted, Response, Answering
  <2>4. QED
    BY <2>1, <2>2, <2>3
<1>10. Fresh'
  <2>1. h # Send("initialize")
    BY <1>2 DEF Send
  <2>2. QED
    BY <1>1, <1>3, <1>9, <2>1 DEF Fresh
<1>11. Replied'
  <2>1. PICK d : d = [name |-> h.name, seq |-> Len(asked)]
    OBVIOUS
  <2>2. h.do = "answer" => log[n] # Response(d)
    BY <1>1, <2>1 DEF Wanted, Response
  <2>3. h.do = "answer" =>
          d \in ToSet(requests) \/ OnWire(Response(d))' \/ (deferred /\ d.name \in {"launch", "attach"})
    BY <1>1, <1>5, <2>1, <2>2 DEF Starting, Replied
  <2>4. d = [name |-> Head(steps').name, seq |-> Len(asked')]
    BY <1>1, <1>3, <2>1
  <2>5. QED
    BY <1>1, <1>3, <2>3, <2>4 DEF Replied
<1>12. ArrivalDue'
  <2>1. SUFFICES ASSUME Remains(Arrival), announces # "before"
                 PROVE  (OnWire(Event("initialized")) \/ Comes)'
    BY <1>3, <1>6 DEF ArrivalDue
  <2>2. h = Arrival
    BY <1>2, <1>9, <2>1 DEF Before
  <2>3. log[n] # Event("initialized")
    BY <1>1, <2>2 DEF Wanted, Event, Arrival
  <2>4. QED
    BY <1>5, <1>8, <2>1, <2>3 DEF Starting, ArrivalDue
<1>13. EventDue' /\ Configured' /\ StopDue'
  BY <1>3, <1>5, <1>6, <1>7, <1>8 DEF Starting, EventDue, Configured, StopDue
<1>14. QED
  BY <1>6, <1>10, <1>11, <1>12, <1>13 DEF Starting

\* A wait that nothing is left for ends the initialisation for a cause.
LEMMA StartFails ==
  ASSUME TypeOK, Starting, Waiting, Buffered = {}, wire = <<>>, Silent,
         Doing({"sweep", "answer", "arrival", "event"})
  PROVE  HasCause
<1>1. PICK h : h = Head(steps)
  OBVIOUS
<1>2. /\ steps # <<>> /\ h.do \in {"answer", "arrival", "event"}
      /\ h.do = "arrival" => h = Arrival
      /\ h.do = "event" => h \in {Awaiting("initialized"), Awaiting("stopped")}
      /\ h.do = "answer" => h = Answering(h.name)
      /\ h = Arrival => InitSteps(plugin) # <<>>
      /\ h \in {Answering("launch"), Answering("attach"), Awaiting("initialized")} => InitSteps(plugin) = <<>>
      /\ Remains(h) /\ \A x : Remains(x) => x = h \/ Before(h, x)
      /\ h = Awaiting("stopped") => \A x : Remains(x) => x = h
  BY <1>1, BeginsHead DEF Starting, Doing
<1>3. SUFFICES ASSUME open, requests = <<>>, debuggee \in {"none", "stopped"}
               PROVE  HasCause
  BY DEF Silent, HasCause, TypeOK
<1>4. /\ \A m : ~OnWire(m)
      /\ \A m : ~(h.do = "event" /\ m = Event(h.name) /\ Kept(m))
      /\ \A c : ~Requested(c)
  <2>1. ToSet(wire) = {} /\ ToSet(requests) = {}
    BY <1>3 DEF ToSet
  <2>2. ASSUME h.do = "event", NEW n \in ToSet(pending), log[n] = Event(h.name) PROVE FALSE
    <3>1. PICK i \in DOMAIN pending : n = pending[i]
      BY <2>2 DEF ToSet
    <3>2. Wanted(log[pending[i]])
      BY <1>1, <2>2, <3>1 DEF Wanted, Event
    <3>3. Doing({"event", "seq", "named"})
      BY <1>1, <1>2, <2>2 DEF Doing
    <3>4. QED
      BY <3>1, <3>2, <3>3 DEF Buffered
  <2>3. QED
    BY <2>1, <2>2 DEF OnWire, Kept, Requested
<1>5. ASSUME Awaits(h) PROVE ~Comes
  <2>1. \A c \in {"initialize", "launch", "attach"} : Send(c) \in Prompts /\ Send(c) # h
    BY <1>5 DEF Prompts, Awaits, Send, Arrival, Awaiting
  <2>2. \A c \in {"initialize", "launch", "attach"} : ~Prompted(c)
    BY <1>2, <1>4, <1>5, <2>1 DEF Prompted, Before
  <2>3. QED
    BY <2>2 DEF Comes
<1>6. CASE h.do = "answer"
  <2>1. deferred /\ h.name \in {"launch", "attach"}
    <3>1. PICK d : d = [name |-> h.name, seq |-> Len(asked)]
      OBVIOUS
    <3>2. d \notin ToSet(requests)
      BY <1>3 DEF ToSet
    <3>3. QED
      BY <1>1, <1>4, <1>6, <3>1, <3>2 DEF Starting, Replied
  <2>2. InitSteps(plugin) = <<>>
    BY <1>2, <1>6, <2>1
  <2>3. QED
    BY <2>1, <2>2 DEF HasCause
<1>7. CASE h = Arrival
  <2>1. ~Comes
    BY <1>5, <1>7 DEF Awaits
  <2>2. announces = "before"
    BY <1>2, <1>4, <1>7, <2>1 DEF Starting, ArrivalDue
  <2>3. QED
    BY <1>2, <1>7, <2>2 DEF HasCause
<1>8. CASE h = Awaiting("initialized")
  <2>1. ~Comes /\ ~Kept(Event("initialized"))
    BY <1>4, <1>5, <1>8 DEF Awaits, Awaiting
  <2>2. QED
    BY <1>2, <1>8, <2>1 DEF Starting, EventDue
<1>9. CASE h = Awaiting("stopped")
  <2>1. debuggee = "stopped"
    BY <1>2, <1>3, <1>4, <1>9 DEF Starting, Configured, Prompted, Send, Awaiting
  <2>2. QED
    BY <1>4, <1>9, <2>1 DEF Starting, StopDue, Awaiting
<1>10. QED
  BY <1>2, <1>6, <1>7, <1>8, <1>9

\* Every step of the client.
LEMMA StartGoes ==
  ASSUME TypeOK, SessionInv, Ordered, Starting, steps # <<>>, ClientStep
  PROVE  (steps' # <<>> => Starting') /\ (outcome' = "failed" => HasCause')
<1>1. ASSUME Starting' PROVE outcome' # "failed"
  BY <1>1 DEF Starting
<1>2. CASE SendRequest
  BY <1>1, <1>2, StartSends
<1>3. CASE TakeBuffered
  <2>1. PICK i, n : i = Min(Buffered) /\ n = pending[i]
    OBVIOUS
  <2>2. i \in 1..Len(pending) /\ Wanted(log[n]) /\ Waiting
    BY <1>3, <2>1, BufferedLemma DEF TakeBuffered
  <2>3. /\ Give(n) /\ pending' = RemoveAt(pending, i)
        /\ UNCHANGED <<kind, requests, debuggee, log, wire>>
    BY <1>3, <2>1 DEF TakeBuffered, session
  <2>4. ToSet(pending) = {n} \cup ToSet(pending')
    BY <2>1, <2>2, <2>3, HeldLemma, NumbersRemove
  <2>5. Loses(n)
    BY <2>3, <2>4 DEF Loses
  <2>6. IF steps' = <<>> THEN outcome' = "ok" ELSE Starting'
    BY <2>2, <2>3, <2>5, StartIsGiven
  <2>7. QED
    BY <1>1, <2>6
<1>4. CASE ReadWire
  <2>1. PICK n : n = Head(wire)
    OBVIOUS
  <2>2. /\ Waiting /\ wire # <<>> /\ wire' = Tail(wire)
        /\ UNCHANGED <<kind, requests, debuggee, log, asked>>
        /\ \/ Wanted(log[n]) /\ Give(n) /\ UNCHANGED pending
           \/ ~Wanted(log[n]) /\ PassOver(n)
    BY <1>4, <2>1 DEF ReadWire
  <2>3. CASE Wanted(log[n]) /\ Give(n) /\ UNCHANGED pending
    <3>1. ToSet(wire) = {n} \cup ToSet(wire')
      BY <2>1, <2>2, HeldLemma, NumbersTail
    <3>2. Loses(n)
      BY <2>2, <2>3, <3>1 DEF Loses
    <3>3. IF steps' = <<>> THEN outcome' = "ok" ELSE Starting'
      BY <2>2, <2>3, <3>2, StartIsGiven
    <3>4. QED
      BY <1>1, <3>3
  <2>4. CASE ~Wanted(log[n]) /\ PassOver(n)
    BY <1>1, <2>1, <2>2, <2>4, StartReads
  <2>5. QED
    BY <2>2, <2>3, <2>4
<1>5. CASE TimeOut \/ ChannelEnds
  <2>1. steps' = <<>> /\ UNCHANGED <<kind, session>>
    BY <1>5 DEF TimeOut, ChannelEnds, Fail
  <2>2. CASE slow' \/ ~open
    BY <2>1, <2>2 DEF HasCause, session
  <2>3. CASE ~slow' /\ open
    <3>1. /\ Doing({"sweep", "answer", "arrival", "event"}) /\ Buffered = {} /\ wire = <<>> /\ Silent
          /\ ~slow
      BY <1>5, <2>3 DEF TimeOut, ChannelEnds
    <3>2. Waiting
      BY <3>1 DEF Waiting, Doing
    <3>3. HasCause
      BY <3>1, <3>2, StartFails
    <3>4. HasCause'
      BY <2>1, <3>1, <3>3 DEF HasCause, kind, session
    <3>5. QED
      BY <2>1, <3>4
  <2>4. QED
    BY <2>2, <2>3
<1>6. CASE DrainReads \/ DrainEnds
  BY <1>6, BeginsHead DEF Starting, DrainReads, DrainEnds, Doing
<1>7. QED
  BY <1>2, <1>3, <1>4, <1>5, <1>6 DEF ClientStep

\* The first initialisation begins with its list of steps.
LEMMA StartInit ==
  ASSUME Init
  PROVE  StartInv
<1>1. SUFFICES ASSUME ~attaches PROVE (flaw = "none" => Starting) /\ outcome # "failed"
  BY DEF StartInv
<1>2. PICK s : s = SessionInit(plugin)
  OBVIOUS
<1>3. /\ steps = s /\ requests = <<>> /\ wire = <<>> /\ outcome = "working" /\ debuggee = "none"
      /\ announces \in {"before", "after", "launch"}
  BY <1>1, <1>2 DEF Init
<1>4. Begins(plugin, s) /\ s \in Seq(StepRecords)
  BY <1>2, SessionBegins, SessionInitList DEF InitList
<1>5. Head(s) = Send("initialize") /\ 1 \in 1..Len(s) /\ s[1] = Send("initialize")
  <2>1. PICK k \in Nat \ {0} : k = Len(s)
    BY <1>4 DEF Begins
  <2>2. s # <<>>
    BY <2>1, EmptySeq
  <2>3. QED
    BY <1>4, <2>1, <2>2, HeadTailProperties DEF Begins
<1>6. /\ Remains(Send("initialize")) /\ Remains(Send("configurationDone"))
      /\ Remains(Send("launch")) \/ Remains(Send("attach"))
  BY <1>3, <1>4, <1>5 DEF Begins, Remains
<1>7. Comes /\ Configured
  BY <1>3, <1>6 DEF Comes, Configured, Prompted
<1>8. Fresh /\ Replied
  BY <1>3, <1>5 DEF Fresh, Replied, Send
<1>9. flaw = "none" => Starting
  BY <1>3, <1>4, <1>7, <1>8 DEF Starting, Begins, ArrivalDue, EventDue, StopDue
<1>10. QED
  BY <1>3, <1>9

\* No step breaks it.
LEMMA StartNext ==
  ASSUME ClientInv, StartInv, [Next]_vars
  PROVE  StartInv'
<1>1. TypeOK /\ SessionInv /\ Ordered
  BY DEF ClientInv, BufferInv
<1>2. SUFFICES ASSUME ~attaches', calls' = 0
               PROVE  /\ steps' # <<>> /\ flaw' = "none" => Starting'
                      /\ outcome' = "failed" => HasCause'
  BY DEF StartInv
<1>3. CASE Call
  <2>1. calls' = calls + 1 /\ calls \in Nat
    BY <1>1, <1>3, ClientAssumption DEF Call, TypeOK
  <2>2. QED
    BY <1>2, <2>1
<1>4. CASE SessionStep
  <2>1. UNCHANGED <<attaches, flaw, calls, steps, outcome>>
    BY <1>4 DEF SessionStep, Replay, AdapterTakes, DebuggeeStops, DebuggeeExits, EditorResumes, SessionCloses,
       kind, client
  <2>2. /\ ~attaches /\ (steps # <<>> /\ flaw = "none" => Starting)
        /\ outcome = "failed" => HasCause
    BY <1>2, <2>1 DEF StartInv
  <2>3. steps # <<>> /\ flaw = "none" => Starting'
    BY <1>1, <1>4, <2>2, StartTakes, StartHears
  <2>4. HasCause => HasCause'
    BY <1>1, <1>4, <2>2, CauseRemains
  <2>5. QED
    BY <2>1, <2>2, <2>3, <2>4
<1>5. CASE ClientStep
  <2>1. steps # <<>>
    BY <1>5 DEF ClientStep, SendRequest, TakeBuffered, ReadWire, TimeOut, ChannelEnds, DrainReads, DrainEnds,
       Waiting, Doing
  <2>2. UNCHANGED <<attaches, flaw, calls>>
    <3>1. CASE SendRequest
      BY <3>1 DEF SendRequest, kind
    <3>2. CASE ~SendRequest
      BY <1>1, <1>5, <3>2, ClientGoes DEF kind
    <3>3. QED
      BY <3>1, <3>2
  <2>3. flaw = "none" => Starting
    BY <1>2, <2>1, <2>2 DEF StartInv
  <2>4. flaw # "none" => HasCause'
    BY <2>2 DEF HasCause
  <2>5. QED
    BY <1>1, <1>5, <2>1, <2>2, <2>3, <2>4, StartGoes
<1>6. CASE UNCHANGED vars
  <2>1. StartInv'
    BY <1>6 DEF vars, kind, session, client, StartInv, Starting, StartList, Fresh, Replied, ArrivalDue, EventDue,
       Configured, StopDue, Comes, Prompted, Requested, Remains, OnWire, Kept, HasCause
  <2>2. QED
    BY <1>2, <2>1 DEF StartInv
<1>7. QED
  BY <1>3, <1>4, <1>5, <1>6 DEF Next

\* Among messages that can be read, run_session_init fails only when the session ends, the
\* debuggee never stops, a timer beats the adapter, the answer to initialize has no usable
\* body, the launch is refused, the place of the entry cannot be resolved, or the adapter's
\* order is not the plugin's: InitFailsForCause, for every plugin, any calls and any number
\* of stops.
THEOREM InitFailsOnlyForCause == Spec => []InitFailsForCause
<1>1. Init => StartInv
  BY StartInit
<1>2. ClientInv /\ StartInv /\ [Next]_vars => StartInv'
  BY StartNext
<1>3. StartInv => InitFailsForCause
  BY DEF StartInv, HasCause, InitFailsForCause
<1>4. Spec => []ClientInv
  BY ClientInvariant
<1>5. QED
  BY <1>1, <1>2, <1>3, <1>4, PTL DEF Spec

-----------------------------------------------------------------------------
\* The stops at which the value is another one than at the stop before.
Changes == {i \in 2..Len(seen) : seen[i] /= seen[i - 1]}

Asked ==
  \/ query.about \in {"nothing", "skip"}
  \/ /\ query.about = "snippet"
     /\ query.count \in 1..MaxLines /\ query.line \in (0 - 1)..(MaxLines + 1)
     /\ query.context \in 0..2
  \/ query.about = "paths" /\ query.one \in Paths /\ query.other \in Paths

StopsInv ==
  /\ seen \in Seq(Values) /\ kept = Cardinality(Changes)
  /\ armed = (seen # <<>>)
  /\ seen # <<>> => baseline = <<seen[Len(seen)]>>
  /\ Asked

\* A stop that a watch sees counts when the value is another one.
LEMMA WatchStep ==
  ASSUME StopsInv, Watch
  PROVE  StopsInv'
<1>1. PICK n \in Nat : n = Len(seen)
  BY LenProperties DEF StopsInv
<1>2. PICK value \in Values :
        /\ seen' = Append(seen, value) /\ armed' = TRUE /\ baseline' = <<value>>
        /\ kept' = kept + (IF armed /\ baseline /= <<value>> THEN 1 ELSE 0)
        /\ query' = query
  BY DEF Watch, Rebase
<1>3. /\ seen' \in Seq(Values) /\ Len(seen') = n + 1 /\ seen'[n + 1] = value
      /\ \A i \in 1..n : seen'[i] = seen[i]
  BY <1>1, <1>2, AppendProperties DEF StopsInv
<1>4. seen' # <<>> /\ (seen # <<>> <=> n > 0)
  BY <1>1, <1>3, EmptySeq DEF StopsInv
<1>5. IsFiniteSet(Changes) /\ n + 1 \notin Changes
  <2>1. IsFiniteSet(2..n)
    BY FS_Interval
  <2>2. Changes \in SUBSET (2..n)
    BY <1>1 DEF Changes
  <2>3. n + 1 \notin 2..n
    OBVIOUS
  <2>4. IsFiniteSet(Changes)
    BY <2>1, <2>2, FS_Subset
  <2>5. QED
    BY <2>2, <2>3, <2>4
<1>6. PICK c \in Nat : c = Cardinality(Changes)
  BY <1>5, FS_CardinalityType
<1>7. Changes' = IF n > 0 /\ seen[n] # value THEN Changes \cup {n + 1} ELSE Changes
  <2>1. \A i : i \in 2..(n + 1) <=> i \in 2..n \/ (n > 0 /\ i = n + 1)
    OBVIOUS
  <2>2. \A i \in 2..n : i \in 1..n /\ i - 1 \in 1..n
    OBVIOUS
  <2>3. n > 0 => n \in 1..n /\ n + 1 - 1 = n
    OBVIOUS
  <2>4. \A i \in 2..n : seen'[i] = seen[i] /\ seen'[i - 1] = seen[i - 1]
    BY <1>3, <2>2
  <2>5. n > 0 => seen'[n + 1 - 1] = seen[n]
    BY <1>3, <2>3
  <2>6. \A i : i \in Changes' <=> i \in 2..(n + 1) /\ seen'[i] # seen'[i - 1]
    BY <1>3 DEF Changes
  <2>7. \A i : i \in Changes <=> i \in 2..n /\ seen[i] # seen[i - 1]
    BY <1>1 DEF Changes
  <2>8. \A i : i \in Changes' <=> i \in Changes \/ (n > 0 /\ seen[n] # value /\ i = n + 1)
    BY <1>3, <2>1, <2>4, <2>5, <2>6, <2>7
  <2>9. QED
    BY <2>8
<1>8. armed <=> n > 0
  BY <1>4 DEF StopsInv
<1>9. n > 0 => baseline = <<seen[n]>>
  BY <1>1, <1>4 DEF StopsInv
<1>10. kept' = Cardinality(Changes')
  <2>1. CASE n > 0 /\ seen[n] # value
    <3>1. Cardinality(Changes') = c + 1
      BY <1>5, <1>6, <1>7, <2>1, FS_AddElement
    <3>2. armed /\ baseline # <<value>>
      BY <1>8, <1>9, <2>1
    <3>3. kept = c
      BY <1>6 DEF StopsInv
    <3>4. QED
      BY <1>2, <3>1, <3>2, <3>3
  <2>2. CASE ~(n > 0 /\ seen[n] # value)
    <3>1. Changes' = Changes
      BY <1>7, <2>2
    <3>2. ~(armed /\ baseline # <<value>>)
      BY <1>8, <1>9, <2>2
    <3>3. kept = c
      BY <1>6 DEF StopsInv
    <3>4. QED
      BY <1>2, <1>6, <3>1, <3>2, <3>3
  <2>3. QED
    BY <2>1, <2>2
<1>11. Asked'
  BY <1>2 DEF StopsInv, Asked
<1>12. baseline' = <<seen'[Len(seen')]>>
  BY <1>2, <1>3
<1>13. QED
  BY <1>2, <1>3, <1>4, <1>10, <1>11, <1>12 DEF StopsInv

\* A question touches no watch.
LEMMA AskStep ==
  ASSUME StopsInv, Question
  PROVE  StopsInv'
<1>1. UNCHANGED <<armed, baseline, seen, kept>>
  BY DEF Question
<1>2. Asked'
  BY DEF Question, Asked
<1>3. Changes' = Changes
  BY <1>1 DEF Changes
<1>4. QED
  BY <1>1, <1>2, <1>3 DEF StopsInv

(* A watch remembers the value of the last stop it has seen, and has kept   *)
(* the stops at which the value changed (data_watch_should_stop).          *)
THEOREM StopsInvariant ==
  StopsSpec => []StopsInv
<1>1. StopsInit => StopsInv
  <2> SUFFICES ASSUME StopsInit PROVE StopsInv
    OBVIOUS
  <2>1. seen \in Seq(Values) /\ Len(seen) = 0 /\ seen = <<>>
    BY EmptySeq DEF StopsInit
  <2>2. Changes = {}
    BY <2>1 DEF Changes
  <2>3. Asked
    BY DEF StopsInit, Nothing, Asked
  <2>4. QED
    BY <2>1, <2>2, <2>3, FS_EmptySet DEF StopsInit, StopsInv
<1>2. StopsInv /\ [StopsNext]_stopsVars => StopsInv'
  <2> SUFFICES ASSUME StopsInv, [StopsNext]_stopsVars PROVE StopsInv'
    OBVIOUS
  <2>1. CASE Question
    BY <2>1, AskStep
  <2>2. CASE Watch
    BY <2>2, WatchStep
  <2>3. CASE UNCHANGED stopsVars
    BY <2>3 DEF StopsInv, stopsVars, Asked, Changes
  <2>4. QED
    BY <2>1, <2>2, <2>3 DEF StopsNext
<1>3. QED
  BY <1>1, <1>2, PTL DEF StopsSpec

\* The smaller and the larger of two numbers.
LEMMA MinOfTwo ==
  ASSUME NEW a \in Int, NEW b \in Int
  PROVE  /\ Min({a, b}) = IF a <= b THEN a ELSE b
         /\ Max({a, b}) = IF a >= b THEN a ELSE b
BY DEF Min, Max

\* What format_source_snippet_styled shows.
LEMMA SnippetFacts ==
  ASSUME StopsInv
  PROVE  SnippetShowsLine
<1> SUFFICES ASSUME query.about = "snippet" PROVE SnippetShowsLine
  BY DEF SnippetShowsLine
<1>1. PICK count \in Nat, line \in Int, context \in Nat :
        query.count = count /\ query.line = line /\ query.context = context /\ count >= 1
  BY StopPolicyAssumption DEF StopsInv, Asked
<1>2. PICK near \in Int : near = Min({line, count}) /\ near = IF line <= count THEN line ELSE count
  BY MinOfTwo
<1>3. PICK current \in Int : current = Max({1, near}) /\ current = IF 1 >= near THEN 1 ELSE near
  BY MinOfTwo
<1>4. PICK first \in Int :
        /\ first = Max({current - context, 1})
        /\ first = IF current - context >= 1 THEN current - context ELSE 1
  <2>1. current - context \in Int /\ 1 \in Int
    OBVIOUS
  <2>2. QED
    BY <2>1, MinOfTwo
<1>5. PICK last \in Int :
        /\ last = Min({current + context, count})
        /\ last = IF current + context <= count THEN current + context ELSE count
  <2>1. current + context \in Int /\ count \in Int
    OBVIOUS
  <2>2. QED
    BY <2>1, MinOfTwo
<1>6. Snippet(line, context, count) = [current |-> current, first |-> first, last |-> last]
  BY <1>2, <1>3, <1>4, <1>5 DEF Snippet, SnippetEnd
<1>7. current \in 1..count /\ (line \in 1..count => current = line)
  BY <1>1, <1>2, <1>3
<1>8. /\ first \in 1..current /\ current - first <= context
      /\ current - first = context \/ first = 1
  BY <1>4, <1>7
<1>9. /\ last \in current..count /\ last - current <= context
      /\ last - current = context \/ last = count
  BY <1>5, <1>7
<1>10. QED
  BY <1>1, <1>6, <1>7, <1>8, <1>9 DEF SnippetShowsLine

\* The last places of b are those of a.
Closes(a, b, n, m) == n <= m /\ \A i \in 1..n : a[n - i + 1] = b[m - i + 1]

\* IsSuffix compares the ends of two sequences.
LEMMA SuffixFacts ==
  ASSUME NEW S, NEW a \in Seq(S), NEW b \in Seq(S), NEW n \in Nat, NEW m \in Nat,
         n = Len(a), m = Len(b)
  PROVE  IsSuffix(a, b) <=> Closes(a, b, n, m)
<1>1. PICK ra : ra = Reverse(a)
  OBVIOUS
<1>2. PICK rb : rb = Reverse(b)
  OBVIOUS
<1>3. /\ ra \in Seq(S) /\ Len(ra) = n /\ \A i \in 1..n : ra[i] = a[n - i + 1]
  <2>1. \A i \in 1..n : n - i + 1 \in 1..n
    OBVIOUS
  <2>2. \A i \in 1..n : a[n - i + 1] \in S
    BY <2>1, ElementOfSeq
  <2>3. ra = [i \in 1..n |-> a[n - i + 1]]
    BY <1>1 DEF Reverse
  <2>4. QED
    BY <2>2, <2>3
<1>4. /\ rb \in Seq(S) /\ Len(rb) = m /\ \A i \in 1..m : rb[i] = b[m - i + 1]
  <2>1. \A i \in 1..m : m - i + 1 \in 1..m
    OBVIOUS
  <2>2. \A i \in 1..m : b[m - i + 1] \in S
    BY <2>1, ElementOfSeq
  <2>3. rb = [i \in 1..m |-> b[m - i + 1]]
    BY <1>2 DEF Reverse
  <2>4. QED
    BY <2>2, <2>3
<1>5. IsSuffix(a, b) <=> n <= m /\ SubSeq(ra, 1, n) = SubSeq(rb, 1, n)
  BY <1>1, <1>2, <1>3, <1>4 DEF IsSuffix, IsPrefix
<1>6. ASSUME n <= m
      PROVE  (SubSeq(ra, 1, n) = SubSeq(rb, 1, n))
               <=> \A i \in 1..n : a[n - i + 1] = b[m - i + 1]
  <2>1. SubSeq(ra, 1, n) = [i \in 1..n |-> ra[i]] /\ SubSeq(rb, 1, n) = [i \in 1..n |-> rb[i]]
    <3>1. SubSeq(ra, 1, n) = [i \in 1..(n - 1 + 1) |-> ra[1 + i - 1]]
      BY SMT
    <3>2. SubSeq(rb, 1, n) = [i \in 1..(n - 1 + 1) |-> rb[1 + i - 1]]
      BY SMT
    <3>3. n - 1 + 1 = n /\ \A i \in 1..n : 1 + i - 1 = i
      OBVIOUS
    <3>4. QED
      BY <3>1, <3>2, <3>3
  <2>2. (SubSeq(ra, 1, n) = SubSeq(rb, 1, n)) <=> \A i \in 1..n : ra[i] = rb[i]
    BY <2>1
  <2>3. \A i \in 1..n : i \in 1..m
    BY <1>6
  <2>4. QED
    BY <1>3, <1>4, <2>2, <2>3
<1>7. QED
  BY <1>5, <1>6 DEF Closes

\* A path of characters stays one when its separators are made alike.
LEMMA NormalizeType ==
  ASSUME NEW S, NEW path \in Seq(S), "/" \in S
  PROVE  Normalize(path) \in Seq(S)
<1>1. PICK n \in Nat : n = Len(path) /\ DOMAIN path = 1..n
  BY LenProperties
<1> DEFINE slashed == [i \in DOMAIN path |-> IF path[i] = "\\" THEN "/" ELSE path[i]]
           solid == {i \in DOMAIN path : slashed[i] /= "/"}
<1>2. \A i \in 1..n : slashed[i] \in S
  BY <1>1, ElementOfSeq
<1>3. solid \in SUBSET (1..n)
  BY <1>1
<1> HIDE DEF slashed, solid
<1>4. CASE solid = {}
  <2>1. Normalize(path) = <<>>
    BY <1>4 DEF Normalize, solid, slashed
  <2>2. QED
    BY <2>1
<1>5. CASE solid # {}
  <2>1. Max(solid) \in solid
    BY <1>3, <1>5, LargestLemma
  <2>2. PICK m \in 1..n : m = Max(solid)
    BY <1>3, <2>1
  <2>3. SubSeq(slashed, 1, m) \in Seq(S)
    <3>1. \A i \in 1..m : slashed[i] \in S
      BY <1>2
    <3>2. 1 \in Int /\ m \in Int
      OBVIOUS
    <3>3. QED
      BY <3>1, <3>2, SubSeqProperties
  <2>4. Normalize(path) = SubSeq(slashed, 1, Max(solid))
    BY <1>5 DEF Normalize, solid, slashed
  <2>5. QED
    BY <2>2, <2>3, <2>4
<1>6. QED
  BY <1>4, <1>5

\* What source_paths_match matches.
LEMMA PathsFacts ==
  ASSUME StopsInv
  PROVE  PathsMatchEitherWay
<1> SUFFICES ASSUME query.about = "paths" PROVE PathsMatchEitherWay
  BY DEF PathsMatchEitherWay
<1>1. query.one \in Paths /\ query.other \in Paths
  BY DEF StopsInv, Asked
<1> DEFINE S == {"/"} \cup ToSet(query.one) \cup ToSet(query.other)
<1>2. query.one \in Seq(S) /\ query.other \in Seq(S)
  <2>1. query.one \in Seq(ToSet(query.one)) /\ query.other \in Seq(ToSet(query.other))
    BY <1>1, StopPolicyAssumption
  <2>2. ToSet(query.one) \subseteq S /\ ToSet(query.other) \subseteq S
    OBVIOUS
  <2> HIDE DEF S
  <2>3. QED
    BY <2>1, <2>2, SeqMonotonic
<1>3. PICK a \in Seq(S), b \in Seq(S) : a = Normalize(query.one) /\ b = Normalize(query.other)
  <2>1. "/" \in S
    OBVIOUS
  <2> HIDE DEF S
  <2>2. QED
    BY <1>2, <2>1, NormalizeType
<1>4. SourcePathsMatch(query.one, query.other) = SourcePathsMatch(query.other, query.one)
  BY DEF SourcePathsMatch, Ends
<1>5. IsSuffix(<<"/">> \o a, b) => IsSuffix(a, b)
  <2> SUFFICES ASSUME IsSuffix(<<"/">> \o a, b) PROVE IsSuffix(a, b)
    OBVIOUS
  <2>1. <<"/">> \in Seq(S) /\ Len(<<"/">>) = 1
    OBVIOUS
  <2> HIDE DEF S
  <2>2. PICK n \in Nat, m \in Nat, k \in Nat : n = Len(a) /\ m = Len(b) /\ k = n + 1
    BY LenProperties
  <2>3. PICK slash \in Seq(S) : slash = <<"/">> /\ Len(slash) = 1
    BY <2>1
  <2>4. PICK c \in Seq(S) : c = slash \o a
    BY ConcatProperties
  <2>5. Len(c) = k /\ \A i \in 1..k : c[i] = IF i <= 1 THEN slash[i] ELSE a[i - 1]
    <3>1. Len(c) = 1 + n /\ \A i \in 1..(1 + n) : c[i] = IF i <= 1 THEN slash[i] ELSE a[i - 1]
      BY <2>2, <2>3, <2>4, ConcatProperties
    <3>2. k = 1 + n
      BY <2>2
    <3>3. QED
      BY <3>1, <3>2
  <2>6. k <= m /\ \A i \in 1..k : c[k - i + 1] = b[m - i + 1]
    <3>1. IsSuffix(c, b)
      BY <2>3, <2>4
    <3>2. Closes(c, b, k, m)
      BY <2>2, <2>5, <3>1, SuffixFacts
    <3>3. QED
      BY <3>2 DEF Closes
  <2>7. \A i \in 1..n : a[n - i + 1] = b[m - i + 1]
    <3> SUFFICES ASSUME NEW i \in 1..n PROVE a[n - i + 1] = b[m - i + 1]
      OBVIOUS
    <3>1. i \in 1..k /\ k - i + 1 \in 1..k /\ ~(k - i + 1 <= 1)
          /\ k - i + 1 - 1 = n - i + 1
      BY <2>2
    <3>2. c[k - i + 1] = a[n - i + 1]
      BY <2>5, <3>1
    <3>3. QED
      BY <2>6, <3>1, <3>2
  <2>8. n <= m
    BY <2>2, <2>6
  <2>9. Closes(a, b, n, m)
    BY <2>7, <2>8 DEF Closes
  <2>10. QED
    BY <2>2, <2>9, SuffixFacts
<1>6. QED
  BY <1>3, <1>4, <1>5 DEF PathsMatchEitherWay, SourcePathsMatch, Ends

(* DecisionsFitDefinitions: paths match either way, the snippet shows the   *)
(* line, a watch keeps every change (stop_policy.rs, source_view.rs).      *)
THEOREM StopsAreDecidedRight ==
  StopsSpec => []DecisionsFitDefinitions
<1>1. StopsInv => DecisionsFitDefinitions
  BY SnippetFacts, PathsFacts DEF DecisionsFitDefinitions, WatchKeepsEveryChange, StopsInv, Changes
<1>2. QED
  BY <1>1, StopsInvariant, PTL
=============================================================================
