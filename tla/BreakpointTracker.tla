-------------------------- MODULE BreakpointTracker --------------------------
(***************************************************************************)
(* BreakpointTracker of crates/protocol-mux/src/breakpoint_state.rs: the   *)
(* multiplexer watches the setBreakpoints requests that pass through it,   *)
(* their responses, and the adapter's breakpoint events, and keeps from    *)
(* them the list of breakpoints it shows to clients that join late.        *)
(*                                                                         *)
(* The tracker is driven by an adapter that keeps the breakpoints itself:  *)
(* it handles requests one at a time, answers each when it handles it, and *)
(* numbers its breakpoints.  What the adapter holds is the state the       *)
(* tracker is supposed to show.  A breakpoint is abstracted to its line    *)
(* and its condition; hit conditions and log messages are treated by the   *)
(* code exactly as conditions are.  An event about a breakpoint carries    *)
(* its id and the adapter's verdict, and may leave out its file, its line  *)
(* or both.                                                                *)
(***************************************************************************)
EXTENDS Integers, Sequences, SequencesExt, HashMaps

CONSTANTS
  Paths,
  ClientPaths,  \* the source paths clients name
  Resolve,      \* the path the adapter reports for each of them
  Lines,
  Conditions,   \* the conditions a client may put on a breakpoint
  None,         \* no condition; no line in a response; no file or line in an event
  Filters,      \* exception filters
  Outcomes,     \* the success flags the adapter answers with
  Reported,     \* the origins of the breakpoints the adapter sends events about
  MaxRequests,  \* bound on requests
  MaxIds,       \* bound on the adapter's breakpoint ids
  MaxPerRequest \* bound on the breakpoints of a request

ASSUME TrackerAssumption ==
  /\ ClientPaths \subseteq Paths /\ Resolve \in [ClientPaths -> Paths]
  /\ Lines \subseteq Nat
  /\ None \notin Paths \cup Lines \cup Conditions
  /\ Outcomes \subseteq BOOLEAN
  /\ Reported \subseteq {"answered", "announced"}
  /\ MaxRequests \in Nat /\ MaxIds \in Nat /\ MaxPerRequest \in Nat

VARIABLES
  source_breakpoints,       \* path -> its breakpoints, in order
  exception_breakpoints,
  pending_set_breakpoints,  \* backend seq -> a request not yet confirmed
  breakpoint_ids,           \* adapter id -> <<path, index>>
  backend_seq,              \* backend seqs handed out
  asked,                    \* the requests the adapter has not handled
  adapter,                  \* path -> the breakpoints the adapter holds
  unplaced,                 \* ids the adapter announced, with no file and line so far
  adapter_exceptions,
  next_id                   \* ids the adapter has handed out

tracker == <<source_breakpoints, exception_breakpoints, pending_set_breakpoints, breakpoint_ids>>
vars == <<tracker, backend_seq, asked, adapter, unplaced, adapter_exceptions, next_id>>

Bp(line, condition) == [line |-> line, condition |-> condition]
Specs == UNION {[1..n -> [line : Lines, condition : Conditions \cup {None}]] : n \in 0..MaxPerRequest}

\* The breakpoints of a path, none if it has no entry.
Entries(path) ==
  IF path \in DOMAIN source_breakpoints THEN source_breakpoints[path] ELSE <<>>

Init ==
  /\ source_breakpoints = EmptyMap /\ exception_breakpoints = {}
  /\ pending_set_breakpoints = EmptyMap /\ breakpoint_ids = EmptyMap
  /\ backend_seq = 0 /\ asked = EmptyMap
  /\ adapter = [path \in Paths |-> <<>>] /\ adapter_exceptions = {}
  /\ unplaced = {} /\ next_id = 0

-----------------------------------------------------------------------------
(* Requests: track_set_breakpoints_request, track_set_exception_breakpoints_request *)

\* A request of a client passes through under a new backend seq.
Ask(request) ==
  /\ backend_seq < MaxRequests
  /\ backend_seq' = backend_seq + 1
  /\ asked' = Insert(asked, backend_seq', request)
  /\ UNCHANGED <<source_breakpoints, breakpoint_ids, adapter, unplaced, adapter_exceptions,
                 next_id>>

SetBreakpoints(path, specs) ==
  /\ Ask([command |-> "setBreakpoints", path |-> path, specs |-> specs])
  /\ pending_set_breakpoints' =
       Insert(pending_set_breakpoints, backend_seq', [path |-> path, specs |-> specs])
  /\ UNCHANGED exception_breakpoints

\* The filters are recorded when they are asked for, not when they are confirmed.
SetExceptionBreakpoints(filters) ==
  /\ Ask([command |-> "setExceptionBreakpoints", filters |-> filters])
  /\ exception_breakpoints' = filters
  /\ UNCHANGED pending_set_breakpoints

-----------------------------------------------------------------------------
(* Responses *)

\* Fault: breakpoints the adapter could not verify are kept.
MergeUnverified(items, specs) ==
  IF items = <<>> THEN specs
  ELSE [i \in 1..Len(items) |->
          Bp(IF items[i].line = None THEN specs[i].line ELSE items[i].line, specs[i].condition)]

\* The k-th of the numbers in S, in ascending order.
Kth(S, k) == CHOOSE i \in S : Cardinality(S \cap (1..i)) = k

\* merge_breakpoints: the i-th answer refines the i-th breakpoint asked for; those that
\* are not verified are dropped; an answer without items confirms the request as it is.
Merge(items, specs) ==
  LET verified == {i \in 1..Len(items) : items[i].verified}
  IN IF items = <<>> THEN specs
     ELSE [k \in 1..Cardinality(verified) |-> MergeUnverified(items, specs)[Kth(verified, k)]]

\* rebuild_source_breakpoints.
Rebuild(path, specs) ==
  /\ breakpoint_ids' = Restrict(breakpoint_ids,
                                {id \in DOMAIN breakpoint_ids : breakpoint_ids[id][1] # path})
  /\ source_breakpoints' =
       IF specs = <<>> THEN Without(source_breakpoints, path)
       ELSE Insert(source_breakpoints, path, specs)

\* observe_set_breakpoints_response.  The path is the one of the first item answered.
ObserveResponse(b, success, items, resolved) ==
  \/ /\ success /\ b \in DOMAIN pending_set_breakpoints
     /\ pending_set_breakpoints' = Without(pending_set_breakpoints, b)
     /\ LET pending == pending_set_breakpoints[b]
        IN Rebuild(IF items = <<>> THEN pending.path ELSE resolved,
                   Merge(items, pending.specs))
  \/ /\ ~(success /\ b \in DOMAIN pending_set_breakpoints)
     /\ UNCHANGED <<source_breakpoints, breakpoint_ids, pending_set_breakpoints>>

\* The requests of a kind that the adapter has not handled.
Asked(command) == {b \in DOMAIN asked : asked[b].command = command}

\* The adapter handles request b.  If it succeeds it replaces what it had for the path,
\* and answers one item per breakpoint, with a line where it moved the breakpoint and a
\* verdict; or it omits the items and takes the breakpoints as asked.
Answer(b, success, items) ==
  LET request == asked[b]
      path == Resolve[request.path]
      Held(i) == [id |-> next_id + i,
                  line |-> IF items = <<>> \/ items[i].line = None
                           THEN request.specs[i].line ELSE items[i].line,
                  condition |-> request.specs[i].condition,
                  verified |-> items = <<>> \/ items[i].verified,
                  origin |-> "answered"]
  IN /\ asked' = Without(asked, b)
     /\ next_id + Len(request.specs) <= MaxIds
     /\ ObserveResponse(b, success, items, path)
     /\ IF success
        THEN /\ adapter' = [adapter EXCEPT ![path] = [i \in 1..Len(request.specs) |-> Held(i)]]
             /\ next_id' = next_id + Len(request.specs)
        ELSE UNCHANGED <<adapter, next_id>>
     /\ UNCHANGED <<exception_breakpoints, backend_seq, unplaced, adapter_exceptions>>

\* The adapter handles a setExceptionBreakpoints; the tracker does not look at the answer.
AnswerExceptions(b, success) ==
  /\ asked' = Without(asked, b)
  /\ adapter_exceptions' = IF success THEN asked[b].filters ELSE adapter_exceptions
  /\ UNCHANGED <<tracker, backend_seq, adapter, unplaced, next_id>>

\* The items the adapter may answer a request with: one for each of its breakpoints.
Items(specs) ==
  {<<>>} \cup [1..Len(specs) -> [line : Lines \cup {None}, verified : BOOLEAN]]

-----------------------------------------------------------------------------
(* Events: observe_breakpoint_event *)

\* apply_new_breakpoint: without a file or a line the event is ignored; a known id
\* overwrites its index, any other is appended.  The verdict is not looked at.
ApplyNew(id, source, spec) ==
  LET entries == Entries(source)
      placed == source # None /\ spec.line # None
      known == id \in DOMAIN breakpoint_ids /\ breakpoint_ids[id][2] <= Len(entries)
  IN \/ /\ placed /\ known
        /\ source_breakpoints' =
             Insert(source_breakpoints, source, [entries EXCEPT ![breakpoint_ids[id][2]] = spec])
        /\ UNCHANGED breakpoint_ids
     \/ /\ placed /\ ~known
        /\ source_breakpoints' = Insert(source_breakpoints, source, Append(entries, spec))
        /\ breakpoint_ids' = Insert(breakpoint_ids, id, <<source, Len(entries) + 1>>)
     \/ ~placed /\ UNCHANGED <<source_breakpoints, breakpoint_ids>>

\* apply_changed_breakpoint: a known id has its line updated in place, if the event has
\* one, and keeps its condition (the event carries none); any other is taken for a new
\* breakpoint.  The verdict is not looked at.
ApplyChanged(id, source, line) ==
  LET at == breakpoint_ids[id]
      known == id \in DOMAIN breakpoint_ids /\ at[2] <= Len(Entries(at[1]))
  IN \/ /\ known /\ line # None
        /\ source_breakpoints' = [source_breakpoints EXCEPT ![at[1]][at[2]].line = line]
        /\ UNCHANGED breakpoint_ids
     \/ known /\ line = None /\ UNCHANGED <<source_breakpoints, breakpoint_ids>>
     \/ ~known /\ ApplyNew(id, source, Bp(line, None))

\* Fault: the indices after the removed breakpoint are not shifted.
ApplyRemovedNoShift(id) ==
  LET at == breakpoint_ids[id]
      rest == RemoveAt(Entries(at[1]), at[2])
  IN \/ /\ id \in DOMAIN breakpoint_ids
        /\ source_breakpoints' =
             IF rest = <<>> THEN Without(source_breakpoints, at[1])
             ELSE Insert(source_breakpoints, at[1], rest)
        /\ breakpoint_ids' = Without(breakpoint_ids, id)
     \/ id \notin DOMAIN breakpoint_ids /\ UNCHANGED <<source_breakpoints, breakpoint_ids>>

\* apply_removed_breakpoint: an unknown id is ignored.
ApplyRemoved(id) ==
  LET at == breakpoint_ids[id]
      entries == Entries(at[1])
      rest == IF at[2] <= Len(entries) THEN RemoveAt(entries, at[2]) ELSE entries
      Shifted(pos) == IF pos[1] = at[1] /\ pos[2] > at[2] THEN <<pos[1], pos[2] - 1>> ELSE pos
  IN \/ /\ id \in DOMAIN breakpoint_ids
        /\ source_breakpoints' =
             IF rest = <<>> THEN Without(source_breakpoints, at[1])
             ELSE Insert(source_breakpoints, at[1], rest)
        /\ breakpoint_ids' =
             [other \in DOMAIN breakpoint_ids \ {id} |-> Shifted(breakpoint_ids[other])]
     \/ id \notin DOMAIN breakpoint_ids /\ UNCHANGED <<source_breakpoints, breakpoint_ids>>

\* The adapter holds a breakpoint of its own from the first event that places it in a
\* file and on a line.
Hold(id, source, line, verified) ==
  \/ /\ source # None /\ line # None
     /\ adapter' = [adapter EXCEPT ![source] =
          Append(@, [id |-> id, line |-> line, condition |-> None, verified |-> verified,
                     origin |-> "announced"])]
     /\ unplaced' = unplaced \ {id}
  \/ /\ source = None \/ line = None
     /\ unplaced' = unplaced \cup {id}
     /\ UNCHANGED adapter

\* The adapter makes a breakpoint of its own accord and announces it.
Announce(source, line, verified) ==
  /\ "announced" \in Reported /\ next_id < MaxIds
  /\ next_id' = next_id + 1
  /\ Hold(next_id', source, line, verified)
  /\ ApplyNew(next_id', source, Bp(line, None))
  /\ UNCHANGED <<exception_breakpoints, pending_set_breakpoints, backend_seq, asked,
                 adapter_exceptions>>

\* It reports on one that it had not placed yet.
ChangeUnplaced(id, source, line, verified) ==
  /\ Hold(id, source, line, verified)
  /\ ApplyChanged(id, source, line)
  /\ UNCHANGED <<exception_breakpoints, pending_set_breakpoints, backend_seq, asked,
                 adapter_exceptions, next_id>>

\* The adapter moves a breakpoint, or changes its verdict.
Change(path, i, source, line, verified) ==
  /\ adapter[path][i].origin \in Reported
  /\ adapter' = [adapter EXCEPT ![path][i].line = IF line = None THEN @ ELSE line,
                                ![path][i].verified = verified]
  /\ ApplyChanged(adapter[path][i].id, source, line)
  /\ UNCHANGED <<exception_breakpoints, pending_set_breakpoints, backend_seq, asked,
                 unplaced, adapter_exceptions, next_id>>

\* The adapter drops a breakpoint.
Drop(path, i) ==
  /\ adapter[path][i].origin \in Reported
  /\ adapter' = [adapter EXCEPT ![path] = RemoveAt(@, i)]
  /\ ApplyRemoved(adapter[path][i].id)
  /\ UNCHANGED <<exception_breakpoints, pending_set_breakpoints, backend_seq, asked,
                 unplaced, adapter_exceptions, next_id>>

DropUnplaced(id) ==
  /\ unplaced' = unplaced \ {id}
  /\ ApplyRemoved(id)
  /\ UNCHANGED <<exception_breakpoints, pending_set_breakpoints, backend_seq, asked,
                 adapter, adapter_exceptions, next_id>>

MaybeLine == Lines \cup {None}

Next ==
  \/ \E path \in ClientPaths, specs \in Specs : SetBreakpoints(path, specs)
  \/ \E filters \in SUBSET Filters : SetExceptionBreakpoints(filters)
  \/ \E b \in Asked("setBreakpoints"), success \in Outcomes :
       \E items \in Items(asked[b].specs) : Answer(b, success, items)
  \/ \E b \in Asked("setExceptionBreakpoints"), success \in Outcomes :
       AnswerExceptions(b, success)
  \/ \E source \in Paths \cup {None}, line \in MaybeLine, verified \in BOOLEAN :
       \/ Announce(source, line, verified)
       \/ \E id \in unplaced : ChangeUnplaced(id, source, line, verified)
  \/ \E path \in Paths : \E i \in 1..Len(adapter[path]) :
       \/ \E source \in {path, None}, line \in MaybeLine, verified \in BOOLEAN :
            Change(path, i, source, line, verified)
       \/ Drop(path, i)
  \/ \E id \in unplaced : DropUnplaced(id)

Spec == Init /\ [][Next]_vars

-----------------------------------------------------------------------------
(* Properties *)

\* Every variable has its type.
TypeOK ==
  /\ DOMAIN source_breakpoints \subseteq Paths
  /\ \A path \in DOMAIN source_breakpoints :
       source_breakpoints[path] \in Seq([line : Lines, condition : Conditions \cup {None}])
  /\ exception_breakpoints \subseteq Filters /\ adapter_exceptions \subseteq Filters
  /\ backend_seq \in 0..MaxRequests /\ next_id \in 0..MaxIds /\ unplaced \subseteq 1..next_id
  /\ DOMAIN breakpoint_ids \subseteq 1..next_id
  /\ \A id \in DOMAIN breakpoint_ids : breakpoint_ids[id] \in Paths \X (Nat \ {0})
  /\ Asked("setBreakpoints") \subseteq DOMAIN pending_set_breakpoints
  /\ DOMAIN asked \subseteq 1..backend_seq
  /\ DOMAIN pending_set_breakpoints \subseteq 1..backend_seq

\* Every id the tracker remembers points at an entry of its file, two ids at two entries,
\* and no file is left without entries: removals shift the indices of the others and a
\* replaced file forgets its ids (rebuild_source_breakpoints, apply_removed_breakpoint).
IdsPointInside ==
  /\ \A id \in DOMAIN breakpoint_ids :
       LET at == breakpoint_ids[id] IN
       at[1] \in DOMAIN source_breakpoints /\ at[2] \in 1..Len(source_breakpoints[at[1]])
  /\ \A i, j \in DOMAIN breakpoint_ids : breakpoint_ids[i] = breakpoint_ids[j] => i = j
  /\ \A path \in DOMAIN source_breakpoints : source_breakpoints[path] # <<>>

\* The tracker's tables have their types and belong together: no event about one
\* breakpoint edits another (apply_removed_breakpoint shifts, rebuild_source_breakpoints
\* forgets).
TrackerConsistent == TypeOK /\ IdsPointInside

\* A breakpoint the tracker is to show.  One that a request asked for has to be verified;
\* one the adapter announced is shown whatever its verdict, as no event's is looked at.
Listed(breakpoint) == breakpoint.verified \/ breakpoint.origin = "announced"

\* The breakpoints the snapshot shows are, each as often as the adapter holds it, those it
\* verified in an answer and those it announced with a file and a line, verified or not,
\* whatever was answered, refused, announced, changed or dropped (BreakpointTracker).
SnapshotMatchesAdapter ==
  \A path \in Paths : \A spec \in [line : Lines, condition : Conditions \cup {None}] :
    Cardinality({i \in 1..Len(Entries(path)) : Entries(path)[i] = spec})
      = Cardinality({i \in 1..Len(adapter[path]) :
                       /\ Listed(adapter[path][i])
                       /\ Bp(adapter[path][i].line, adapter[path][i].condition) = spec})
=============================================================================
