----------------------- MODULE BreakpointTrackerProofs -----------------------
(***************************************************************************)
(* Proofs about the breakpoint tracker, for any files, lines, conditions   *)
(* and any number of requests and events: its tables belong together, and, *)
(* when the adapter reports no change of a breakpoint it answered with,    *)
(* its snapshot shows what the adapter holds.                              *)
(***************************************************************************)
EXTENDS BreakpointTracker, CollectionLemmas

-----------------------------------------------------------------------------
(* The inductive invariant *)

\* The breakpoints of the snapshot, and those the adapter holds.
Bps == [line : Lines, condition : Conditions \cup {None}]
HeldBps == [id : 1..next_id, line : Lines, condition : Conditions \cup {None}, verified : BOOLEAN,
            origin : {"answered", "announced"}]

\* What passed through: a request of either kind, and what the tracker kept of the first.
PendingSets == [path : ClientPaths, specs : Specs]
AskedRecords ==
  [command : {"setBreakpoints"}, path : ClientPaths, specs : Specs]
  \cup [command : {"setExceptionBreakpoints"}, filters : SUBSET Filters]

\* The types of the tables, in the form the steps need.
Shapes ==
  /\ source_breakpoints \in Maps(Paths, Seq(Bps))
  /\ breakpoint_ids \in Maps(1..next_id, Paths \X (Nat \ {0}))
  /\ asked \in Maps(1..backend_seq, AskedRecords)
  /\ pending_set_breakpoints \in Maps(1..backend_seq, PendingSets)
  /\ adapter \in [Paths -> Seq(HeldBps)]
  /\ exception_breakpoints \subseteq Filters /\ adapter_exceptions \subseteq Filters
  /\ backend_seq \in 0..MaxRequests /\ next_id \in 0..MaxIds /\ unplaced \subseteq 1..next_id

\* A request that is not answered is kept as it was asked.
PendingAsAsked ==
  \A b \in Asked("setBreakpoints") :
    /\ b \in DOMAIN pending_set_breakpoints
    /\ pending_set_breakpoints[b] = [path |-> asked[b].path, specs |-> asked[b].specs]

TrackerInv == Shapes /\ PendingAsAsked /\ IdsPointInside

\* What the steps must keep of the two tables the snapshot comes from.
TablesOK ==
  /\ source_breakpoints \in Maps(Paths, Seq(Bps))
  /\ breakpoint_ids \in Maps(1..next_id, Paths \X (Nat \ {0}))
  /\ IdsPointInside

-----------------------------------------------------------------------------
(* What the handlers do to the tables *)

\* The breakpoints of a path are a sequence, and the ids of the path are within it.
LEMMA EntriesLemma ==
  ASSUME TablesOK
  PROVE  /\ \A path \in Paths : /\ Entries(path) \in Seq(Bps) /\ Len(Entries(path)) \in Nat
                                /\ path \in DOMAIN source_breakpoints <=> Len(Entries(path)) > 0
         /\ \A id \in DOMAIN breakpoint_ids :
              /\ breakpoint_ids[id][1] \in Paths /\ breakpoint_ids[id][2] \in Nat \ {0}
              /\ breakpoint_ids[id] = <<breakpoint_ids[id][1], breakpoint_ids[id][2]>>
              /\ breakpoint_ids[id][1] \in DOMAIN source_breakpoints
              /\ breakpoint_ids[id][2] <= Len(Entries(breakpoint_ids[id][1]))
<1>1. ASSUME NEW path \in Paths
      PROVE  /\ Entries(path) \in Seq(Bps) /\ Len(Entries(path)) \in Nat
             /\ path \in DOMAIN source_breakpoints <=> Len(Entries(path)) > 0
  <2>1. CASE path \in DOMAIN source_breakpoints
    <3>1. Entries(path) = source_breakpoints[path] /\ source_breakpoints[path] \in Seq(Bps)
      BY <2>1, MapsEntries DEF Entries, TablesOK
    <3>2. Entries(path) # <<>>
      BY <2>1, <3>1 DEF TablesOK, IdsPointInside
    <3>3. QED
      BY <2>1, <3>1, <3>2, EmptySeq
  <2>2. CASE path \notin DOMAIN source_breakpoints
    BY <2>2, EmptySeq DEF Entries
  <2>3. QED
    BY <2>1, <2>2
<1>2. ASSUME NEW id \in DOMAIN breakpoint_ids
      PROVE  /\ breakpoint_ids[id][1] \in Paths /\ breakpoint_ids[id][2] \in Nat \ {0}
             /\ breakpoint_ids[id] = <<breakpoint_ids[id][1], breakpoint_ids[id][2]>>
             /\ breakpoint_ids[id][1] \in DOMAIN source_breakpoints
             /\ breakpoint_ids[id][2] <= Len(Entries(breakpoint_ids[id][1]))
  <2>1. breakpoint_ids[id] \in Paths \X (Nat \ {0})
    BY MapsEntries DEF TablesOK
  <2>2. /\ breakpoint_ids[id][1] \in DOMAIN source_breakpoints
        /\ breakpoint_ids[id][2] \in 1..Len(source_breakpoints[breakpoint_ids[id][1]])
    BY DEF TablesOK, IdsPointInside
  <2>3. QED
    BY <1>1, <2>1, <2>2 DEF Entries
<1>3. QED
  BY <1>1, <1>2

\* A file's breakpoints are replaced, and the file is forgotten when it has none.
Stores(path, entries) ==
  source_breakpoints' = IF entries = <<>> THEN Without(source_breakpoints, path)
                        ELSE Insert(source_breakpoints, path, entries)

LEMMA StoresLemma ==
  ASSUME TablesOK, NEW path \in Paths, NEW entries \in Seq(Bps), Stores(path, entries)
  PROVE  /\ source_breakpoints' \in Maps(Paths, Seq(Bps))
         /\ \A q \in DOMAIN source_breakpoints' : source_breakpoints'[q] # <<>>
         /\ Entries(path)' = entries
         /\ \A q \in Paths : q # path => Entries(q)' = Entries(q)
<1>1. CASE entries = <<>>
  <2>1. source_breakpoints' = Without(source_breakpoints, path)
    BY <1>1 DEF Stores
  <2>2. source_breakpoints' \in Maps(Paths, Seq(Bps))
    BY <2>1, WithoutType DEF TablesOK
  <2>3. DOMAIN source_breakpoints' = DOMAIN source_breakpoints \ {path}
        /\ \A q \in DOMAIN source_breakpoints : q # path => source_breakpoints'[q] = source_breakpoints[q]
    BY <2>1, WithoutLemma
  <2>4. QED
    BY <1>1, <2>2, <2>3 DEF TablesOK, IdsPointInside, Entries
<1>2. CASE entries # <<>>
  <2>1. source_breakpoints' = Insert(source_breakpoints, path, entries)
    BY <1>2 DEF Stores
  <2>2. source_breakpoints' \in Maps(Paths, Seq(Bps))
    BY <2>1, InsertType DEF TablesOK
  <2>3. /\ DOMAIN source_breakpoints' = DOMAIN source_breakpoints \cup {path}
        /\ source_breakpoints'[path] = entries
        /\ \A q \in DOMAIN source_breakpoints : q # path => source_breakpoints'[q] = source_breakpoints[q]
    <3> DEFINE new == Insert(source_breakpoints, path, entries)
    <3>1. /\ DOMAIN new = DOMAIN source_breakpoints \cup {path} /\ new[path] = entries
          /\ \A q \in DOMAIN source_breakpoints : q # path => new[q] = source_breakpoints[q]
      BY DEF Insert
    <3>2. QED
      BY <2>1, <3>1
  <2>4. QED
    BY <1>2, <2>2, <2>3 DEF TablesOK, IdsPointInside, Entries
<1>3. QED
  BY <1>1, <1>2

\* The tables belong together when each id is within the breakpoints of its file.
LEMMA TablesFrom ==
  ASSUME source_breakpoints' \in Maps(Paths, Seq(Bps)),
         \A q \in DOMAIN source_breakpoints' : source_breakpoints'[q] # <<>>,
         breakpoint_ids' \in Maps(1..next_id', Paths \X (Nat \ {0})),
         \A id \in DOMAIN breakpoint_ids' : \E q \in Paths, k \in Nat \ {0} :
            breakpoint_ids'[id] = <<q, k>> /\ k <= Len(Entries(q)'),
         \A i, j \in DOMAIN breakpoint_ids' : breakpoint_ids'[i] = breakpoint_ids'[j] => i = j
  PROVE  TablesOK'
<1>1. ASSUME NEW id \in DOMAIN breakpoint_ids'
      PROVE  /\ breakpoint_ids'[id][1] \in DOMAIN source_breakpoints'
             /\ breakpoint_ids'[id][2] \in 1..Len(source_breakpoints'[breakpoint_ids'[id][1]])
  <2>1. PICK q \in Paths, k \in Nat \ {0} : breakpoint_ids'[id] = <<q, k>> /\ k <= Len(Entries(q)')
    OBVIOUS
  <2>2. q \in DOMAIN source_breakpoints'
    <3>1. q \notin DOMAIN source_breakpoints' => Entries(q)' = <<>> /\ Len(<<>>) = 0
      BY EmptySeq DEF Entries
    <3>2. QED
      BY <2>1, <3>1
  <2>3. Entries(q)' = source_breakpoints'[q] /\ Len(source_breakpoints'[q]) \in Nat
    <3>1. source_breakpoints'[q] \in Seq(Bps)
      BY <2>2, MapsEntries
    <3>2. QED
      BY <2>2, <3>1, LenProperties DEF Entries
  <2>4. QED
    BY <2>1, <2>2, <2>3
<1>2. QED
  BY <1>1 DEF TablesOK, IdsPointInside

\* An id map of a smaller range is one of a larger.
LEMMA IdsGrow ==
  ASSUME NEW m \in Nat, NEW n \in Nat, m <= n, NEW V, NEW f \in Maps(1..m, V)
  PROVE  f \in Maps(1..n, V)
<1>1. 1..m \subseteq 1..n
  OBVIOUS
<1>2. QED
  BY <1>1, MapsDef

LEMMA ApplyNewPlaced ==
  ASSUME TablesOK, next_id \in Nat, next_id' \in Nat, next_id <= next_id',
         NEW id \in 1..next_id', NEW path \in Paths, NEW spec \in Bps, ApplyNew(id, path, spec)
  PROVE  TablesOK'
<1> DEFINE entries == Entries(path)
           at == breakpoint_ids[id]
<1>1. entries \in Seq(Bps) /\ Len(entries) \in Nat
  BY EntriesLemma
<1>2. breakpoint_ids \in Maps(1..next_id', Paths \X (Nat \ {0}))
  BY IdsGrow DEF TablesOK
<1>3. CASE /\ id \in DOMAIN breakpoint_ids /\ at[2] <= Len(entries)
           /\ source_breakpoints' = Insert(source_breakpoints, path, [entries EXCEPT ![at[2]] = spec])
           /\ UNCHANGED breakpoint_ids
  <2> DEFINE new == [entries EXCEPT ![at[2]] = spec]
  <2>1. at[2] \in 1..Len(entries)
    BY <1>1, <1>3, EntriesLemma
  <2>2. new \in Seq(Bps) /\ Len(new) = Len(entries)
    BY <1>1, <2>1, ExceptSeq
  <2> HIDE DEF new
  <2>3. Stores(path, new)
    BY <1>3, <2>1, <2>2, EmptySeq DEF Stores, new
  <2>4. \A q \in Paths : Len(Entries(q)') = Len(Entries(q))
    BY <2>2, <2>3, StoresLemma
  <2>5. /\ source_breakpoints' \in Maps(Paths, Seq(Bps))
        /\ \A q \in DOMAIN source_breakpoints' : source_breakpoints'[q] # <<>>
    BY <2>2, <2>3, StoresLemma
  <2>6. \A i \in DOMAIN breakpoint_ids' : \E q \in Paths, k \in Nat \ {0} :
            breakpoint_ids'[i] = <<q, k>> /\ k <= Len(Entries(q)')
    BY <1>3, <2>4, EntriesLemma
  <2>7. QED
    BY <1>2, <1>3, <2>5, <2>6, TablesFrom DEF TablesOK, IdsPointInside
<1>4. CASE /\ source_breakpoints' = Insert(source_breakpoints, path, Append(entries, spec))
           /\ breakpoint_ids' = Insert(breakpoint_ids, id, <<path, Len(entries) + 1>>)
  <2> DEFINE new == Append(entries, spec)
             pos == <<path, Len(entries) + 1>>
  <2>1. new \in Seq(Bps) /\ new # <<>> /\ Len(new) = Len(entries) + 1
    BY <1>1, AppendProperties
  <2> HIDE DEF new
  <2>2. Stores(path, new)
    BY <1>4, <2>1 DEF Stores, new
  <2>3. /\ Entries(path)' = new /\ \A q \in Paths : q # path => Entries(q)' = Entries(q)
        /\ source_breakpoints' \in Maps(Paths, Seq(Bps))
        /\ \A q \in DOMAIN source_breakpoints' : source_breakpoints'[q] # <<>>
    BY <2>1, <2>2, StoresLemma
  <2>4. pos \in Paths \X (Nat \ {0})
    BY <1>1
  <2>5. breakpoint_ids' \in Maps(1..next_id', Paths \X (Nat \ {0}))
    BY <1>2, <1>4, <2>4, InsertType
  <2>6. /\ DOMAIN breakpoint_ids' = DOMAIN breakpoint_ids \cup {id} /\ breakpoint_ids'[id] = pos
        /\ \A i \in DOMAIN breakpoint_ids : i # id => breakpoint_ids'[i] = breakpoint_ids[i]
    <3> DEFINE ids == Insert(breakpoint_ids, id, pos)
    <3>1. /\ DOMAIN ids = DOMAIN breakpoint_ids \cup {id} /\ ids[id] = pos
          /\ \A i \in DOMAIN breakpoint_ids : i # id => ids[i] = breakpoint_ids[i]
      BY DEF Insert
    <3>2. QED
      BY <1>4, <3>1
  <2>7. \A i \in DOMAIN breakpoint_ids' : \E q \in Paths, k \in Nat \ {0} :
            breakpoint_ids'[i] = <<q, k>> /\ k <= Len(Entries(q)')
    <3>1. TAKE i \in DOMAIN breakpoint_ids'
    <3>2. CASE i = id
      BY <1>1, <2>1, <2>3, <2>6, <3>2
    <3>3. CASE i # id
      <4>1. i \in DOMAIN breakpoint_ids /\ breakpoint_ids'[i] = breakpoint_ids[i]
        BY <2>6, <3>3
      <4>2. PICK q \in Paths, k \in Nat \ {0} :
              breakpoint_ids[i] = <<q, k>> /\ k <= Len(Entries(q))
        BY <4>1, EntriesLemma
      <4>3. Len(Entries(q)) <= Len(Entries(q)') /\ Len(Entries(q)) \in Nat /\ Len(Entries(q)') \in Nat
        BY <1>1, <2>1, <2>3, EntriesLemma
      <4>4. QED
        BY <4>1, <4>2, <4>3
    <3>4. QED
      BY <3>2, <3>3
  <2>8. \A i \in DOMAIN breakpoint_ids : breakpoint_ids[i] # pos
    <3>1. TAKE i \in DOMAIN breakpoint_ids
    <3>2. PICK q \in Paths, k \in Nat \ {0} : breakpoint_ids[i] = <<q, k>> /\ k <= Len(Entries(q))
      BY EntriesLemma
    <3>3. QED
      BY <1>1, <3>2
  <2>9. \A i, j \in DOMAIN breakpoint_ids' : breakpoint_ids'[i] = breakpoint_ids'[j] => i = j
    BY <2>6, <2>8 DEF TablesOK, IdsPointInside
  <2>10. QED
    BY <2>3, <2>5, <2>7, <2>9, TablesFrom
<1>5. path # None /\ spec.line # None
  BY TrackerAssumption DEF Bps
<1>6. QED
  BY <1>3, <1>4, <1>5 DEF ApplyNew

\* An event that names no file or no line changes neither table.
LEMMA ApplyNewLemma ==
  ASSUME TablesOK, next_id \in Nat, next_id' \in Nat, next_id <= next_id',
         NEW id \in 1..next_id', NEW source \in Paths \cup {None}, NEW line \in MaybeLine,
         ApplyNew(id, source, Bp(line, None))
  PROVE  TablesOK'
<1>1. CASE source # None /\ line # None
  <2>1. source \in Paths /\ Bp(line, None) \in Bps
    BY <1>1 DEF Bp, Bps, MaybeLine
  <2>2. QED
    BY <2>1, ApplyNewPlaced
<1>2. CASE source = None \/ line = None
  <2>1. UNCHANGED <<source_breakpoints, breakpoint_ids>>
    BY <1>2 DEF ApplyNew, Bp
  <2>2. breakpoint_ids' \in Maps(1..next_id', Paths \X (Nat \ {0}))
    BY <2>1, IdsGrow DEF TablesOK
  <2>3. QED
    BY <2>1, <2>2 DEF TablesOK, IdsPointInside
<1>3. QED
  BY <1>1, <1>2

LEMMA ApplyChangedLemma ==
  ASSUME TablesOK, next_id \in Nat, UNCHANGED next_id, NEW id \in 1..next_id,
         NEW source \in Paths \cup {None}, NEW line \in MaybeLine, ApplyChanged(id, source, line)
  PROVE  TablesOK'
<1> DEFINE at == breakpoint_ids[id]
           entries == Entries(at[1])
<1>1. CASE /\ id \in DOMAIN breakpoint_ids /\ at[2] <= Len(entries) /\ line # None
           /\ source_breakpoints' = [source_breakpoints EXCEPT ![at[1]][at[2]].line = line]
           /\ UNCHANGED breakpoint_ids
  <2>1. /\ at[1] \in Paths /\ at[1] \in DOMAIN source_breakpoints /\ at[2] \in 1..Len(entries)
        /\ entries \in Seq(Bps) /\ entries = source_breakpoints[at[1]]
        /\ source_breakpoints \in [DOMAIN source_breakpoints -> Seq(Bps)]
        /\ DOMAIN source_breakpoints \subseteq Paths
    BY <1>1, EntriesLemma, MapsDef DEF TablesOK, Entries
  <2> DEFINE spec == [entries[at[2]] EXCEPT !.line = line]
             new == [entries EXCEPT ![at[2]] = spec]
  <2>2. spec \in Bps
    <3>1. entries[at[2]] \in Bps /\ line \in Lines
      BY <1>1, <2>1, ElementOfSeq DEF MaybeLine
    <3>2. QED
      BY <3>1 DEF Bps
  <2>3. new \in Seq(Bps) /\ Len(new) = Len(entries)
    <3> HIDE DEF spec
    <3> QED BY <2>1, <2>2, ExceptSeq
  <2>4. source_breakpoints' = [source_breakpoints EXCEPT ![at[1]] = new]
    BY <1>1, <2>1
  <2> HIDE DEF new
  <2>5. source_breakpoints' \in [DOMAIN source_breakpoints -> Seq(Bps)]
    BY <2>1, <2>3, <2>4
  <2>6. source_breakpoints' \in Maps(Paths, Seq(Bps)) /\ DOMAIN source_breakpoints' = DOMAIN source_breakpoints
    BY <2>1, <2>5, MapsDef
  <2>7. \A q \in DOMAIN source_breakpoints :
           source_breakpoints'[q] \in Seq(Bps) /\ Len(source_breakpoints'[q]) = Len(source_breakpoints[q])
    BY <2>1, <2>3, <2>4
  <2>8. \A q \in DOMAIN source_breakpoints' : source_breakpoints'[q] # <<>>
    BY <2>1, <2>6, <2>7, EmptySeq DEF TablesOK, IdsPointInside
  <2>9. \A q \in Paths : Len(Entries(q)') = Len(Entries(q))
    BY <2>6, <2>7 DEF Entries
  <2>10. \A i \in DOMAIN breakpoint_ids' : \E q \in Paths, k \in Nat \ {0} :
            breakpoint_ids'[i] = <<q, k>> /\ k <= Len(Entries(q)')
    BY <1>1, <2>9, EntriesLemma
  <2>11. QED
    BY <1>1, <2>6, <2>8, <2>10, TablesFrom DEF TablesOK, IdsPointInside
<1>2. CASE ApplyNew(id, source, Bp(line, None))
  BY <1>2, ApplyNewLemma
<1>3. CASE UNCHANGED <<source_breakpoints, breakpoint_ids>>
  BY <1>3 DEF TablesOK, IdsPointInside
<1>4. QED
  BY <1>1, <1>2, <1>3 DEF ApplyChanged

LEMMA ApplyRemovedLemma ==
  ASSUME TablesOK, next_id \in Nat, UNCHANGED next_id, NEW id, ApplyRemoved(id)
  PROVE  TablesOK'
<1>1. CASE id \notin DOMAIN breakpoint_ids
  BY <1>1 DEF ApplyRemoved, TablesOK, IdsPointInside
<1>2. CASE id \in DOMAIN breakpoint_ids
  <2>0. PICK path \in Paths, index \in Nat \ {0} :
          breakpoint_ids[id] = <<path, index>> /\ index <= Len(Entries(path))
    BY <1>2, EntriesLemma
  <2> DEFINE entries == Entries(path)
             rest == RemoveAt(entries, index)
             Shifted(pos) == IF pos[1] = path /\ pos[2] > index THEN <<pos[1], pos[2] - 1>> ELSE pos
  <2>1. index \in 1..Len(entries) /\ entries \in Seq(Bps) /\ Len(entries) \in Nat
    BY <2>0, EntriesLemma
  <2>2. rest \in Seq(Bps) /\ Len(rest) = Len(entries) - 1
    <3> HIDE DEF entries
    <3> QED BY <2>1, RemoveAtLemma
  <2>3. /\ Stores(path, rest)
        /\ breakpoint_ids' = [i \in DOMAIN breakpoint_ids \ {id} |-> Shifted(breakpoint_ids[i])]
    BY <1>2, <2>0, <2>1 DEF ApplyRemoved, Stores
  <2> HIDE DEF rest
  <2>4. /\ source_breakpoints' \in Maps(Paths, Seq(Bps))
        /\ \A q \in DOMAIN source_breakpoints' : source_breakpoints'[q] # <<>>
        /\ Len(Entries(path)') = Len(entries) - 1
        /\ \A q \in Paths : q # path => Entries(q)' = Entries(q)
    BY <2>1, <2>2, <2>3, StoresLemma
  <2>5. ASSUME NEW i \in DOMAIN breakpoint_ids \ {id}
        PROVE  \E q \in Paths, k \in Nat \ {0} :
                 /\ breakpoint_ids[i] = <<q, k>>
                 /\ q # path => breakpoint_ids'[i] = <<q, k>> /\ k <= Len(Entries(q)')
                 /\ q = path /\ k > index =>
                      breakpoint_ids'[i] = <<q, k-1>> /\ k-1 <= Len(Entries(q)') /\ k - 1 \in Nat \ {0}
                 /\ q = path /\ ~(k > index) =>
                      breakpoint_ids'[i] = <<q, k>> /\ k <= Len(Entries(q)') /\ k < index
    <3>1. PICK q \in Paths, k \in Nat \ {0} : breakpoint_ids[i] = <<q, k>> /\ k <= Len(Entries(q))
      BY EntriesLemma
    <3>2. <<q, k>> # <<path, index>>
      BY <1>2, <2>0, <3>1 DEF TablesOK, IdsPointInside
    <3>3. breakpoint_ids'[i] = IF q = path /\ k > index THEN <<q, k-1>> ELSE <<q, k>>
      BY <2>3, <3>1
    <3>4. QED
      BY <2>1, <2>4, <3>1, <3>2, <3>3 DEF entries
  <2>6. DOMAIN breakpoint_ids' = DOMAIN breakpoint_ids \ {id}
    BY <2>3
  <2>7. \A i \in DOMAIN breakpoint_ids' : \E q \in Paths, k \in Nat \ {0} :
            breakpoint_ids'[i] = <<q, k>> /\ k <= Len(Entries(q)')
    BY <2>5, <2>6
  <2>8. breakpoint_ids' \in Maps(1..next_id', Paths \X (Nat \ {0}))
    <3>1. \A i \in DOMAIN breakpoint_ids' : breakpoint_ids'[i] \in Paths \X (Nat \ {0})
      BY <2>7
    <3>2. breakpoint_ids' \in [DOMAIN breakpoint_ids' -> Paths \X (Nat \ {0})]
      BY <2>3, <3>1
    <3>3. DOMAIN breakpoint_ids \subseteq 1..next_id
      BY MapsEntries DEF TablesOK
    <3>4. QED
      BY <2>6, <3>2, <3>3, MapsDef
  <2>9. ASSUME NEW i \in DOMAIN breakpoint_ids', NEW j \in DOMAIN breakpoint_ids',
               breakpoint_ids'[i] = breakpoint_ids'[j]
        PROVE  i = j
    <3>1. PICK q \in Paths, k \in Nat \ {0} :
                 /\ breakpoint_ids[i] = <<q, k>>
                 /\ q # path => breakpoint_ids'[i] = <<q, k>>
                 /\ q = path /\ k > index => breakpoint_ids'[i] = <<q, k-1>>
                 /\ q = path /\ ~(k > index) => breakpoint_ids'[i] = <<q, k>> /\ k < index
      BY <2>5, <2>6
    <3>2. PICK r \in Paths, l \in Nat \ {0} :
                 /\ breakpoint_ids[j] = <<r, l>>
                 /\ r # path => breakpoint_ids'[j] = <<r, l>>
                 /\ r = path /\ l > index => breakpoint_ids'[j] = <<r, l-1>>
                 /\ r = path /\ ~(l > index) => breakpoint_ids'[j] = <<r, l>> /\ l < index
      BY <2>5, <2>6
    <3>3. index \in Nat
      BY <2>1
    <3>4. q = r /\ k = l
      BY <2>9, <3>1, <3>2, <3>3
    <3>5. QED
      BY <2>6, <3>1, <3>2, <3>4 DEF TablesOK, IdsPointInside
  <2>10. QED
    BY <2>4, <2>7, <2>8, <2>9, TablesFrom
<1>3. QED
  BY <1>1, <1>2

LEMMA RebuildLemma ==
  ASSUME TablesOK, next_id \in Nat, next_id' \in Nat, next_id <= next_id',
         NEW path \in Paths, NEW specs \in Seq(Bps), Rebuild(path, specs)
  PROVE  TablesOK'
<1> DEFINE kept == {id \in DOMAIN breakpoint_ids : breakpoint_ids[id][1] # path}
<1>1. Stores(path, specs)
  BY DEF Rebuild, Stores
<1>2. /\ DOMAIN breakpoint_ids' = kept /\ \A i \in kept : breakpoint_ids'[i] = breakpoint_ids[i]
      /\ breakpoint_ids' = [i \in kept |-> breakpoint_ids[i]]
  BY DEF Rebuild, Restrict
<1>3. breakpoint_ids' \in Maps(1..next_id', Paths \X (Nat \ {0}))
  <2>1. breakpoint_ids \in Maps(1..next_id', Paths \X (Nat \ {0}))
    BY IdsGrow DEF TablesOK
  <2>2. kept \subseteq 1..next_id' /\ \A i \in kept : breakpoint_ids[i] \in Paths \X (Nat \ {0})
    BY <2>1, MapsEntries
  <2>3. breakpoint_ids' \in [kept -> Paths \X (Nat \ {0})]
    BY <1>2, <2>2
  <2>4. QED
    BY <1>2, <2>2, <2>3, MapsDef
<1>4. ASSUME NEW i \in DOMAIN breakpoint_ids'
      PROVE  \E q \in Paths, k \in Nat \ {0} : breakpoint_ids'[i] = <<q, k>> /\ k <= Len(Entries(q)')
  <2>1. PICK q \in Paths, k \in Nat \ {0} : breakpoint_ids[i] = <<q, k>> /\ k <= Len(Entries(q)) /\ q # path
    BY <1>2, EntriesLemma
  <2>2. Entries(q)' = Entries(q)
    BY <1>1, <2>1, StoresLemma
  <2>3. QED
    BY <1>2, <2>1, <2>2
<1>5. \A i, j \in DOMAIN breakpoint_ids' : breakpoint_ids'[i] = breakpoint_ids'[j] => i = j
  BY <1>2 DEF TablesOK, IdsPointInside
<1>6. QED
  BY <1>1, <1>3, <1>4, <1>5, StoresLemma, TablesFrom

-----------------------------------------------------------------------------
(* merge_breakpoints *)

\* A request's breakpoints are a sequence; the items answered are one for each, or none.
LEMMA RequestLemma ==
  ASSUME NEW specs \in Specs, NEW items \in Items(specs)
  PROVE  /\ specs \in Seq(Bps) /\ Len(specs) \in Nat
         /\ items # <<>> =>
              /\ Len(items) = Len(specs)
              /\ \A i \in 1..Len(items) :
                   items[i].line \in Lines \cup {None} /\ items[i].verified \in BOOLEAN
<1>1. PICK n \in 0..MaxPerRequest : specs \in [1..n -> Bps]
  BY DEF Specs, Bps
<1>2. n \in Nat
  BY TrackerAssumption
<1>3. specs \in Seq(Bps)
  BY <1>1, <1>2, SeqDef
<1>4. Len(specs) \in Nat
  BY <1>3, LenProperties
<1> DEFINE Answers == [line : Lines \cup {None}, verified : BOOLEAN]
<1>5. ASSUME items # <<>>
      PROVE  Len(items) = Len(specs) /\ \A i \in 1..Len(items) : items[i] \in Answers
  <2>1. items \in [1..Len(specs) -> Answers]
    BY <1>5 DEF Items
  <2> HIDE DEF Answers
  <2>2. items \in Seq(Answers)
    BY <1>4, <2>1, SeqDef
  <2>3. DOMAIN items = 1..Len(items) /\ Len(items) \in Nat /\ DOMAIN items = 1..Len(specs)
    BY <2>1, <2>2, LenProperties
  <2>4. Len(items) = Len(specs)
    BY <1>4, <2>3
  <2>5. QED
    BY <2>1, <2>4
<1>6. QED
  BY <1>3, <1>4, <1>5

\* What is kept of the k-th verified item.
LEMMA KthLemma ==
  ASSUME NEW n \in Nat, NEW S \in SUBSET (1..n), NEW k \in 1..Cardinality(S)
  PROVE  Kth(S, k) \in S /\ Cardinality(S \cap (1..Kth(S, k))) = k
BY RankLemma DEF Kth

\* The merged breakpoints are breakpoints.
LEMMA MergeLemma ==
  ASSUME NEW specs \in Specs, NEW items \in Items(specs)
  PROVE  Merge(items, specs) \in Seq(Bps)
<1>1. CASE items = <<>>
  BY <1>1, RequestLemma DEF Merge
<1>2. CASE items # <<>>
  <2> DEFINE verified == {i \in 1..Len(items) : items[i].verified}
  <2>1. Len(items) \in Nat /\ Len(items) = Len(specs) /\ specs \in Seq(Bps)
    BY <1>2, RequestLemma
  <2>2. verified \in SUBSET (1..Len(items)) /\ Cardinality(verified) \in Nat
    BY <2>1, RankStep
  <2>3. \A i \in 1..Len(items) : MergeUnverified(items, specs)[i] \in Bps
    <3>1. TAKE i \in 1..Len(items)
    <3>2. specs[i] \in Bps /\ items[i].line \in Lines \cup {None}
      BY <1>2, <2>1, RequestLemma, ElementOfSeq
    <3>3. QED
      BY <1>2, <3>2 DEF MergeUnverified, Bp, Bps
  <2>4. Merge(items, specs) =
          [k \in 1..Cardinality(verified) |-> MergeUnverified(items, specs)[Kth(verified, k)]]
    BY <1>2 DEF Merge
  <2>5. \A k \in 1..Cardinality(verified) : Kth(verified, k) \in 1..Len(items)
    <3> HIDE DEF verified
    <3> QED BY <2>1, <2>2, KthLemma
  <2> HIDE DEF verified
  <2>6. Merge(items, specs) \in [1..Cardinality(verified) -> Bps]
    BY <2>3, <2>4, <2>5
  <2>7. QED
    BY <2>2, <2>6, SeqDef
<1>3. QED
  BY <1>1, <1>2

-----------------------------------------------------------------------------
(* Steps *)

LEMMA InitTracker == Init => TrackerInv
<1> SUFFICES ASSUME Init PROVE TrackerInv
  OBVIOUS
<1>1. /\ source_breakpoints = EmptyMap /\ breakpoint_ids = EmptyMap /\ asked = EmptyMap
      /\ pending_set_breakpoints = EmptyMap /\ DOMAIN EmptyMap = {}
  BY EmptyMapType DEF Init
<1>2. /\ source_breakpoints \in Maps(Paths, Seq(Bps))
      /\ breakpoint_ids \in Maps(1..next_id, Paths \X (Nat \ {0}))
      /\ asked \in Maps(1..backend_seq, AskedRecords)
      /\ pending_set_breakpoints \in Maps(1..backend_seq, PendingSets)
  BY <1>1, EmptyMapType
<1>3. adapter \in [Paths -> Seq(HeldBps)]
  BY EmptySeq DEF Init
<1>4. Shapes
  BY <1>2, <1>3, TrackerAssumption DEF Init, Shapes
<1>5. PendingAsAsked /\ IdsPointInside
  BY <1>1 DEF PendingAsAsked, IdsPointInside, Asked
<1>6. QED
  BY <1>4, <1>5 DEF TrackerInv

\* What the adapter held it holds with ids of a larger range.
LEMMA HeldGrow ==
  ASSUME adapter \in [Paths -> Seq(HeldBps)], next_id \in Nat, next_id' \in Nat, next_id <= next_id'
  PROVE  adapter \in [Paths -> Seq(HeldBps')]
<1>1. HeldBps \subseteq HeldBps'
  BY DEF HeldBps
<1>2. \A path \in Paths : adapter[path] \in Seq(HeldBps')
  BY <1>1, SeqMonotonic
<1>3. QED
  BY <1>2

\* A client's request.
LEMMA AskLemma ==
  ASSUME TrackerInv, NEW request \in AskedRecords, Ask(request)
  PROVE  /\ backend_seq \in Nat /\ backend_seq' = backend_seq + 1 /\ backend_seq' \in 0..MaxRequests
         /\ asked' \in Maps(1..backend_seq', AskedRecords)
         /\ DOMAIN asked' = DOMAIN asked \cup {backend_seq'} /\ backend_seq' \notin DOMAIN asked
         /\ asked'[backend_seq'] = request
         /\ \A b \in DOMAIN asked : asked'[b] = asked[b]
         /\ pending_set_breakpoints \in Maps(1..backend_seq', PendingSets)
         /\ backend_seq' \notin DOMAIN pending_set_breakpoints
<1> DEFINE b == backend_seq + 1
<1>1. /\ backend_seq \in Nat /\ backend_seq' = b /\ b \in 0..MaxRequests
      /\ asked' = Insert(asked, b, request)
  BY TrackerAssumption DEF TrackerInv, Shapes, Ask
<1>2. asked \in Maps(1..b, AskedRecords) /\ pending_set_breakpoints \in Maps(1..b, PendingSets)
  BY <1>1, IdsGrow DEF TrackerInv, Shapes
<1>3. DOMAIN asked \subseteq 1..backend_seq /\ DOMAIN pending_set_breakpoints \subseteq 1..backend_seq
  BY MapsEntries DEF TrackerInv, Shapes
<1>4. b \notin DOMAIN asked /\ b \notin DOMAIN pending_set_breakpoints /\ b \in 1..b
  BY <1>1, <1>3
<1>5. Insert(asked, b, request) \in Maps(1..b, AskedRecords)
  BY <1>2, <1>4, InsertType
<1>6. /\ DOMAIN asked' = DOMAIN asked \cup {b} /\ asked'[b] = request
      /\ \A c \in DOMAIN asked : asked'[c] = asked[c]
  BY <1>1, <1>4 DEF Insert
<1>7. QED
  BY <1>1, <1>2, <1>4, <1>5, <1>6

LEMMA SetBreakpointsKeeps ==
  ASSUME TrackerInv, NEW path \in ClientPaths, NEW specs \in Specs, SetBreakpoints(path, specs)
  PROVE  TrackerInv'
<1> DEFINE request == [command |-> "setBreakpoints", path |-> path, specs |-> specs]
           pending == [path |-> path, specs |-> specs]
<1>1. request \in AskedRecords /\ pending \in PendingSets /\ request.path = path /\ request.specs = specs
  BY DEF AskedRecords, PendingSets
<1>2. /\ Ask(request)
      /\ pending_set_breakpoints' = Insert(pending_set_breakpoints, backend_seq', pending)
      /\ UNCHANGED exception_breakpoints
  BY DEF SetBreakpoints
<1>3. UNCHANGED <<source_breakpoints, breakpoint_ids, adapter, unplaced, adapter_exceptions,
                  next_id>>
  BY <1>2 DEF Ask
<1> HIDE DEF request, pending
<1>4. /\ backend_seq \in Nat /\ backend_seq' = backend_seq + 1 /\ backend_seq' \in 0..MaxRequests
      /\ asked' \in Maps(1..backend_seq', AskedRecords)
      /\ DOMAIN asked' = DOMAIN asked \cup {backend_seq'} /\ backend_seq' \notin DOMAIN asked
      /\ asked'[backend_seq'] = request
      /\ \A b \in DOMAIN asked : asked'[b] = asked[b]
      /\ pending_set_breakpoints \in Maps(1..backend_seq', PendingSets)
      /\ backend_seq' \notin DOMAIN pending_set_breakpoints
  BY <1>1, <1>2, AskLemma
<1>5. pending_set_breakpoints' \in Maps(1..backend_seq', PendingSets)
  <2>1. backend_seq' \in 1..backend_seq' /\ pending \in PendingSets
    BY <1>1, <1>4
  <2>2. Insert(pending_set_breakpoints, backend_seq', pending) \in Maps(1..backend_seq', PendingSets)
    BY <1>4, <2>1, InsertType
  <2>3. QED
    BY <1>2, <2>2
<1>6. Shapes'
  <2>1. adapter' \in [Paths -> Seq(HeldBps')]
    BY <1>3, HeldGrow DEF TrackerInv, Shapes
  <2>2. QED
    BY <1>2, <1>3, <1>4, <1>5, <2>1 DEF TrackerInv, Shapes
<1>7. /\ DOMAIN pending_set_breakpoints' = DOMAIN pending_set_breakpoints \cup {backend_seq'}
      /\ pending_set_breakpoints'[backend_seq'] = pending
      /\ \A b \in DOMAIN pending_set_breakpoints : pending_set_breakpoints'[b] = pending_set_breakpoints[b]
  BY <1>2, <1>4 DEF Insert
<1>8. PendingAsAsked'
  BY <1>1, <1>4, <1>7 DEF TrackerInv, PendingAsAsked, Asked, pending
<1>9. IdsPointInside'
  BY <1>3 DEF TrackerInv, IdsPointInside
<1>10. QED
  BY <1>6, <1>8, <1>9 DEF TrackerInv

LEMMA SetExceptionBreakpointsKeeps ==
  ASSUME TrackerInv, NEW filters \in SUBSET Filters, SetExceptionBreakpoints(filters)
  PROVE  TrackerInv'
<1> DEFINE request == [command |-> "setExceptionBreakpoints", filters |-> filters]
<1>1. request \in AskedRecords /\ request.command # "setBreakpoints"
  BY DEF AskedRecords
<1>2. /\ Ask(request) /\ exception_breakpoints' = filters
      /\ UNCHANGED pending_set_breakpoints
  BY DEF SetExceptionBreakpoints
<1>3. UNCHANGED <<source_breakpoints, breakpoint_ids, adapter, unplaced, adapter_exceptions,
                  next_id>>
  BY <1>2 DEF Ask
<1> HIDE DEF request
<1>4. /\ backend_seq' \in 0..MaxRequests
      /\ asked' \in Maps(1..backend_seq', AskedRecords)
      /\ DOMAIN asked' = DOMAIN asked \cup {backend_seq'}
      /\ asked'[backend_seq'] = request
      /\ \A b \in DOMAIN asked : asked'[b] = asked[b]
      /\ pending_set_breakpoints \in Maps(1..backend_seq', PendingSets)
  BY <1>1, <1>2, AskLemma
<1>5. Shapes'
  <2>1. adapter' \in [Paths -> Seq(HeldBps')]
    BY <1>3, HeldGrow DEF TrackerInv, Shapes
  <2>2. QED
    BY <1>2, <1>3, <1>4, <2>1 DEF TrackerInv, Shapes
<1>6. PendingAsAsked'
  BY <1>1, <1>2, <1>4 DEF TrackerInv, PendingAsAsked, Asked
<1>7. IdsPointInside'
  BY <1>3 DEF TrackerInv, IdsPointInside
<1>8. QED
  BY <1>5, <1>6, <1>7 DEF TrackerInv

\* The answer to a request takes it from the tables.
LEMMA AnsweredLemma ==
  ASSUME TrackerInv, NEW b \in DOMAIN asked, asked' = Without(asked, b), UNCHANGED backend_seq,
         \/ UNCHANGED pending_set_breakpoints
         \/ pending_set_breakpoints' = Without(pending_set_breakpoints, b)
  PROVE  /\ asked' \in Maps(1..backend_seq', AskedRecords)
         /\ pending_set_breakpoints' \in Maps(1..backend_seq', PendingSets)
         /\ PendingAsAsked'
<1>1. asked' \in Maps(1..backend_seq', AskedRecords)
  BY WithoutType DEF TrackerInv, Shapes
<1>2. pending_set_breakpoints' \in Maps(1..backend_seq', PendingSets)
  BY WithoutType DEF TrackerInv, Shapes
<1>3. DOMAIN asked' = DOMAIN asked \ {b} /\ \A c \in DOMAIN asked' : asked'[c] = asked[c]
  BY WithoutLemma
<1>4. /\ DOMAIN pending_set_breakpoints \ {b} \subseteq DOMAIN pending_set_breakpoints'
      /\ \A c \in DOMAIN pending_set_breakpoints \ {b} :
           pending_set_breakpoints'[c] = pending_set_breakpoints[c]
  <2>1. CASE pending_set_breakpoints' = Without(pending_set_breakpoints, b)
    BY <2>1 DEF Without, Restrict
  <2>2. CASE UNCHANGED pending_set_breakpoints
    BY <2>2
  <2>3. QED
    BY <2>1, <2>2
<1>5. PendingAsAsked'
  BY <1>3, <1>4 DEF TrackerInv, PendingAsAsked, Asked
<1>6. QED
  BY <1>1, <1>2, <1>5


\* The adapter handles a setBreakpoints request.
LEMMA AnswerKeeps ==
  ASSUME TrackerInv, NEW b \in Asked("setBreakpoints"), NEW success \in BOOLEAN,
         NEW items \in Items(asked[b].specs), Answer(b, success, items)
  PROVE  TrackerInv'
<1> DEFINE specs == asked[b].specs
           path == Resolve[asked[b].path]
           Line(i) == IF items = <<>> \/ items[i].line = None THEN specs[i].line ELSE items[i].line
           Verified(i) == items = <<>> \/ items[i].verified
           Held(i) == [id |-> next_id + i, line |-> Line(i), condition |-> specs[i].condition,
                       verified |-> Verified(i), origin |-> "answered"]
<1>1. /\ b \in DOMAIN asked /\ asked[b].path \in ClientPaths /\ specs \in Specs
      /\ b \in DOMAIN pending_set_breakpoints
      /\ pending_set_breakpoints[b].path = asked[b].path
      /\ pending_set_breakpoints[b].specs = specs
  <2>1. b \in DOMAIN asked /\ asked[b].command = "setBreakpoints" /\ asked[b] \in AskedRecords
    BY MapsEntries DEF TrackerInv, Shapes, Asked
  <2>2. asked[b] \in [command : {"setBreakpoints"}, path : ClientPaths, specs : Specs]
    BY <2>1 DEF AskedRecords
  <2>3. /\ b \in DOMAIN pending_set_breakpoints
        /\ pending_set_breakpoints[b] = [path |-> asked[b].path, specs |-> asked[b].specs]
    BY DEF TrackerInv, PendingAsAsked
  <2>4. asked[b].path \in ClientPaths /\ asked[b].specs \in Specs
    BY <2>2
  <2>5. /\ pending_set_breakpoints[b].path = asked[b].path
        /\ pending_set_breakpoints[b].specs = asked[b].specs
    BY <2>3
  <2>6. QED
    BY <2>1, <2>3, <2>4, <2>5
<1>2. path \in Paths /\ asked[b].path \in Paths
  BY <1>1, TrackerAssumption
<1>3. /\ next_id \in Nat /\ specs \in Seq(Bps) /\ Len(specs) \in Nat
      /\ items # <<>> =>
           /\ Len(items) = Len(specs)
           /\ \A i \in 1..Len(items) : items[i].line \in Lines \cup {None} /\ items[i].verified \in BOOLEAN
  BY <1>1, RequestLemma, TrackerAssumption DEF TrackerInv, Shapes
<1>4. /\ asked' = Without(asked, b) /\ next_id + Len(specs) <= MaxIds
      /\ ObserveResponse(b, success, items, path)
      /\ IF success
         THEN /\ adapter' = [adapter EXCEPT ![path] = [i \in 1..Len(specs) |-> Held(i)]]
              /\ next_id' = next_id + Len(specs)
         ELSE UNCHANGED <<adapter, next_id>>
      /\ UNCHANGED <<exception_breakpoints, backend_seq, unplaced, adapter_exceptions>>
  BY DEF Answer
<1> HIDE DEF path
<1>5. next_id' \in 0..MaxIds /\ next_id' \in Nat /\ next_id <= next_id'
  BY <1>3, <1>4, TrackerAssumption DEF TrackerInv, Shapes
<1>6. adapter \in [Paths -> Seq(HeldBps')]
  BY <1>3, <1>5, HeldGrow DEF TrackerInv, Shapes
<1>7. adapter' \in [Paths -> Seq(HeldBps')]
  <2>1. CASE success
    <3>1. ASSUME NEW i \in 1..Len(specs)
          PROVE  Held(i) \in HeldBps'
      <4>1. specs[i] \in Bps
        BY <1>3, ElementOfSeq
      <4>2. specs[i].line \in Lines /\ specs[i].condition \in Conditions \cup {None}
        BY <4>1 DEF Bps
      <4>3. Line(i) \in Lines
        BY <1>3, <4>2
      <4>4. Verified(i) \in BOOLEAN
        BY <1>3
      <4>5. next_id + i \in 1..next_id'
        BY <1>3, <1>4, <2>1
      <4> HIDE DEF Line, Verified, specs
      <4>6. QED
        BY <4>2, <4>3, <4>4, <4>5 DEF HeldBps
    <3> DEFINE held == [i \in 1..Len(specs) |-> Held(i)]
    <3>2. held \in Seq(HeldBps')
      <4> HIDE DEF Held, specs
      <4>1. held \in [1..Len(specs) -> HeldBps']
        BY <3>1
      <4>2. QED
        BY <1>3, <4>1, SeqDef
    <3>3. adapter' = [adapter EXCEPT ![path] = held]
      BY <1>4, <2>1
    <3> HIDE DEF held
    <3>4. QED
      BY <1>6, <3>2, <3>3
  <2>2. CASE ~success
    BY <1>4, <1>6, <2>2
  <2>3. QED
    BY <2>1, <2>2
<1>8. /\ \/ UNCHANGED pending_set_breakpoints
         \/ pending_set_breakpoints' = Without(pending_set_breakpoints, b)
      /\ TablesOK'
  <2>1. TablesOK
    BY DEF TrackerInv, Shapes, TablesOK
  <2>2. CASE /\ pending_set_breakpoints' = Without(pending_set_breakpoints, b)
             /\ Rebuild(IF items = <<>> THEN asked[b].path ELSE path, Merge(items, specs))
    <3>1. Merge(items, specs) \in Seq(Bps)
      BY <1>1, MergeLemma
    <3>2. (IF items = <<>> THEN asked[b].path ELSE path) \in Paths
      BY <1>2
    <3>3. TablesOK'
      BY <1>3, <1>5, <2>1, <2>2, <3>1, <3>2, RebuildLemma
    <3>4. QED
      BY <2>2, <3>3
  <2>3. CASE UNCHANGED <<source_breakpoints, breakpoint_ids, pending_set_breakpoints>>
    <3>1. breakpoint_ids \in Maps(1..next_id', Paths \X (Nat \ {0}))
      BY <1>3, <1>5, <2>1, IdsGrow DEF TablesOK
    <3>2. QED
      BY <2>1, <2>3, <3>1 DEF TablesOK, IdsPointInside
  <2>4. QED
    BY <1>1, <1>4, <2>2, <2>3 DEF ObserveResponse
<1>9. /\ asked' \in Maps(1..backend_seq', AskedRecords)
      /\ pending_set_breakpoints' \in Maps(1..backend_seq', PendingSets)
      /\ PendingAsAsked'
  BY <1>1, <1>4, <1>8, AnsweredLemma
<1>10. Shapes'
  <2>1. unplaced' \subseteq 1..next_id'
    BY <1>4, <1>5 DEF TrackerInv, Shapes
  <2>2. QED
    BY <1>4, <1>5, <1>7, <1>8, <1>9, <2>1 DEF TrackerInv, Shapes, TablesOK
<1>11. QED
  BY <1>8, <1>9, <1>10 DEF TrackerInv, TablesOK

\* The adapter handles a setExceptionBreakpoints request.
LEMMA AnswerExceptionsKeeps ==
  ASSUME TrackerInv, NEW b \in Asked("setExceptionBreakpoints"), NEW success \in BOOLEAN,
         AnswerExceptions(b, success)
  PROVE  TrackerInv'
<1>1. b \in DOMAIN asked /\ asked[b].filters \subseteq Filters
  <2>1. b \in DOMAIN asked /\ asked[b].command = "setExceptionBreakpoints" /\ asked[b] \in AskedRecords
    BY MapsEntries DEF TrackerInv, Shapes, Asked
  <2>2. asked[b] \in [command : {"setExceptionBreakpoints"}, filters : SUBSET Filters]
    BY <2>1 DEF AskedRecords
  <2>3. QED
    BY <2>1, <2>2
<1>2. asked' = Without(asked, b) /\ UNCHANGED <<tracker, backend_seq, adapter, unplaced, next_id>>
      /\ adapter_exceptions' \subseteq Filters
  BY <1>1 DEF AnswerExceptions, TrackerInv, Shapes
<1>3. /\ asked' \in Maps(1..backend_seq', AskedRecords)
      /\ pending_set_breakpoints' \in Maps(1..backend_seq', PendingSets)
      /\ PendingAsAsked'
  BY <1>1, <1>2, AnsweredLemma DEF tracker
<1>4. adapter' \in [Paths -> Seq(HeldBps')]
  BY <1>2, HeldGrow DEF TrackerInv, Shapes
<1>5. Shapes'
  BY <1>2, <1>3, <1>4 DEF TrackerInv, Shapes, tracker
<1>6. IdsPointInside'
  BY <1>2 DEF TrackerInv, IdsPointInside, tracker
<1>7. QED
  BY <1>3, <1>5, <1>6 DEF TrackerInv

\* An event leaves the requests alone.
LEMMA EventKeeps ==
  ASSUME TrackerInv, TablesOK', adapter' \in [Paths -> Seq(HeldBps')], next_id' \in 0..MaxIds,
         unplaced' \subseteq 1..next_id',
         UNCHANGED <<exception_breakpoints, pending_set_breakpoints, backend_seq, asked,
                     adapter_exceptions>>
  PROVE  TrackerInv'
<1>1. Shapes'
  BY DEF TrackerInv, Shapes, TablesOK
<1>2. PendingAsAsked'
  BY DEF TrackerInv, PendingAsAsked, Asked
<1>3. QED
  BY <1>1, <1>2 DEF TrackerInv, TablesOK

\* A breakpoint the adapter announces, or places later.
LEMMA HoldKeeps ==
  ASSUME TrackerInv, next_id \in Nat, next_id' \in Nat, next_id <= next_id', NEW id \in 1..next_id',
         NEW source \in Paths \cup {None}, NEW line \in MaybeLine, NEW verified \in BOOLEAN,
         Hold(id, source, line, verified)
  PROVE  adapter' \in [Paths -> Seq(HeldBps')] /\ unplaced' \subseteq 1..next_id'
<1> DEFINE held == [id |-> id, line |-> line, condition |-> None, verified |-> verified,
                    origin |-> "announced"]
<1>1. adapter \in [Paths -> Seq(HeldBps')]
  BY HeldGrow DEF TrackerInv, Shapes
<1>2. unplaced \subseteq 1..next_id'
  BY DEF TrackerInv, Shapes
<1>3. CASE /\ source # None /\ line # None /\ unplaced' = unplaced \ {id}
           /\ adapter' = [adapter EXCEPT ![source] = Append(@, held)]
  <2>1. held \in HeldBps' /\ source \in Paths
    BY <1>3 DEF HeldBps, MaybeLine
  <2> HIDE DEF held
  <2>2. Append(adapter[source], held) \in Seq(HeldBps')
    BY <1>1, <2>1, AppendProperties
  <2>3. QED
    BY <1>1, <1>2, <1>3, <2>1, <2>2
<1>4. CASE unplaced' = unplaced \cup {id} /\ adapter' = adapter
  BY <1>1, <1>2, <1>4
<1>5. QED
  BY <1>3, <1>4 DEF Hold

LEMMA AnnounceKeeps ==
  ASSUME TrackerInv, NEW source \in Paths \cup {None}, NEW line \in MaybeLine,
         NEW verified \in BOOLEAN, Announce(source, line, verified)
  PROVE  TrackerInv'
<1>1. next_id \in Nat /\ next_id' = next_id + 1 /\ next_id' \in 0..MaxIds
  BY TrackerAssumption DEF Announce, TrackerInv, Shapes
<1>2. PICK id \in 1..next_id' : id = next_id'
  BY <1>1
<1>3. Hold(id, source, line, verified) /\ ApplyNew(id, source, Bp(line, None))
  BY <1>2 DEF Announce
<1>4. TablesOK /\ next_id <= next_id' /\ next_id' \in Nat
  BY <1>1 DEF TrackerInv, Shapes, TablesOK
<1>5. TablesOK'
  BY <1>1, <1>3, <1>4, ApplyNewLemma
<1>6. adapter' \in [Paths -> Seq(HeldBps')] /\ unplaced' \subseteq 1..next_id'
  BY <1>1, <1>3, <1>4, HoldKeeps
<1>7. QED
  BY <1>1, <1>5, <1>6, EventKeeps DEF Announce

LEMMA ChangeUnplacedKeeps ==
  ASSUME TrackerInv, NEW source \in Paths \cup {None}, NEW line \in MaybeLine,
         NEW verified \in BOOLEAN, NEW id \in unplaced, ChangeUnplaced(id, source, line, verified)
  PROVE  TrackerInv'
<1>1. /\ next_id \in Nat /\ UNCHANGED next_id /\ next_id' \in 0..MaxIds /\ id \in 1..next_id
      /\ Hold(id, source, line, verified) /\ ApplyChanged(id, source, line)
  BY TrackerAssumption DEF ChangeUnplaced, TrackerInv, Shapes
<1>2. TablesOK /\ id \in 1..next_id'
  BY <1>1 DEF TrackerInv, Shapes, TablesOK
<1>3. TablesOK'
  BY <1>1, <1>2, ApplyChangedLemma
<1>4. adapter' \in [Paths -> Seq(HeldBps')] /\ unplaced' \subseteq 1..next_id'
  BY <1>1, <1>2, HoldKeeps
<1>5. QED
  BY <1>1, <1>3, <1>4, EventKeeps DEF ChangeUnplaced

LEMMA DropUnplacedKeeps ==
  ASSUME TrackerInv, NEW id \in unplaced, DropUnplaced(id)
  PROVE  TrackerInv'
<1>1. /\ next_id \in Nat /\ UNCHANGED next_id /\ next_id' \in 0..MaxIds
      /\ ApplyRemoved(id) /\ unplaced' \subseteq 1..next_id' /\ UNCHANGED adapter
  BY TrackerAssumption DEF DropUnplaced, TrackerInv, Shapes
<1>2. TablesOK
  BY DEF TrackerInv, Shapes, TablesOK
<1>3. TablesOK'
  BY <1>1, <1>2, ApplyRemovedLemma
<1>4. adapter' \in [Paths -> Seq(HeldBps')]
  BY <1>1, HeldGrow DEF TrackerInv, Shapes
<1>5. QED
  BY <1>1, <1>3, <1>4, EventKeeps DEF DropUnplaced

\* What the adapter holds at an index.
LEMMA HeldAt ==
  ASSUME TrackerInv, NEW path \in Paths, NEW i \in 1..Len(adapter[path])
  PROVE  /\ adapter[path] \in Seq(HeldBps) /\ adapter[path][i] \in HeldBps
         /\ adapter[path][i].id \in 1..next_id
<1>1. adapter[path] \in Seq(HeldBps)
  BY DEF TrackerInv, Shapes
<1>2. adapter[path][i] \in HeldBps
  BY <1>1, ElementOfSeq
<1>3. QED
  BY <1>1, <1>2 DEF HeldBps

LEMMA ChangeKeeps ==
  ASSUME TrackerInv, NEW path \in Paths, NEW i \in 1..Len(adapter[path]),
         NEW source \in {path, None}, NEW line \in MaybeLine, NEW verified \in BOOLEAN,
         Change(path, i, source, line, verified)
  PROVE  TrackerInv'
<1> DEFINE id == adapter[path][i].id
           at == IF line = None THEN adapter[path][i].line ELSE line
           held == [adapter[path][i] EXCEPT !.line = at, !.verified = verified]
           new == [adapter[path] EXCEPT ![i] = held]
<1>1. /\ adapter[path] \in Seq(HeldBps) /\ adapter[path][i] \in HeldBps /\ id \in 1..next_id
      /\ next_id \in 0..MaxIds /\ next_id \in Nat /\ UNCHANGED <<next_id, unplaced>>
      /\ adapter \in [Paths -> Seq(HeldBps)] /\ unplaced \subseteq 1..next_id
      /\ source \in Paths \cup {None}
  BY HeldAt DEF Change, TrackerInv, Shapes
<1>2. TablesOK'
  <2>1. TablesOK /\ ApplyChanged(id, source, line)
    BY DEF TrackerInv, Shapes, TablesOK, Change
  <2> HIDE DEF id
  <2>2. QED
    BY <1>1, <2>1, ApplyChangedLemma
<1>3. adapter' \in [Paths -> Seq(HeldBps')]
  <2>1. held \in HeldBps
    BY <1>1 DEF HeldBps, MaybeLine
  <2>2. adapter' = [adapter EXCEPT ![path] = new]
    BY <1>1 DEF Change
  <2> HIDE DEF held
  <2>3. new \in Seq(HeldBps)
    BY <1>1, <2>1, ExceptSeq
  <2> HIDE DEF new
  <2>4. adapter' \in [Paths -> Seq(HeldBps)] /\ HeldBps' = HeldBps
    BY <1>1, <2>2, <2>3 DEF HeldBps
  <2>5. QED
    BY <2>4
<1>4. QED
  BY <1>1, <1>2, <1>3, EventKeeps DEF Change

LEMMA DropKeeps ==
  ASSUME TrackerInv, NEW path \in Paths, NEW i \in 1..Len(adapter[path]), Drop(path, i)
  PROVE  TrackerInv'
<1> DEFINE id == adapter[path][i].id
           rest == RemoveAt(adapter[path], i)
<1>1. /\ adapter[path] \in Seq(HeldBps) /\ adapter \in [Paths -> Seq(HeldBps)]
      /\ next_id \in 0..MaxIds /\ next_id \in Nat /\ UNCHANGED next_id
      /\ adapter' = [adapter EXCEPT ![path] = rest]
      /\ unplaced \subseteq 1..next_id /\ UNCHANGED unplaced
  BY HeldAt, TrackerAssumption DEF Drop, TrackerInv, Shapes
<1>2. TablesOK'
  <2>1. TablesOK /\ ApplyRemoved(id)
    BY DEF TrackerInv, Shapes, TablesOK, Drop
  <2> HIDE DEF id
  <2>2. QED
    BY <1>1, <2>1, ApplyRemovedLemma
<1>3. adapter' \in [Paths -> Seq(HeldBps')]
  <2>1. rest \in Seq(HeldBps)
    BY <1>1, RemoveAtLemma
  <2> HIDE DEF rest
  <2>2. adapter' \in [Paths -> Seq(HeldBps)] /\ HeldBps' = HeldBps
    BY <1>1, <2>1 DEF HeldBps
  <2>3. QED
    BY <2>2
<1>4. QED
  BY <1>1, <1>2, <1>3, EventKeeps DEF Drop

LEMMA NextTracker == TrackerInv /\ [Next]_vars => TrackerInv'
<1> SUFFICES ASSUME TrackerInv, [Next]_vars
             PROVE  TrackerInv'
  OBVIOUS
<1>1. CASE UNCHANGED vars
  <2>1. adapter' \in [Paths -> Seq(HeldBps')] /\ next_id' \in 0..MaxIds /\ unplaced' \subseteq 1..next_id'
    BY <1>1, HeldGrow, TrackerAssumption DEF TrackerInv, Shapes, vars
  <2>2. TablesOK'
    BY <1>1 DEF TrackerInv, Shapes, TablesOK, IdsPointInside, vars, tracker
  <2>3. QED
    BY <1>1, <2>1, <2>2, EventKeeps DEF vars, tracker
<1>2. CASE \E path \in ClientPaths, specs \in Specs : SetBreakpoints(path, specs)
  BY <1>2, SetBreakpointsKeeps
<1>3. CASE \E filters \in SUBSET Filters : SetExceptionBreakpoints(filters)
  BY <1>3, SetExceptionBreakpointsKeeps
<1>4. CASE \E b \in Asked("setBreakpoints"), success \in Outcomes :
             \E items \in Items(asked[b].specs) : Answer(b, success, items)
  BY <1>4, AnswerKeeps, TrackerAssumption
<1>5. CASE \E b \in Asked("setExceptionBreakpoints"), success \in Outcomes :
             AnswerExceptions(b, success)
  BY <1>5, AnswerExceptionsKeeps, TrackerAssumption
<1>6. CASE \E source \in Paths \cup {None}, line \in MaybeLine, verified \in BOOLEAN :
             \/ Announce(source, line, verified)
             \/ \E id \in unplaced : ChangeUnplaced(id, source, line, verified)
  BY <1>6, AnnounceKeeps, ChangeUnplacedKeeps
<1>7. CASE \E path \in Paths : \E i \in 1..Len(adapter[path]) :
             \/ \E source \in {path, None}, line \in MaybeLine, verified \in BOOLEAN :
                  Change(path, i, source, line, verified)
             \/ Drop(path, i)
  BY <1>7, ChangeKeeps, DropKeeps
<1>8. CASE \E id \in unplaced : DropUnplaced(id)
  BY <1>8, DropUnplacedKeeps
<1>9. QED
  BY <1>1, <1>2, <1>3, <1>4, <1>5, <1>6, <1>7, <1>8 DEF Next

-----------------------------------------------------------------------------
(* What the snapshot shows, when the adapter reports only what it announced *)
(* itself, and names the files as its clients do: the two conditions        *)
(* without which the code does not show what the adapter holds.  They do    *)
(* not make an event's verdict count: no handler looks at it, and what the  *)
(* adapter announced is shown verified or not (Listed).                     *)

OwnReportsOnly ==
  /\ Reported \subseteq {"announced"}
  /\ \A path \in ClientPaths : Resolve[path] = path

\* The positions of the breakpoints to be shown, and how one of them is shown.
ListedAt(held) == {i \in 1..Len(held) : Listed(held[i])}
Shown(breakpoint) == Bp(breakpoint.line, breakpoint.condition)

\* The entries of a file are the listed breakpoints the adapter holds for it, in order.
Shows(entries, held) ==
  /\ Len(entries) = Cardinality(ListedAt(held))
  /\ \A i \in ListedAt(held) : entries[Rank(ListedAt(held), i)] = Shown(held[i])

ShowsAdapter == \A path \in Paths : Shows(Entries(path), adapter[path])

\* The tracker knows where it shows what the adapter announced.
AnnouncedKnown ==
  \A path \in Paths : \A i \in 1..Len(adapter[path]) :
    adapter[path][i].origin = "announced" =>
      /\ Listed(adapter[path][i])
      /\ adapter[path][i].id \in DOMAIN breakpoint_ids
      /\ breakpoint_ids[adapter[path][i].id] = <<path, Rank(ListedAt(adapter[path]), i)>>

\* It knows nothing of what the adapter has not placed.
UnplacedUnknown == unplaced \cap DOMAIN breakpoint_ids = {}

SnapshotInv == TrackerInv /\ ShowsAdapter /\ AnnouncedKnown /\ UnplacedUnknown

\* The listed positions are a set of numbers up to the length.
LEMMA ListedLemma ==
  ASSUME NEW H, NEW held \in Seq(H)
  PROVE  Len(held) \in Nat /\ ListedAt(held) \in SUBSET (1..Len(held))
BY LenProperties DEF ListedAt

\* A breakpoint is appended on both sides.
LEMMA ShowsAppend ==
  ASSUME NEW H, NEW held \in Seq(H), NEW h \in H, Listed(h),
         NEW entries \in Seq(Bps), Shown(h) \in Bps, Shows(entries, held)
  PROVE  /\ Shows(Append(entries, Shown(h)), Append(held, h))
         /\ \A i \in 1..Len(held) :
              Rank(ListedAt(Append(held, h)), i) = Rank(ListedAt(held), i)
         /\ Rank(ListedAt(Append(held, h)), Len(held) + 1) = Len(entries) + 1
<1> DEFINE n == Len(held)
           V == ListedAt(held)
           W == ListedAt(Append(held, h))
<1>1. n \in Nat /\ V \in SUBSET (1..n)
  BY ListedLemma
<1>2. /\ Append(held, h) \in Seq(H) /\ Len(Append(held, h)) = n + 1
      /\ \A i \in 1..n : Append(held, h)[i] = held[i]
      /\ Append(held, h)[n+1] = h
  BY AppendProperties
<1>3. W = V \cup {n+1}
  BY <1>1, <1>2 DEF ListedAt
<1>4. W \in SUBSET (1..(n+1)) /\ n+1 \in Nat /\ n+1 \in W
  BY <1>1, <1>3
<1>5. \A i \in 0..n : Rank(W, i) = Rank(V, i)
  <2>1. TAKE i \in 0..n
  <2>2. W \cap (1..i) = V \cap (1..i)
    BY <1>1, <1>3
  <2>3. QED
    BY <2>2 DEF Rank
<1> HIDE DEF n, V, W
<1>6. Rank(V, n) = Cardinality(V) /\ Cardinality(V) \in Nat
      /\ \A i \in V : Rank(V, i) \in 1..Cardinality(V)
  BY <1>1, RankFacts
<1>7. /\ Rank(W, n+1) = Cardinality(W)
      /\ \A i \in Nat \ {0} : Rank(W, i) = Rank(W, i-1) + (IF i \in W THEN 1 ELSE 0)
  <2>1. PICK k \in Nat : k = n + 1 /\ W \in SUBSET (1..k)
    BY <1>4
  <2>2. /\ Rank(W, k) = Cardinality(W)
        /\ \A i \in Nat \ {0} : Rank(W, i) = Rank(W, i-1) + (IF i \in W THEN 1 ELSE 0)
    BY <2>1, RankFacts
  <2>3. QED
    BY <2>1, <2>2
<1>8. Rank(W, n+1) = Cardinality(V) + 1 /\ Cardinality(W) = Cardinality(V) + 1
  <2>1. n+1 \in Nat \ {0} /\ (n+1) - 1 = n /\ n \in 0..n
    BY <1>1
  <2>2. Rank(W, n+1) = Rank(W, (n+1)-1) + 1
    BY <1>4, <1>7, <2>1
  <2>3. QED
    BY <1>5, <1>6, <1>7, <2>1, <2>2
<1>9. /\ Len(entries) = Cardinality(V)
      /\ \A i \in V : entries[Rank(V, i)] = Shown(held[i])
  BY DEF Shows, V
<1> DEFINE new == Append(entries, Shown(h))
<1>10. /\ Len(new) = Cardinality(V) + 1 /\ new[Cardinality(V) + 1] = Shown(h)
       /\ \A k \in 1..Cardinality(V) : new[k] = entries[k]
  BY <1>9, AppendProperties
<1> HIDE DEF new
<1>11. \A i \in W : new[Rank(W, i)] = Shown(Append(held, h)[i])
  <2>1. TAKE i \in W
  <2>2. CASE i = n + 1
    BY <1>2, <1>8, <1>10, <2>2
  <2>3. CASE i \in V
    <3>1. i \in 1..n /\ i \in 0..n
      BY <1>1, <2>3
    <3>2. Rank(W, i) = Rank(V, i) /\ Rank(V, i) \in 1..Cardinality(V)
      BY <1>5, <1>6, <2>3, <3>1
    <3>3. QED
      BY <1>2, <1>9, <1>10, <2>3, <3>1, <3>2
  <2>4. QED
    BY <1>3, <2>2, <2>3
<1>12. Shows(new, Append(held, h))
  BY <1>8, <1>10, <1>11 DEF Shows, W
<1>13. \A i \in 1..n : i \in 0..n
  BY <1>1
<1>14. QED
  BY <1>5, <1>8, <1>9, <1>12, <1>13 DEF n, V, W, new

\* A listed breakpoint is changed on both sides.
LEMMA ShowsChanged ==
  ASSUME NEW H, NEW held \in Seq(H), NEW h \in H, Listed(h), NEW i \in ListedAt(held),
         NEW entries \in Seq(Bps), Shows(entries, held)
  PROVE  LET changed == [held EXCEPT ![i] = h]
             k == Rank(ListedAt(held), i)
         IN /\ ListedAt(changed) = ListedAt(held)
            /\ Shows([entries EXCEPT ![k] = Shown(h)], changed)
<1> DEFINE n == Len(held)
           V == ListedAt(held)
           changed == [held EXCEPT ![i] = h]
           k == Rank(V, i)
           new == [entries EXCEPT ![k] = Shown(h)]
<1>1. n \in Nat /\ V \in SUBSET (1..n) /\ i \in 1..n
  BY ListedLemma
<1>2. Len(changed) = n /\ changed[i] = h /\ \A j \in 1..n : j # i => changed[j] = held[j]
  BY <1>1, ExceptSeq
<1>3. ListedAt(changed) = V
  BY <1>1, <1>2 DEF ListedAt
<1> HIDE DEF n, V, changed
<1>4. /\ Cardinality(V) \in Nat /\ \A j \in V : Rank(V, j) \in 1..Cardinality(V)
      /\ \A j, l \in V : Rank(V, j) = Rank(V, l) => j = l
  BY <1>1, RankFacts
<1>5. /\ Len(entries) = Cardinality(V)
      /\ \A j \in V : entries[Rank(V, j)] = Shown(held[j])
  BY DEF Shows, V
<1>6. i \in V /\ k \in 1..Len(entries)
  BY <1>4, <1>5 DEF V
<1>7. Len(new) = Len(entries) /\ new[k] = Shown(h)
      /\ \A l \in 1..Len(entries) : l # k => new[l] = entries[l]
  BY <1>6, ExceptSeq
<1> HIDE DEF new
<1>8. \A j \in V : new[Rank(V, j)] = Shown(changed[j])
  <2>1. TAKE j \in V
  <2>2. CASE j = i
    BY <1>2, <1>7, <2>2
  <2>3. CASE j # i
    BY <1>1, <1>2, <1>4, <1>5, <1>6, <1>7, <2>3
  <2>4. QED
    BY <2>2, <2>3
<1>9. Shows(new, changed)
  BY <1>3, <1>5, <1>7, <1>8 DEF Shows
<1>10. QED
  BY <1>3, <1>9 DEF V, changed, new

\* A listed breakpoint is removed on both sides.
LEMMA ShowsRemoved ==
  ASSUME NEW H, NEW held \in Seq(H), NEW i \in ListedAt(held),
         NEW entries \in Seq(Bps), Shows(entries, held)
  PROVE  LET k == Rank(ListedAt(held), i)
         IN /\ k \in 1..Len(entries)
            /\ Shows(RemoveAt(entries, k), RemoveAt(held, i))
            /\ \A j \in 1..(Len(held) - 1) : Rank(ListedAt(RemoveAt(held, i)), j)
                 = IF j < i THEN Rank(ListedAt(held), j) ELSE Rank(ListedAt(held), j+1) - 1
<1> DEFINE n == Len(held)
           V == ListedAt(held)
           rest == RemoveAt(held, i)
           W == ListedAt(rest)
           k == Rank(V, i)
           new == RemoveAt(entries, k)
<1>1. n \in Nat /\ V \in SUBSET (1..n) /\ i \in 1..n /\ i \in V
  BY ListedLemma
<1>2. /\ rest \in Seq(H) /\ Len(rest) = n - 1
      /\ \A j \in 1..(n-1) : rest[j] = IF j < i THEN held[j] ELSE held[j+1]
  BY <1>1, RemoveAtLemma
<1>3. W = {j \in 1..(n-1) : IF j < i THEN j \in V ELSE j+1 \in V}
  <2>1. \A j \in 1..(n-1) : j \in 1..n /\ j+1 \in 1..n
    BY <1>1
  <2> HIDE DEF rest
  <2>2. QED
    BY <1>2, <2>1 DEF ListedAt
<1> HIDE DEF n, V, rest, W
<1>4. /\ Cardinality(V) \in Nat /\ \A j \in V : Rank(V, j) \in 1..Cardinality(V)
      /\ \A j \in V : Rank(V, j) \in Nat
      /\ \A j, l \in V : j < l => Rank(V, j) < Rank(V, l)
  <2>1. /\ Cardinality(V) \in Nat /\ \A j \in V : Rank(V, j) \in 1..Cardinality(V)
        /\ \A j, l \in V : j < l => Rank(V, j) < Rank(V, l)
    BY <1>1, RankFacts
  <2>2. QED
    BY <2>1
<1>5. /\ \A j \in 0..(n-1) : Rank(W, j) = IF j < i THEN Rank(V, j) ELSE Rank(V, j+1) - 1
      /\ Cardinality(W) = Cardinality(V) - 1
  BY <1>1, <1>3, RankRemoved, ZenonT(40)
<1>6. /\ Len(entries) = Cardinality(V)
      /\ \A j \in V : entries[Rank(V, j)] = Shown(held[j])
  BY DEF Shows, V
<1>7. k \in 1..Len(entries)
  BY <1>1, <1>4, <1>6
<1> HIDE DEF k
<1>8. /\ Len(new) = Len(entries) - 1
      /\ \A l \in 1..(Len(entries) - 1) : new[l] = IF l < k THEN entries[l] ELSE entries[l+1]
  BY <1>7, RemoveAtLemma
<1> HIDE DEF new
<1>9. \A j \in W : new[Rank(W, j)] = Shown(rest[j])
  <2>1. TAKE j \in W
  <2>2. j \in 1..(n-1) /\ j \in 0..(n-1)
    BY <1>1, <1>3
  <2>3. CASE j < i
    <3>1. j \in V /\ rest[j] = held[j] /\ Rank(W, j) = Rank(V, j)
      BY <1>2, <1>3, <1>5, <2>2, <2>3
    <3>2. Rank(V, j) \in 1..(Len(entries) - 1) /\ Rank(V, j) < k
      BY <1>1, <1>4, <1>6, <1>7, <2>3, <3>1 DEF k
    <3>3. QED
      BY <1>6, <1>8, <3>1, <3>2
  <2>4. CASE ~(j < i)
    <3>1. j+1 \in V /\ rest[j] = held[j+1] /\ Rank(W, j) = Rank(V, j+1) - 1
      BY <1>2, <1>3, <1>5, <2>2, <2>4
    <3>2. i < j+1
      BY <1>1, <2>2, <2>4
    <3>3. k < Rank(V, j+1) /\ Rank(V, j+1) \in 1..Len(entries)
      BY <1>1, <1>4, <1>6, <3>1, <3>2 DEF k
    <3>4. Rank(W, j) \in 1..(Len(entries) - 1) /\ ~(Rank(W, j) < k) /\ Rank(W, j) + 1 = Rank(V, j+1)
      BY <1>6, <1>7, <3>1, <3>3
    <3>5. new[Rank(W, j)] = entries[Rank(V, j+1)]
      BY <1>8, <3>4
    <3>6. QED
      BY <1>6, <3>1, <3>5
  <2>5. QED
    BY <2>3, <2>4
<1>10. Shows(new, rest)
  BY <1>5, <1>6, <1>8, <1>9 DEF Shows, W
<1>11. \A j \in 1..(n-1) : j \in 0..(n-1)
  BY <1>1
<1>12. QED
  BY <1>5, <1>7, <1>10, <1>11 DEF n, V, rest, W, k, new

LEMMA UpTo ==
  ASSUME NEW n \in Nat
  PROVE  Cardinality(1..n) = n
BY FS_Interval

\* What is merged from an answer is what the adapter then holds listed.
LEMMA ShowsMerge ==
  ASSUME NEW specs \in Specs, NEW items \in Items(specs), NEW H, NEW held \in Seq(H),
         Len(held) = Len(specs),
         \A i \in 1..Len(specs) :
           /\ held[i].line = IF items = <<>> \/ items[i].line = None THEN specs[i].line
                             ELSE items[i].line
           /\ held[i].condition = specs[i].condition
           /\ Listed(held[i]) <=> (items = <<>> \/ items[i].verified)
  PROVE  Shows(Merge(items, specs), held)
<1> DEFINE n == Len(specs)
           V == ListedAt(held)
<1>1. /\ n \in Nat /\ specs \in Seq(Bps)
      /\ items # <<>> =>
           /\ Len(items) = n
           /\ \A i \in 1..Len(items) : items[i].line \in Lines \cup {None} /\ items[i].verified \in BOOLEAN
  BY RequestLemma
<1>2. V \in SUBSET (1..n)
  BY ListedLemma
<1>3. /\ Cardinality(V) \in Nat /\ Rank(V, n) = Cardinality(V) /\ Rank(V, 0) = 0
      /\ \A i \in V : Rank(V, i) \in 1..Cardinality(V)
      /\ \A i, j \in V : Rank(V, i) = Rank(V, j) => i = j
  <2> HIDE DEF n, V
  <2> QED BY <1>1, <1>2, RankFacts
<1>4. CASE items = <<>>
  <2>1. V = 1..n
    <3>1. \A i \in 1..n : Listed(held[i])
      BY <1>4
    <3>2. QED
      BY <3>1 DEF ListedAt
  <2>2. \A i \in 0..n : Rank(V, i) = i
    <3>1. TAKE i \in 0..n
    <3>2. V \cap (1..i) = 1..i /\ i \in Nat
      BY <1>1, <2>1
    <3>3. Cardinality(1..i) = i
      BY <3>2, UpTo
    <3>4. QED
      BY <3>2, <3>3 DEF Rank
  <2>3. Merge(items, specs) = specs /\ Len(specs) = Cardinality(V)
    <3>1. n \in 0..n
      BY <1>1
    <3>2. QED
      BY <1>3, <1>4, <2>2, <3>1 DEF Merge
  <2>4. \A i \in V : specs[Rank(V, i)] = Shown(held[i])
    <3>1. TAKE i \in V
    <3>2. i \in 1..n /\ i \in 0..n
      BY <2>1, <1>1
    <3>3. specs[i] \in Bps /\ Rank(V, i) = i
      BY <1>1, <2>2, <3>2, ElementOfSeq
    <3>4. held[i].line = specs[i].line /\ held[i].condition = specs[i].condition
      BY <1>4, <3>2
    <3>5. QED
      BY <3>3, <3>4 DEF Shown, Bp, Bps
  <2> HIDE DEF V
  <2>5. QED
    BY <2>3, <2>4 DEF Shows, V
<1>5. CASE items # <<>>
  <2> DEFINE verified == {i \in 1..Len(items) : items[i].verified}
             merged == [k \in 1..Cardinality(verified) |-> MergeUnverified(items, specs)[Kth(verified, k)]]
  <2>1. V = verified
    BY <1>1, <1>5 DEF ListedAt
  <2>2. Merge(items, specs) = merged
    BY <1>5 DEF Merge
  <2> HIDE DEF V, verified
  <2>3. /\ DOMAIN merged = 1..Cardinality(V)
        /\ \A k \in 1..Cardinality(V) : merged[k] = MergeUnverified(items, specs)[Kth(V, k)]
    BY <2>1
  <2>4. Merge(items, specs) \in Seq(Bps)
    BY MergeLemma
  <2> HIDE DEF merged
  <2>5. Len(merged) = Cardinality(V)
    BY <1>3, <2>2, <2>3, <2>4, LenProperties
  <2>6. \A i \in V : merged[Rank(V, i)] = Shown(held[i])
    <3>1. TAKE i \in V
    <3>2. i \in 1..n /\ Rank(V, i) \in 1..Cardinality(V)
      BY <1>2, <1>3
    <3>3. Kth(V, Rank(V, i)) \in V /\ Rank(V, Kth(V, Rank(V, i))) = Rank(V, i)
      <4> DEFINE k == Rank(V, i)
      <4>1. k \in 1..Cardinality(V)
        BY <3>2
      <4> HIDE DEF k, n
      <4>2. Kth(V, k) \in V /\ Cardinality(V \cap (1..Kth(V, k))) = k
        BY <1>1, <1>2, <4>1, KthLemma
      <4>3. QED
        BY <4>2 DEF Rank, k
    <3>4. Kth(V, Rank(V, i)) = i
      BY <1>3, <3>3
    <3>5. merged[Rank(V, i)] = MergeUnverified(items, specs)[i]
      BY <2>3, <3>2, <3>4
    <3>6. MergeUnverified(items, specs)[i]
            = Bp(IF items[i].line = None THEN specs[i].line ELSE items[i].line, specs[i].condition)
      BY <1>1, <1>5, <3>2 DEF MergeUnverified
    <3>7. /\ held[i].line = IF items[i].line = None THEN specs[i].line ELSE items[i].line
          /\ held[i].condition = specs[i].condition
      BY <1>5, <3>2
    <3>8. QED
      BY <3>5, <3>6, <3>7 DEF Shown
  <2>7. QED
    BY <2>2, <2>5, <2>6 DEF Shows, V
<1>6. QED
  BY <1>4, <1>5

\* How often a breakpoint is shown, and how often it is held.
ShownTimes(entries, spec) == Cardinality({k \in 1..Len(entries) : entries[k] = spec})
HeldTimes(held, spec) ==
  Cardinality({i \in 1..Len(held) : Listed(held[i]) /\ Shown(held[i]) = spec})

\* When a file's entries are the listed breakpoints, each is shown as often as it is held.
LEMMA ShowsCounts ==
  ASSUME NEW H, NEW held \in Seq(H), NEW entries \in Seq(Bps), Shows(entries, held), NEW spec
  PROVE  ShownTimes(entries, spec) = HeldTimes(held, spec)
<1> DEFINE n == Len(held)
           V == ListedAt(held)
           S == {i \in 1..n : Listed(held[i]) /\ Shown(held[i]) = spec}
           T == {k \in 1..Len(entries) : entries[k] = spec}
           f == [i \in S |-> Rank(V, i)]
<1>1. n \in Nat /\ V \in SUBSET (1..n) /\ S = {i \in V : Shown(held[i]) = spec}
  BY ListedLemma DEF ListedAt
<1> HIDE DEF n, V
<1>2. /\ IsFiniteSet(V)
      /\ \A i \in V : Rank(V, i) \in 1..Cardinality(V)
      /\ \A k \in 1..Cardinality(V) : \E i \in V : Rank(V, i) = k
      /\ \A i, j \in V : Rank(V, i) = Rank(V, j) => i = j
  BY <1>1, RankFacts
<1>3. /\ Len(entries) = Cardinality(V)
      /\ \A i \in V : entries[Rank(V, i)] = Shown(held[i])
  BY DEF Shows, V
<1> HIDE DEF S
<1>4. IsFiniteSet(S)
  BY <1>1, <1>2, FS_Subset
<1>5. \A i \in S : Rank(V, i) \in T
  BY <1>1, <1>2, <1>3
<1>6. \A k \in T : \E i \in S : Rank(V, i) = k
  <2>1. TAKE k \in T
  <2>2. PICK i \in V : Rank(V, i) = k
    BY <1>2, <1>3
  <2>3. QED
    BY <1>1, <1>3, <2>2
<1>7. \A i, j \in S : Rank(V, i) = Rank(V, j) => i = j
  BY <1>1, <1>2
<1> HIDE DEF T
<1>8. f \in Bijection(S, T)
  BY <1>5, <1>6, <1>7 DEF Bijection, Injection, Surjection, IsInjective
<1>9. QED
  <2>1. Cardinality(T) = Cardinality(S)
    BY <1>4, <1>8, FS_Bijection DEF ExistsBijection
  <2>2. QED
    BY <2>1 DEF ShownTimes, HeldTimes, S, T, n

-----------------------------------------------------------------------------
(* The steps, when the adapter reports only what it announced itself *)

\* What is not placed stays unknown when nothing becomes known.
LEMMA UnknownStays ==
  ASSUME SnapshotInv, unplaced' \subseteq unplaced, DOMAIN breakpoint_ids' \subseteq DOMAIN breakpoint_ids
  PROVE  UnplacedUnknown'
BY DEF SnapshotInv, UnplacedUnknown

\* Requests and refused answers change neither side.
LEMMA QuietShows ==
  ASSUME SnapshotInv, UNCHANGED <<source_breakpoints, breakpoint_ids, adapter>>
  PROVE  ShowsAdapter' /\ AnnouncedKnown'
<1>1. ShowsAdapter /\ AnnouncedKnown
  BY DEF SnapshotInv
<1>2. ShowsAdapter'
  BY <1>1 DEF ShowsAdapter, Entries, Shows
<1>3. AnnouncedKnown'
  BY <1>1 DEF AnnouncedKnown
<1>4. QED
  BY <1>2, <1>3

\* Only the file a step is about changes on either side.
LEMMA OnlyPath ==
  ASSUME SnapshotInv, NEW path \in Paths,
         \A q \in Paths : q # path => Entries(q)' = Entries(q) /\ adapter'[q] = adapter[q],
         \A q \in Paths : \A i \in 1..Len(adapter[q]) :
           (q # path /\ adapter[q][i].origin = "announced") =>
             /\ adapter[q][i].id \in DOMAIN breakpoint_ids'
             /\ breakpoint_ids'[adapter[q][i].id] = breakpoint_ids[adapter[q][i].id],
         Shows(Entries(path)', adapter'[path]),
         \A i \in 1..Len(adapter'[path]) :
           adapter'[path][i].origin = "announced" =>
             /\ Listed(adapter'[path][i])
             /\ adapter'[path][i].id \in DOMAIN breakpoint_ids'
             /\ breakpoint_ids'[adapter'[path][i].id] = <<path, Rank(ListedAt(adapter'[path]), i)>>
  PROVE  ShowsAdapter' /\ AnnouncedKnown'
<1>1. ShowsAdapter /\ AnnouncedKnown
  BY DEF SnapshotInv
<1>2. \A q \in Paths : Shows(Entries(q)', adapter'[q])
  <2>1. TAKE q \in Paths
  <2>2. CASE q # path
    BY <1>1, <2>2 DEF ShowsAdapter
  <2>3. QED
    BY <2>2
<1>3. ShowsAdapter'
  BY <1>2 DEF ShowsAdapter, Shows, ListedAt, Entries
<1>4. ASSUME NEW q \in Paths, NEW i \in 1..Len(adapter'[q]), adapter'[q][i].origin = "announced"
      PROVE  /\ Listed(adapter'[q][i])
             /\ adapter'[q][i].id \in DOMAIN breakpoint_ids'
             /\ breakpoint_ids'[adapter'[q][i].id] = <<q, Rank(ListedAt(adapter'[q]), i)>>
  <2>1. CASE q # path
    <3>1. adapter'[q] = adapter[q]
      BY <2>1
    <3>2. /\ Listed(adapter[q][i])
          /\ breakpoint_ids[adapter[q][i].id] = <<q, Rank(ListedAt(adapter[q]), i)>>
      BY <1>1, <1>4, <3>1 DEF AnnouncedKnown
    <3>3. /\ adapter[q][i].id \in DOMAIN breakpoint_ids'
          /\ breakpoint_ids'[adapter[q][i].id] = breakpoint_ids[adapter[q][i].id]
      BY <1>4, <2>1, <3>1
    <3>4. QED
      BY <3>1, <3>2, <3>3
  <2>2. CASE q = path
    BY <1>4, <2>2
  <2>3. QED
    BY <2>1, <2>2
<1>5. AnnouncedKnown'
  BY <1>4 DEF AnnouncedKnown, ListedAt
<1>6. QED
  BY <1>3, <1>5

\* An answer.
LEMMA AnswerShows ==
  ASSUME OwnReportsOnly, SnapshotInv, NEW b \in Asked("setBreakpoints"), NEW success \in BOOLEAN,
         NEW items \in Items(asked[b].specs), Answer(b, success, items)
  PROVE  ShowsAdapter' /\ AnnouncedKnown'
<1>1. TrackerInv /\ TrackerInv' /\ TablesOK
  BY AnswerKeeps DEF SnapshotInv, TrackerInv, Shapes, TablesOK
<1>2. PICK path \in ClientPaths, specs \in Specs :
        /\ asked[b].path = path /\ asked[b].specs = specs
        /\ b \in DOMAIN pending_set_breakpoints
        /\ pending_set_breakpoints[b] = [path |-> path, specs |-> specs]
  <2>1. asked[b].command = "setBreakpoints" /\ asked[b] \in AskedRecords
    BY <1>1, MapsEntries DEF TrackerInv, Shapes, Asked
  <2>2. asked[b] \in [command : {"setBreakpoints"}, path : ClientPaths, specs : Specs]
    BY <2>1 DEF AskedRecords
  <2>3. /\ b \in DOMAIN pending_set_breakpoints
        /\ pending_set_breakpoints[b] = [path |-> asked[b].path, specs |-> asked[b].specs]
    BY <1>1 DEF TrackerInv, PendingAsAsked
  <2>4. asked[b].path \in ClientPaths /\ asked[b].specs \in Specs
    BY <2>2
  <2>5. QED
    BY <2>3, <2>4
<1>3. /\ Resolve[path] = path /\ path \in Paths
      /\ pending_set_breakpoints[b].path = path /\ pending_set_breakpoints[b].specs = specs
  BY <1>2, TrackerAssumption DEF OwnReportsOnly
<1> DEFINE Held(i) == [id |-> next_id + i,
                       line |-> IF items = <<>> \/ items[i].line = None THEN specs[i].line
                                ELSE items[i].line,
                       condition |-> specs[i].condition,
                       verified |-> items = <<>> \/ items[i].verified,
                       origin |-> "answered"]
           held == [i \in 1..Len(specs) |-> Held(i)]
<1>4. CASE success
  <2>1. /\ Rebuild(path, Merge(items, specs))
        /\ adapter' = [adapter EXCEPT ![path] = held]
    BY <1>2, <1>3, <1>4 DEF Answer, ObserveResponse
  <2>2. Merge(items, specs) \in Seq(Bps) /\ Len(specs) \in Nat
    BY <1>2, MergeLemma, RequestLemma
  <2>3. Stores(path, Merge(items, specs))
    BY <2>1 DEF Rebuild, Stores
  <2>4. /\ Entries(path)' = Merge(items, specs)
        /\ \A q \in Paths : q # path => Entries(q)' = Entries(q)
    BY <1>1, <1>3, <2>2, <2>3, StoresLemma
  <2>5. adapter'[path] = held /\ \A q \in Paths : q # path => adapter'[q] = adapter[q]
    BY <1>1, <1>3, <2>1 DEF TrackerInv, Shapes
  <2>6. adapter'[path] \in Seq(HeldBps')
    BY <1>1, <1>3 DEF TrackerInv, Shapes
  <2>7. \A i \in 1..Len(specs) :
          /\ held[i].verified <=> (items = <<>> \/ items[i].verified)
          /\ held[i].line = IF items = <<>> \/ items[i].line = None THEN specs[i].line
                            ELSE items[i].line
          /\ held[i].condition = specs[i].condition
          /\ held[i].origin = "answered"
    OBVIOUS
  <2>8. DOMAIN held = 1..Len(specs)
    OBVIOUS
  <2> HIDE DEF Held, held
  <2>9. held \in Seq(HeldBps') /\ Len(held) = Len(specs)
    BY <2>2, <2>5, <2>6, <2>8, LenProperties
  <2>10. Shows(Merge(items, specs), held)
    <3>1. PICK H : H = HeldBps'
      OBVIOUS
    <3>2. held \in Seq(H)
      BY <2>9, <3>1
    <3>3. \A i \in 1..Len(specs) : Listed(held[i]) <=> (items = <<>> \/ items[i].verified)
      BY <2>7 DEF Listed
    <3>4. QED
      BY <1>2, <2>7, <2>9, <3>2, <3>3, ShowsMerge
  <2>11. \A q \in Paths : \A i \in 1..Len(adapter[q]) :
           (q # path /\ adapter[q][i].origin = "announced") =>
             /\ adapter[q][i].id \in DOMAIN breakpoint_ids'
             /\ breakpoint_ids'[adapter[q][i].id] = breakpoint_ids[adapter[q][i].id]
    <3>1. TAKE q \in Paths
    <3>2. TAKE i \in 1..Len(adapter[q])
    <3>3. HAVE q # path /\ adapter[q][i].origin = "announced"
    <3> DEFINE id == adapter[q][i].id
    <3>4. id \in DOMAIN breakpoint_ids /\ breakpoint_ids[id][1] = q
      BY <3>3 DEF SnapshotInv, AnnouncedKnown
    <3>5. \A j \in DOMAIN breakpoint_ids : breakpoint_ids[j][1] # path =>
            j \in DOMAIN breakpoint_ids' /\ breakpoint_ids'[j] = breakpoint_ids[j]
      BY <2>1 DEF Rebuild, Restrict
    <3> HIDE DEF id
    <3>6. id \in DOMAIN breakpoint_ids' /\ breakpoint_ids'[id] = breakpoint_ids[id]
      BY <3>3, <3>4, <3>5
    <3>7. QED
      BY <3>6 DEF id
  <2>12. \A i \in 1..Len(held) : held[i].origin # "announced"
    BY <2>7, <2>9
  <2>13. QED
    BY <1>3, <2>4, <2>5, <2>10, <2>11, <2>12, OnlyPath
<1>5. CASE ~success
  BY <1>5, QuietShows DEF Answer, ObserveResponse
<1>6. QED
  BY <1>4, <1>5

\* What the adapter announces with a file and a line, or places so later, is appended.
LEMMA PlacedShows ==
  ASSUME SnapshotInv, TrackerInv', next_id \in Nat, next_id' \in Nat, next_id <= next_id',
         NEW id \in 1..next_id', id \notin DOMAIN breakpoint_ids,
         NEW path \in Paths, NEW line \in Lines, NEW verified \in BOOLEAN,
         Hold(id, path, line, verified), ApplyNew(id, path, Bp(line, None))
  PROVE  ShowsAdapter' /\ AnnouncedKnown' /\ UnplacedUnknown'
<1> DEFINE h == [id |-> id, line |-> line, condition |-> None, verified |-> verified,
                 origin |-> "announced"]
           held == adapter[path]
           entries == Entries(path)
<1>1. TrackerInv /\ TablesOK
  BY DEF SnapshotInv, TrackerInv, Shapes, TablesOK
<1>2. path # None /\ line # None
  BY TrackerAssumption
<1>3. adapter' = [adapter EXCEPT ![path] = Append(held, h)] /\ unplaced' = unplaced \ {id}
  BY <1>2 DEF Hold
<1>4. /\ source_breakpoints' = Insert(source_breakpoints, path, Append(entries, Bp(line, None)))
      /\ breakpoint_ids' = Insert(breakpoint_ids, id, <<path, Len(entries) + 1>>)
  BY <1>2 DEF ApplyNew, Bp
<1>5. Shown(h) = Bp(line, None) /\ Listed(h) /\ h.id = id /\ Bp(line, None) \in Bps /\ h \in HeldBps'
  BY DEF Shown, Bp, Bps, HeldBps, Listed
<1>6. held \in Seq(HeldBps') /\ held \in Seq(HeldBps) /\ entries \in Seq(Bps)
      /\ adapter \in [Paths -> Seq(HeldBps)]
  <2>1. adapter \in [Paths -> Seq(HeldBps')]
    BY <1>1, HeldGrow DEF TrackerInv, Shapes
  <2>2. QED
    BY <1>1, <2>1, EntriesLemma DEF TrackerInv, Shapes
<1>7. Shows(entries, held)
  BY DEF SnapshotInv, ShowsAdapter
<1> HIDE DEF h, entries
<1>8. /\ adapter'[path] = Append(held, h)
      /\ \A q \in Paths : q # path => adapter'[q] = adapter[q]
  BY <1>3, <1>6
<1> HIDE DEF held
<1> DEFINE new == Append(entries, Bp(line, None))
<1>9. new \in Seq(Bps) /\ new # <<>> /\ Len(new) = Len(entries) + 1
  BY <1>5, <1>6, AppendProperties
<1>10. Entries(path)' = new /\ \A q \in Paths : q # path => Entries(q)' = Entries(q)
  <2> HIDE DEF new
  <2>1. Stores(path, new)
    BY <1>4, <1>9 DEF Stores, new
  <2>2. QED
    BY <1>1, <1>9, <2>1, StoresLemma
<1>11. /\ Shows(new, Append(held, h))
       /\ \A i \in 1..Len(held) :
            Rank(ListedAt(Append(held, h)), i) = Rank(ListedAt(held), i)
       /\ Rank(ListedAt(Append(held, h)), Len(held) + 1) = Len(entries) + 1
  <2>1. PICK H : H = HeldBps'
    OBVIOUS
  <2>2. held \in Seq(H) /\ h \in H
    BY <1>5, <1>6, <2>1
  <2>3. Shown(h) \in Bps
    BY <1>5
  <2>4. /\ Shows(Append(entries, Shown(h)), Append(held, h))
        /\ \A i \in 1..Len(held) :
             Rank(ListedAt(Append(held, h)), i) = Rank(ListedAt(held), i)
        /\ Rank(ListedAt(Append(held, h)), Len(held) + 1) = Len(entries) + 1
    BY <1>5, <1>6, <1>7, <2>2, <2>3, ShowsAppend
  <2>5. QED
    BY <1>5, <2>4
<1>12. /\ DOMAIN breakpoint_ids' = DOMAIN breakpoint_ids \cup {id}
       /\ breakpoint_ids'[id] = <<path, Len(entries) + 1>>
       /\ \A j \in DOMAIN breakpoint_ids : breakpoint_ids'[j] = breakpoint_ids[j]
  BY <1>4 DEF Insert
<1>13. /\ Len(Append(held, h)) = Len(held) + 1 /\ Append(held, h)[Len(held) + 1] = h
       /\ \A i \in 1..Len(held) : Append(held, h)[i] = held[i]
       /\ Len(held) \in Nat
  BY <1>5, <1>6, AppendProperties, LenProperties
<1>14. \A q \in Paths : \A i \in 1..Len(adapter[q]) :
         adapter[q][i].origin = "announced" =>
           /\ Listed(adapter[q][i])
           /\ adapter[q][i].id \in DOMAIN breakpoint_ids'
           /\ breakpoint_ids'[adapter[q][i].id] = <<q, Rank(ListedAt(adapter[q]), i)>>
           /\ breakpoint_ids'[adapter[q][i].id] = breakpoint_ids[adapter[q][i].id]
  BY <1>12 DEF SnapshotInv, AnnouncedKnown
<1>15. ASSUME NEW i \in 1..Len(adapter'[path]), adapter'[path][i].origin = "announced"
       PROVE  /\ Listed(adapter'[path][i])
              /\ adapter'[path][i].id \in DOMAIN breakpoint_ids'
              /\ breakpoint_ids'[adapter'[path][i].id] = <<path, Rank(ListedAt(adapter'[path]), i)>>
  <2>1. CASE i = Len(held) + 1
    <3>1. adapter'[path][i] = h
      BY <1>8, <1>13, <2>1
    <3>2. Rank(ListedAt(adapter'[path]), i) = Len(entries) + 1
      BY <1>8, <1>11, <2>1
    <3>3. QED
      BY <1>5, <1>12, <3>1, <3>2
  <2>2. CASE i \in 1..Len(held)
    <3>1. adapter'[path][i] = held[i] /\ held[i].origin = "announced"
      BY <1>8, <1>13, <1>15, <2>2
    <3>2. Rank(ListedAt(adapter'[path]), i) = Rank(ListedAt(held), i)
      BY <1>8, <1>11, <2>2
    <3>3. /\ Listed(held[i]) /\ held[i].id \in DOMAIN breakpoint_ids'
          /\ breakpoint_ids'[held[i].id] = <<path, Rank(ListedAt(held), i)>>
      BY <1>14, <2>2, <3>1 DEF held
    <3>4. QED
      BY <3>1, <3>2, <3>3
  <2>3. QED
    BY <1>8, <1>13, <2>1, <2>2
<1>16. Shows(Entries(path)', adapter'[path])
  BY <1>8, <1>10, <1>11
<1> HIDE DEF new
<1>17. ShowsAdapter' /\ AnnouncedKnown'
  BY <1>8, <1>10, <1>14, <1>15, <1>16, OnlyPath
<1>18. UnplacedUnknown'
  BY <1>3, <1>12 DEF SnapshotInv, UnplacedUnknown
<1>19. QED
  BY <1>17, <1>18

\* A breakpoint the tracker does not know appears, or is mentioned without a place.
LEMMA AppearShows ==
  ASSUME SnapshotInv, TrackerInv', next_id \in Nat, next_id' \in Nat, next_id <= next_id',
         NEW id \in 1..next_id', id \notin DOMAIN breakpoint_ids,
         NEW source \in Paths \cup {None}, NEW line \in MaybeLine, NEW verified \in BOOLEAN,
         Hold(id, source, line, verified), ApplyNew(id, source, Bp(line, None))
  PROVE  ShowsAdapter' /\ AnnouncedKnown' /\ UnplacedUnknown'
<1>1. CASE source # None /\ line # None
  <2>1. source \in Paths /\ line \in Lines
    BY <1>1 DEF MaybeLine
  <2>2. QED
    BY <2>1, PlacedShows
<1>2. CASE source = None \/ line = None
  <2>1. UNCHANGED <<source_breakpoints, breakpoint_ids, adapter>>
    BY <1>2 DEF ApplyNew, Hold, Bp
  <2>2. unplaced' = unplaced \cup {id}
    BY <1>2 DEF Hold
  <2>3. UnplacedUnknown'
    BY <2>1, <2>2 DEF SnapshotInv, UnplacedUnknown
  <2>4. QED
    BY <2>1, <2>3, QuietShows
<1>3. QED
  BY <1>1, <1>2

LEMMA AnnounceShows ==
  ASSUME SnapshotInv, TrackerInv', NEW source \in Paths \cup {None}, NEW line \in MaybeLine,
         NEW verified \in BOOLEAN, Announce(source, line, verified)
  PROVE  ShowsAdapter' /\ AnnouncedKnown' /\ UnplacedUnknown'
<1>1. next_id \in Nat /\ next_id' = next_id + 1 /\ next_id' \in Nat
  BY TrackerAssumption DEF Announce, SnapshotInv, TrackerInv, Shapes
<1>2. PICK id \in 1..next_id' : id = next_id'
  BY <1>1
<1>3. Hold(id, source, line, verified) /\ ApplyNew(id, source, Bp(line, None))
  BY <1>2 DEF Announce
<1>4. id \notin DOMAIN breakpoint_ids
  <2>1. DOMAIN breakpoint_ids \subseteq 1..next_id
    BY MapsEntries DEF SnapshotInv, TrackerInv, Shapes
  <2>2. QED
    BY <1>1, <1>2, <2>1
<1>5. QED
  BY <1>1, <1>3, <1>4, AppearShows

LEMMA ChangeUnplacedShows ==
  ASSUME SnapshotInv, TrackerInv', NEW source \in Paths \cup {None}, NEW line \in MaybeLine,
         NEW verified \in BOOLEAN, NEW id \in unplaced, ChangeUnplaced(id, source, line, verified)
  PROVE  ShowsAdapter' /\ AnnouncedKnown' /\ UnplacedUnknown'
<1>1. /\ next_id \in Nat /\ UNCHANGED next_id /\ id \in 1..next_id'
      /\ id \notin DOMAIN breakpoint_ids
  BY TrackerAssumption
     DEF ChangeUnplaced, SnapshotInv, TrackerInv, Shapes, UnplacedUnknown
<1>2. Hold(id, source, line, verified) /\ ApplyNew(id, source, Bp(line, None))
  BY <1>1 DEF ChangeUnplaced, ApplyChanged
<1>3. QED
  BY <1>1, <1>2, AppearShows

LEMMA DropUnplacedShows ==
  ASSUME SnapshotInv, NEW id \in unplaced, DropUnplaced(id)
  PROVE  ShowsAdapter' /\ AnnouncedKnown' /\ UnplacedUnknown'
<1>1. id \notin DOMAIN breakpoint_ids
  BY DEF SnapshotInv, UnplacedUnknown
<1>2. UNCHANGED <<source_breakpoints, breakpoint_ids, adapter>>
  BY <1>1 DEF DropUnplaced, ApplyRemoved
<1>3. unplaced' \subseteq unplaced
  BY DEF DropUnplaced
<1>4. UnplacedUnknown'
  BY <1>2, <1>3, UnknownStays
<1>5. QED
  BY <1>2, <1>4, QuietShows

\* What the tracker knows of a breakpoint the adapter announced.
LEMMA AnnouncedAt ==
  ASSUME SnapshotInv, NEW path \in Paths, NEW i \in 1..Len(adapter[path]),
         adapter[path][i].origin = "announced"
  PROVE  LET k == Rank(ListedAt(adapter[path]), i)
         IN /\ adapter[path] \in Seq(HeldBps) /\ adapter[path][i] \in HeldBps
            /\ Len(adapter[path]) \in Nat
            /\ Entries(path) \in Seq(Bps) /\ Shows(Entries(path), adapter[path])
            /\ i \in ListedAt(adapter[path]) /\ k \in 1..Len(Entries(path))
            /\ Entries(path)[k] = Shown(adapter[path][i])
            /\ adapter[path][i].id \in DOMAIN breakpoint_ids
            /\ breakpoint_ids[adapter[path][i].id] = <<path, k>>
            /\ path \in DOMAIN source_breakpoints /\ source_breakpoints[path] = Entries(path)
<1> DEFINE held == adapter[path]
           V == ListedAt(held)
           k == Rank(V, i)
<1>1. TrackerInv /\ TablesOK /\ Shows(Entries(path), held) /\ Entries(path) \in Seq(Bps)
  BY EntriesLemma DEF SnapshotInv, TrackerInv, Shapes, TablesOK, ShowsAdapter
<1>2. held \in Seq(HeldBps) /\ held[i] \in HeldBps
  BY <1>1, HeldAt
<1>3. /\ Listed(held[i]) /\ held[i].id \in DOMAIN breakpoint_ids
      /\ breakpoint_ids[held[i].id] = <<path, k>>
  BY DEF SnapshotInv, AnnouncedKnown
<1>4. i \in V
  BY <1>3 DEF ListedAt
<1>5. Len(held) \in Nat /\ V \in SUBSET (1..Len(held))
  <2>1. PICK H : H = HeldBps
    OBVIOUS
  <2>2. held \in Seq(H)
    BY <1>2, <2>1
  <2> HIDE DEF held
  <2>3. QED
    BY <2>2, ListedLemma
<1> HIDE DEF held, V
<1>6. k \in 1..Cardinality(V)
  BY <1>4, <1>5, RankFacts
<1>7. Len(Entries(path)) = Cardinality(V) /\ Entries(path)[k] = Shown(held[i])
  BY <1>1, <1>4 DEF Shows, V
<1>8. path \in DOMAIN source_breakpoints
  <2>1. Len(Entries(path)) > 0
    <3>1. Cardinality(V) \in Nat
      BY <1>5, RankFacts
    <3>2. QED
      BY <1>6, <1>7, <3>1
  <2>2. QED
    BY <1>1, <2>1, EntriesLemma
<1>9. QED
  BY <1>1, <1>2, <1>3, <1>4, <1>5, <1>6, <1>7, <1>8 DEF held, V, Entries

\* What the adapter moves is changed in place; a change of its verdict alone changes nothing.
LEMMA ChangeShows ==
  ASSUME OwnReportsOnly, SnapshotInv, NEW path \in Paths, NEW i \in 1..Len(adapter[path]),
         NEW source \in {path, None}, NEW line \in MaybeLine, NEW verified \in BOOLEAN,
         Change(path, i, source, line, verified)
  PROVE  ShowsAdapter' /\ AnnouncedKnown' /\ UNCHANGED breakpoint_ids
<1> DEFINE held == adapter[path]
           entries == Entries(path)
           l == IF line = None THEN held[i].line ELSE line
           h == [held[i] EXCEPT !.line = l, !.verified = verified]
           changed == [held EXCEPT ![i] = h]
           V == ListedAt(held)
           k == Rank(V, i)
           new == [entries EXCEPT ![k] = Shown(h)]
           id == held[i].id
<1>1. TrackerInv /\ TablesOK /\ adapter \in [Paths -> Seq(HeldBps)]
  BY DEF SnapshotInv, TrackerInv, Shapes, TablesOK
<1>2. held[i].origin = "announced"
  BY DEF Change, OwnReportsOnly
<1>3. /\ held \in Seq(HeldBps) /\ held[i] \in HeldBps /\ Len(held) \in Nat
      /\ entries \in Seq(Bps) /\ Shows(entries, held)
      /\ i \in V /\ k \in 1..Len(entries) /\ entries[k] = Shown(held[i])
      /\ id \in DOMAIN breakpoint_ids /\ breakpoint_ids[id] = <<path, k>>
      /\ path \in DOMAIN source_breakpoints /\ source_breakpoints[path] = entries
  BY <1>2, AnnouncedAt
<1>4. h \in HeldBps /\ Listed(h) /\ h.id = id /\ h.origin = held[i].origin
      /\ Shown(h) = [entries[k] EXCEPT !.line = l]
      /\ (line = None => Shown(h) = entries[k])
  <2>1. PICK r \in HeldBps : r = held[i] /\ entries[k] = Shown(r)
    BY <1>3
  <2>2. PICK ln \in Lines : ln = l /\ (line = None => ln = r.line)
    BY <2>1 DEF HeldBps, MaybeLine
  <2> DEFINE s == [r EXCEPT !.line = ln, !.verified = verified]
  <2>3. s \in HeldBps
    BY DEF HeldBps
  <2>4. /\ s.id = r.id /\ s.origin = r.origin
        /\ s.line = ln /\ s.condition = r.condition
    BY DEF HeldBps
  <2>5. h = s
    BY <2>1, <2>2
  <2> HIDE DEF s, l
  <2>6. Shown(s) = [Shown(r) EXCEPT !.line = ln] /\ (line = None => Shown(s) = Shown(r))
    BY <2>2, <2>4 DEF Shown, Bp
  <2>7. Listed(s)
    BY <1>2, <2>1, <2>4 DEF Listed
  <2>8. QED
    BY <2>1, <2>2, <2>3, <2>4, <2>5, <2>6, <2>7
<1>5. /\ source_breakpoints' = [source_breakpoints EXCEPT ![path] = new]
      /\ UNCHANGED breakpoint_ids
  <2>1. ApplyChanged(id, source, line)
    BY DEF Change
  <2> HIDE DEF id, k, entries, h
  <2>2. breakpoint_ids[id][1] = path /\ breakpoint_ids[id][2] = k /\ k <= Len(entries)
    BY <1>3
  <2>3. CASE line # None
    <3>1. /\ source_breakpoints' = [source_breakpoints EXCEPT ![path][k].line = line]
          /\ UNCHANGED breakpoint_ids
      BY <1>3, <2>1, <2>2, <2>3 DEF ApplyChanged, entries
    <3>2. Shown(h) = [entries[k] EXCEPT !.line = line]
      BY <1>4, <2>3
    <3>3. QED
      BY <1>3, <3>1, <3>2
  <2>4. CASE line = None
    <3>1. UNCHANGED <<source_breakpoints, breakpoint_ids>>
      BY <1>3, <2>1, <2>2, <2>4 DEF ApplyChanged, entries
    <3>2. new = entries
      BY <1>3, <1>4, <2>4
    <3>3. source_breakpoints = [source_breakpoints EXCEPT ![path] = entries]
      BY <1>1, <1>3, MapsDef DEF TablesOK
    <3>4. QED
      BY <3>1, <3>2, <3>3
  <2>5. QED
    BY <2>3, <2>4
<1>6. adapter' = [adapter EXCEPT ![path] = changed]
  BY <1>1, <1>3 DEF Change
<1>7. adapter'[path] = changed /\ \A q \in Paths : q # path => adapter'[q] = adapter[q]
  BY <1>1, <1>6
<1> HIDE DEF new
<1>8. Entries(path)' = new /\ \A q \in Paths : q # path => Entries(q)' = Entries(q)
  BY <1>3, <1>5 DEF Entries
<1>9. ListedAt(changed) = V /\ Shows(new, changed)
  <2>1. PICK H : H = HeldBps
    OBVIOUS
  <2>2. held \in Seq(H) /\ h \in H
    BY <1>3, <1>4, <2>1
  <2> HIDE DEF held, h, entries
  <2>3. QED
    BY <1>3, <1>4, <2>2, ShowsChanged, ZenonT(40) DEF V, new
<1> HIDE DEF h, l
<1>10. Len(changed) = Len(held) /\ changed[i] = h /\ \A j \in 1..Len(held) : j # i => changed[j] = held[j]
  BY <1>3, <1>4, ExceptSeq
<1> HIDE DEF changed
<1>11. \A q \in Paths : \A j \in 1..Len(adapter[q]) :
         adapter[q][j].origin = "announced" =>
           /\ Listed(adapter[q][j])
           /\ adapter[q][j].id \in DOMAIN breakpoint_ids'
           /\ breakpoint_ids'[adapter[q][j].id] = <<q, Rank(ListedAt(adapter[q]), j)>>
           /\ breakpoint_ids'[adapter[q][j].id] = breakpoint_ids[adapter[q][j].id]
  BY <1>5 DEF SnapshotInv, AnnouncedKnown
<1>12. ASSUME NEW j \in 1..Len(adapter'[path]), adapter'[path][j].origin = "announced"
       PROVE  /\ Listed(adapter'[path][j])
              /\ adapter'[path][j].id \in DOMAIN breakpoint_ids'
              /\ breakpoint_ids'[adapter'[path][j].id] = <<path, Rank(ListedAt(adapter'[path]), j)>>
  <2>1. CASE j = i
    BY <1>3, <1>4, <1>5, <1>7, <1>9, <1>10, <2>1
  <2>2. CASE j # i
    <3>1. j \in 1..Len(held) /\ adapter'[path][j] = held[j]
      BY <1>7, <1>10, <2>2
    <3>2. Rank(ListedAt(adapter'[path]), j) = Rank(V, j)
      BY <1>7, <1>9
    <3>3. QED
      BY <1>11, <1>12, <3>1, <3>2
  <2>3. QED
    BY <2>1, <2>2
<1>13. Shows(Entries(path)', adapter'[path])
  BY <1>7, <1>8, <1>9
<1>14. ShowsAdapter' /\ AnnouncedKnown'
  BY <1>7, <1>8, <1>11, <1>12, <1>13, OnlyPath
<1>15. QED
  BY <1>5, <1>14

\* What the adapter drops is removed, and the entries after it are shifted.
LEMMA DropShows ==
  ASSUME OwnReportsOnly, SnapshotInv, NEW path \in Paths, NEW i \in 1..Len(adapter[path]),
         Drop(path, i)
  PROVE  ShowsAdapter' /\ AnnouncedKnown'
<1> DEFINE held == adapter[path]
           entries == Entries(path)
           rest == RemoveAt(held, i)
           V == ListedAt(held)
           k == Rank(V, i)
           new == RemoveAt(entries, k)
           id == held[i].id
           Shifted(pos) == IF pos[1] = path /\ pos[2] > k THEN <<pos[1], pos[2] - 1>> ELSE pos
<1>1. TrackerInv /\ TablesOK /\ adapter \in [Paths -> Seq(HeldBps)]
  BY DEF SnapshotInv, TrackerInv, Shapes, TablesOK
<1>2. held[i].origin = "announced"
  BY DEF Drop, OwnReportsOnly
<1>3. /\ held \in Seq(HeldBps) /\ held[i] \in HeldBps /\ Len(held) \in Nat
      /\ entries \in Seq(Bps) /\ Shows(entries, held)
      /\ i \in V /\ k \in 1..Len(entries)
      /\ id \in DOMAIN breakpoint_ids /\ breakpoint_ids[id] = <<path, k>>
  BY <1>2, AnnouncedAt
<1>4. adapter' = [adapter EXCEPT ![path] = rest] /\ ApplyRemoved(id)
  BY DEF Drop
<1>5. adapter'[path] = rest /\ \A q \in Paths : q # path => adapter'[q] = adapter[q]
  BY <1>1, <1>4
<1>6. /\ Stores(path, new)
      /\ breakpoint_ids' = [j \in DOMAIN breakpoint_ids \ {id} |-> Shifted(breakpoint_ids[j])]
  <2> HIDE DEF id, k, entries
  <2>1. breakpoint_ids[id][1] = path /\ breakpoint_ids[id][2] = k /\ k <= Len(entries)
    BY <1>3
  <2>2. QED
    BY <1>3, <1>4, <2>1 DEF ApplyRemoved, Stores, entries
<1>7. /\ Shows(new, rest)
      /\ \A j \in 1..(Len(held) - 1) : Rank(ListedAt(rest), j)
           = IF j < i THEN Rank(V, j) ELSE Rank(V, j+1) - 1
  <2>1. PICK H : H = HeldBps
    OBVIOUS
  <2>2. held \in Seq(H)
    BY <1>3, <2>1
  <2> HIDE DEF held, entries
  <2>3. QED
    BY <1>3, <2>2, ShowsRemoved DEF V
<1>8. /\ Len(rest) = Len(held) - 1
      /\ \A j \in 1..(Len(held) - 1) : rest[j] = IF j < i THEN held[j] ELSE held[j+1]
  <2> HIDE DEF held
  <2>1. QED
    BY <1>3, RemoveAtLemma DEF held
<1>9. Entries(path)' = new /\ \A q \in Paths : q # path => Entries(q)' = Entries(q)
  <2> HIDE DEF entries, k
  <2>1. new \in Seq(Bps)
    BY <1>3, RemoveAtLemma
  <2> HIDE DEF new
  <2>2. QED
    BY <1>1, <1>6, <2>1, StoresLemma
<1>10. /\ \A j \in V : Rank(V, j) \in Nat /\ (j # i => Rank(V, j) # k)
       /\ \A j, l \in V : j < l => Rank(V, j) < Rank(V, l)
       /\ k \in Nat
  <2>1. V \in SUBSET (1..Len(held))
    BY DEF ListedAt
  <2> HIDE DEF held, V
  <2>2. /\ \A j \in V : Rank(V, j) \in 1..Cardinality(V)
        /\ \A j, l \in V : j < l => Rank(V, j) < Rank(V, l)
        /\ \A j, l \in V : Rank(V, j) = Rank(V, l) => j = l
    BY <1>3, <2>1, RankFacts
  <2>3. QED
    BY <1>3, <2>2
<1>11. \A q \in Paths : \A j \in 1..Len(adapter[q]) :
         adapter[q][j].origin = "announced" =>
           /\ Listed(adapter[q][j])
           /\ adapter[q][j].id \in DOMAIN breakpoint_ids
           /\ breakpoint_ids[adapter[q][j].id] = <<q, Rank(ListedAt(adapter[q]), j)>>
  BY DEF SnapshotInv, AnnouncedKnown
<1>12. \A q \in Paths : \A j \in 1..Len(adapter[q]) :
         (q # path /\ adapter[q][j].origin = "announced") =>
           /\ adapter[q][j].id \in DOMAIN breakpoint_ids'
           /\ breakpoint_ids'[adapter[q][j].id] = breakpoint_ids[adapter[q][j].id]
  <2>1. TAKE q \in Paths
  <2>2. TAKE j \in 1..Len(adapter[q])
  <2>3. HAVE q # path /\ adapter[q][j].origin = "announced"
  <2> DEFINE other == adapter[q][j].id
             r == Rank(ListedAt(adapter[q]), j)
  <2>4. other \in DOMAIN breakpoint_ids /\ breakpoint_ids[other] = <<q, r>>
    BY <1>11, <2>3
  <2> HIDE DEF other, r, id, k
  <2>5. other # id
    BY <1>3, <2>3, <2>4
  <2>6. other \in DOMAIN breakpoint_ids' /\ breakpoint_ids'[other] = breakpoint_ids[other]
    BY <1>6, <2>3, <2>4, <2>5
  <2>7. QED
    BY <2>6 DEF other
<1>13. ASSUME NEW j \in 1..Len(adapter'[path]), adapter'[path][j].origin = "announced"
       PROVE  /\ Listed(adapter'[path][j])
              /\ adapter'[path][j].id \in DOMAIN breakpoint_ids'
              /\ breakpoint_ids'[adapter'[path][j].id] = <<path, Rank(ListedAt(adapter'[path]), j)>>
  <2> DEFINE o == IF j < i THEN j ELSE j + 1
             r == Rank(V, o)
             other == held[o].id
  <2>1. /\ j \in 1..(Len(held) - 1) /\ o \in 1..Len(held) /\ o # i /\ (j < i <=> o < i)
        /\ adapter'[path][j] = held[o]
    BY <1>3, <1>5, <1>8
  <2>2. /\ Listed(held[o]) /\ other \in DOMAIN breakpoint_ids /\ breakpoint_ids[other] = <<path, r>>
    BY <1>11, <1>13, <2>1
  <2>3. o \in V
    BY <2>1, <2>2 DEF ListedAt
  <2>4. r \in Nat /\ r # k /\ (j < i => ~(r > k)) /\ (~(j < i) => r > k)
    BY <1>3, <1>10, <2>1, <2>3
  <2>5. Rank(ListedAt(adapter'[path]), j) = IF j < i THEN r ELSE r - 1
    BY <1>5, <1>7, <2>1
  <2> HIDE DEF other, r, id, k, o
  <2>6. other # id
    BY <1>3, <2>2, <2>4
  <2>7. other \in DOMAIN breakpoint_ids' /\ breakpoint_ids'[other] = IF r > k THEN <<path, r-1>> ELSE <<path, r>>
    BY <1>6, <2>2, <2>6
  <2>8. QED
    BY <2>1, <2>2, <2>4, <2>5, <2>7 DEF other
<1>14. Shows(Entries(path)', adapter'[path])
  BY <1>5, <1>7, <1>9
<1>15. QED
  BY <1>5, <1>9, <1>12, <1>13, <1>14, OnlyPath

LEMMA NextShows == OwnReportsOnly /\ SnapshotInv /\ [Next]_vars => SnapshotInv'
<1> SUFFICES ASSUME OwnReportsOnly, SnapshotInv, [Next]_vars
             PROVE  ShowsAdapter' /\ AnnouncedKnown' /\ UnplacedUnknown'
  BY NextTracker DEF SnapshotInv
<1>1. ASSUME UNCHANGED <<source_breakpoints, breakpoint_ids, adapter, unplaced>>
      PROVE  ShowsAdapter' /\ AnnouncedKnown' /\ UnplacedUnknown'
  BY <1>1, QuietShows, UnknownStays
<1>2. CASE UNCHANGED vars
  BY <1>1, <1>2 DEF vars, tracker
<1>3. CASE \E path \in ClientPaths, specs \in Specs : SetBreakpoints(path, specs)
  BY <1>1, <1>3 DEF SetBreakpoints, Ask
<1>4. CASE \E filters \in SUBSET Filters : SetExceptionBreakpoints(filters)
  BY <1>1, <1>4 DEF SetExceptionBreakpoints, Ask
<1>5. CASE \E b \in Asked("setBreakpoints"), success \in Outcomes :
             \E items \in Items(asked[b].specs) : Answer(b, success, items)
  <2>1. ASSUME NEW b \in Asked("setBreakpoints"), NEW success \in BOOLEAN,
               NEW items \in Items(asked[b].specs), Answer(b, success, items)
        PROVE  ShowsAdapter' /\ AnnouncedKnown' /\ UnplacedUnknown'
    <3>1. DOMAIN breakpoint_ids' \subseteq DOMAIN breakpoint_ids
      BY <2>1 DEF Answer, ObserveResponse, Rebuild, Restrict
    <3>2. unplaced' \subseteq unplaced
      BY <2>1 DEF Answer
    <3>3. QED
      BY <2>1, <3>1, <3>2, AnswerShows, UnknownStays
  <2>2. QED
    BY <1>5, <2>1, TrackerAssumption
<1>6. CASE \E b \in Asked("setExceptionBreakpoints"), success \in Outcomes :
             AnswerExceptions(b, success)
  BY <1>1, <1>6 DEF AnswerExceptions, tracker
<1>7. CASE \E source \in Paths \cup {None}, line \in MaybeLine, verified \in BOOLEAN :
             \/ Announce(source, line, verified)
             \/ \E id \in unplaced : ChangeUnplaced(id, source, line, verified)
  BY <1>7, NextTracker, AnnounceShows, ChangeUnplacedShows DEF SnapshotInv
<1>8. CASE \E path \in Paths : \E i \in 1..Len(adapter[path]) :
             \/ \E source \in {path, None}, line \in MaybeLine, verified \in BOOLEAN :
                  Change(path, i, source, line, verified)
             \/ Drop(path, i)
  <2>1. ASSUME NEW path \in Paths, NEW i \in 1..Len(adapter[path]), NEW source \in {path, None},
               NEW line \in MaybeLine, NEW verified \in BOOLEAN,
               Change(path, i, source, line, verified)
        PROVE  ShowsAdapter' /\ AnnouncedKnown' /\ UnplacedUnknown'
    <3>1. ShowsAdapter' /\ AnnouncedKnown' /\ UNCHANGED breakpoint_ids
      BY <2>1, ChangeShows
    <3>2. QED
      BY <2>1, <3>1, UnknownStays DEF Change
  <2>2. ASSUME NEW path \in Paths, NEW i \in 1..Len(adapter[path]), Drop(path, i)
        PROVE  ShowsAdapter' /\ AnnouncedKnown' /\ UnplacedUnknown'
    <3>1. DOMAIN breakpoint_ids' \subseteq DOMAIN breakpoint_ids
      BY <2>2 DEF Drop, ApplyRemoved
    <3>2. unplaced' \subseteq unplaced
      BY <2>2 DEF Drop
    <3>3. QED
      BY <2>2, <3>1, <3>2, DropShows, UnknownStays
  <2>3. QED
    BY <1>8, <2>1, <2>2
<1>9. CASE \E id \in unplaced : DropUnplaced(id)
  BY <1>9, DropUnplacedShows
<1>10. QED
  BY <1>2, <1>3, <1>4, <1>5, <1>6, <1>7, <1>8, <1>9 DEF Next

LEMMA InitShows == Init => SnapshotInv
<1> SUFFICES ASSUME Init PROVE ShowsAdapter /\ AnnouncedKnown /\ UnplacedUnknown
  BY InitTracker DEF SnapshotInv
<1>1. ASSUME NEW path \in Paths
      PROVE  Entries(path) = <<>> /\ adapter[path] = <<>> /\ Len(<<>>) = 0
  BY EmptyMapType, EmptySeq DEF Init, Entries
<1>2. ListedAt(<<>>) = {} /\ Cardinality({}) = 0
  BY EmptySeq, FS_EmptySet DEF ListedAt
<1>3. UnplacedUnknown
  BY DEF Init, UnplacedUnknown
<1>4. ShowsAdapter
  BY <1>1, <1>2 DEF ShowsAdapter, Shows
<1>5. AnnouncedKnown
  BY <1>1 DEF AnnouncedKnown
<1>6. QED
  BY <1>3, <1>4, <1>5

-----------------------------------------------------------------------------
(* Results *)

\* The tracker's tables and the requests it keeps always belong together.
THEOREM Tracker == Spec => []TrackerInv
BY InitTracker, NextTracker, PTL DEF Spec

\* No request, answer or event, in any order, makes the tracker's id map point outside its
\* list or at another breakpoint (apply_removed_breakpoint, rebuild_source_breakpoints).
THEOREM TrackerIsConsistent == Spec => []TrackerConsistent
<1>1. TrackerInv => TrackerConsistent
  <2> SUFFICES ASSUME TrackerInv PROVE TrackerConsistent
    OBVIOUS
  <2>1. /\ DOMAIN source_breakpoints \subseteq Paths
        /\ \A path \in DOMAIN source_breakpoints : source_breakpoints[path] \in Seq(Bps)
        /\ DOMAIN breakpoint_ids \subseteq 1..next_id
        /\ \A id \in DOMAIN breakpoint_ids : breakpoint_ids[id] \in Paths \X (Nat \ {0})
        /\ DOMAIN asked \subseteq 1..backend_seq
        /\ DOMAIN pending_set_breakpoints \subseteq 1..backend_seq
    BY MapsEntries DEF TrackerInv, Shapes
  <2>2. Asked("setBreakpoints") \subseteq DOMAIN pending_set_breakpoints
    BY DEF TrackerInv, PendingAsAsked
  <2>3. TypeOK
    BY <2>1, <2>2 DEF TypeOK, TrackerInv, Shapes, Bps
  <2>4. QED
    BY <2>3 DEF TrackerConsistent, TrackerInv
<1>2. QED
  BY <1>1, Tracker, PTL

\* When the adapter sends events only about breakpoints it announced itself, and names files
\* as its clients do, the entries the tracker shows of a file are, in the adapter's order,
\* the breakpoints it verified in an answer and those it announced, verified or not.
THEOREM Snapshot == ASSUME OwnReportsOnly PROVE Spec => []SnapshotInv
<1>1. SnapshotInv /\ [Next]_vars => SnapshotInv'
  BY NextShows
<1>2. QED
  BY <1>1, InitShows, PTL DEF Spec

\* Under the same two conditions a client that joins late is shown, each as often as the
\* adapter holds it, exactly what the adapter verified in an answer and what it announced
\* with a file and a line, whatever verdict its events carried: apply_new_breakpoint and
\* apply_changed_breakpoint do not look at it (BreakpointTracker).
THEOREM SnapshotIsTrue == ASSUME OwnReportsOnly PROVE Spec => []SnapshotMatchesAdapter
<1>1. SnapshotInv => SnapshotMatchesAdapter
  <2> SUFFICES ASSUME SnapshotInv, NEW path \in Paths, NEW spec \in Bps
               PROVE  ShownTimes(Entries(path), spec) = HeldTimes(adapter[path], spec)
    BY DEF SnapshotMatchesAdapter, Bps, Shown, ShownTimes, HeldTimes
  <2>1. Entries(path) \in Seq(Bps) /\ Shows(Entries(path), adapter[path])
    BY EntriesLemma DEF SnapshotInv, ShowsAdapter, TrackerInv, Shapes, TablesOK
  <2>2. PICK H : H = HeldBps
    OBVIOUS
  <2>3. adapter[path] \in Seq(H)
    BY <2>2 DEF SnapshotInv, TrackerInv, Shapes
  <2>4. QED
    BY <2>1, <2>3, ShowsCounts
<1>2. QED
  BY <1>1, Snapshot, PTL
=============================================================================
