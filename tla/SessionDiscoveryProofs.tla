----------------------- MODULE SessionDiscoveryProofs -----------------------
(***************************************************************************)
(* Proofs about the directory of session records, for any number of        *)
(* proxies, readers and ports: a served session keeps its record, a        *)
(* listing finds it and nothing that was gone, a starting proxy prunes     *)
(* what was stale, and an orderly exit leaves nothing.                     *)
(***************************************************************************)
EXTENDS SessionDiscovery, TLAPS

-----------------------------------------------------------------------------
(* The inductive invariant *)

\* The file a listing has read and not decided on.
Current(a) == IF list[a].at \in {"whole", "pid alive"} THEN {list[a].on} ELSE {}

\* How far a proxy is tells which files it has; the guard is armed from "armed" on.
FilesFollowPhase ==
  /\ \A p \in tmp : phase[p] \in {"written", "signalled", "killed"}
  /\ \A p \in DOMAIN files :
       phase[p] \in {"saved", "armed", "running", "stopping", "signalled", "killed"}
  /\ \A p \in Proxies : phase[p] \in {"armed", "running", "stopping"} => p \in armed
  /\ Served \subseteq DOMAIN files

\* What a listing knows of the sessions that were gone or served when it began: the first
\* are still gone and not on its way into the result, the second have not started anew
\* and are found, being probed, or ahead.
ListingKnows(a) ==
  /\ list[a].gone \subseteq Gone
  /\ \A p \in list[a].due :
       phase[p] \notin {"off", "started", "bound", "pruning", "pruned", "written"}
  /\ list[a].at \in {"whole", "pid alive"} => list[a].on \in Proxies
  /\ list[a].at = "pid alive" => list[a].on \notin list[a].gone
  /\ list[a].listed \cap list[a].gone = {}
  /\ list[a].due \cap Served \subseteq list[a].listed \cup list[a].todo \cup Current(a)

\* A proxy that prunes still has the stale files ahead of it.
PruningKnows(p) ==
  phase[p] = "pruning" => list[p].gone \cap DOMAIN files \subseteq list[p].todo \cup Current(p)

DiscoveryInv ==
  /\ TypeOK
  /\ FilesFollowPhase
  /\ \A a \in Actors : ListingKnows(a)
  /\ \A p \in Proxies : PruningKnows(p)

LEMMA InitDiscovery == Init => DiscoveryInv
<1> SUFFICES ASSUME Init PROVE DiscoveryInv
  OBVIOUS
<1>1. files \in [DOMAIN files -> {"whole"}] /\ DOMAIN files = {}
  BY DEF Init
<1>2. \A a \in Actors : list[a] = NotListing
  BY DEF Init
<1>3. TypeOK
  <2>1. NotListing \in Progress
    BY DEF NotListing, Progress
  <2>2. list \in [Actors -> Progress]
    BY <2>1 DEF Init
  <2>3. phase \in [Proxies -> Phases]
    BY DEF Init, Phases, Ended
  <2>4. port \in [Proxies -> Ports \cup {None}] /\ armed = {} /\ tmp = {}
    BY DEF Init
  <2>5. armed \subseteq Proxies /\ tmp \subseteq Proxies /\ DOMAIN files \subseteq Proxies
    BY <1>1, <2>4
  <2>6. QED
    BY <1>1, <2>2, <2>3, <2>4, <2>5, Zenon DEF TypeOK
<1>4. FilesFollowPhase
  BY <1>1 DEF Init, FilesFollowPhase, Served
<1>5. ASSUME NEW a \in Actors PROVE ListingKnows(a)
  <2>1. list[a].at = "idle" /\ list[a].listed = {} /\ list[a].gone = {} /\ list[a].due = {}
    BY <1>2 DEF NotListing
  <2>2. QED
    BY <2>1 DEF ListingKnows
<1>6. \A p \in Proxies : PruningKnows(p)
  BY DEF Init, PruningKnows
<1>7. QED
  BY <1>3, <1>4, <1>5, <1>6 DEF DiscoveryInv

-----------------------------------------------------------------------------
(* Steps that only move a proxy along *)

\* A proxy that goes on, with the lists and the directory unchanged, keeps the invariant
\* unless the new phase is one of those that promise something of the files.
LEMMA GoesOn ==
  ASSUME DiscoveryInv, NEW p \in Proxies, NEW from, NEW to \in Phases \ {"off", "pruning"},
         Goes(p, from, to), UNCHANGED <<tmp, files, list>>,
         port' \in [Proxies -> Ports \cup {None}], armed' \subseteq Proxies, armed \subseteq armed',
         from \notin Ended \ {"off"},
         p \notin tmp, p \in DOMAIN files => to \in {"saved", "armed", "running", "stopping"},
         to \in {"saved", "armed", "running", "stopping"} => p \in Served,
         to \in {"armed", "running", "stopping"} => p \in armed',
         to \in {"started", "bound", "pruned", "written"} =>
            from \in {"off", "started", "bound", "pruning", "pruned"}
  PROVE  DiscoveryInv'
<1> USE DEF DiscoveryInv
<1>1. phase \in [Proxies -> Phases] /\ phase' \in [Proxies -> Phases]
      /\ phase[p] = from /\ phase'[p] = to
      /\ \A q \in Proxies : q # p => phase'[q] = phase[q]
  BY DEF TypeOK, Goes
<1>2. TypeOK'
  BY <1>1 DEF TypeOK
<1>3. Served' \subseteq Served
  BY <1>1 DEF Served
<1>4. Gone \subseteq Gone'
  BY <1>1 DEF Gone
<1>5. FilesFollowPhase'
  BY <1>1, <1>3 DEF FilesFollowPhase, TypeOK
<1>6. ASSUME NEW a \in Actors PROVE ListingKnows(a)'
  BY <1>1, <1>3, <1>4, ZenonT(40) DEF ListingKnows, Current, TypeOK, Progress
<1>7. ASSUME NEW q \in Proxies PROVE PruningKnows(q)'
  BY <1>1 DEF PruningKnows, Current
<1>8. QED
  BY <1>2, <1>5, <1>6, <1>7

LEMMA StartKeeps == ASSUME DiscoveryInv, NEW p \in Proxies, Start(p) PROVE DiscoveryInv'
BY GoesOn DEF Start, DiscoveryInv, FilesFollowPhase, TypeOK, Phases, Ended, Goes

LEMMA BindKeeps == ASSUME DiscoveryInv, NEW p \in Proxies, NEW n \in Ports, Bind(p, n) PROVE DiscoveryInv'
<1>1. CASE Goes(p, "started", "failed") /\ UNCHANGED port
  BY <1>1, GoesOn DEF Bind, DiscoveryInv, FilesFollowPhase, TypeOK, Phases, Ended, Goes
<1>2. CASE Goes(p, "started", "bound") /\ port' = [port EXCEPT ![p] = n]
  BY <1>2, GoesOn DEF Bind, DiscoveryInv, FilesFollowPhase, TypeOK, Phases, Ended, Goes
<1>3. QED
  BY <1>1, <1>2 DEF Bind

LEMMA ArmKeeps == ASSUME DiscoveryInv, NEW p \in Proxies, Arm(p) PROVE DiscoveryInv'
BY GoesOn DEF Arm, DiscoveryInv, FilesFollowPhase, TypeOK, Phases, Ended, Goes, Served

LEMMA RunKeeps == ASSUME DiscoveryInv, NEW p \in Proxies, Run(p) PROVE DiscoveryInv'
BY GoesOn DEF Run, DiscoveryInv, FilesFollowPhase, TypeOK, Phases, Ended, Goes, Served

LEMMA StopKeeps == ASSUME DiscoveryInv, NEW p \in Proxies, Stop(p) PROVE DiscoveryInv'
BY GoesOn DEF Stop, DiscoveryInv, FilesFollowPhase, TypeOK, Phases, Ended, Goes, Served

LEMMA ExitKeeps == ASSUME DiscoveryInv, NEW p \in Proxies, Exit(p) PROVE DiscoveryInv'
BY GoesOn DEF Exit, DiscoveryInv, FilesFollowPhase, TypeOK, Phases, Ended, Goes

-----------------------------------------------------------------------------
(* A proxy prunes, writes its record and removes it *)

LEMMA PruneKeeps == ASSUME DiscoveryInv, NEW p \in Proxies, Prune(p) PROVE DiscoveryInv'
<1> USE DEF DiscoveryInv
<1>1. /\ phase[p] = "bound" /\ phase' = [phase EXCEPT ![p] = "pruning"]
      /\ phase \in [Proxies -> Phases] /\ list' = [list EXCEPT ![p] = Begin(DOMAIN files)]
      /\ UNCHANGED <<port, armed, tmp, files>>
  BY DEF Prune, Goes, TypeOK
<1>2. p \in Actors
  BY DEF Actors
<1>3. Gone' = Gone /\ Served' = Served
  BY <1>1 DEF Gone, Served, Ended
<1>4. /\ list'[p] = Begin(DOMAIN files)
      /\ \A b \in Actors : b # p => list'[b] = list[b]
  BY <1>1, <1>2 DEF TypeOK
<1>5. TypeOK'
  <2>1. phase' \in [Proxies -> Phases]
    BY <1>1 DEF Phases
  <2>2. Begin(DOMAIN files) \in Progress
    BY DEF Begin, TypeOK, Gone, Served, Progress
  <2>3. list' \in [Actors -> Progress]
    BY <1>1, <1>2, <2>2 DEF TypeOK
  <2>4. QED
    BY <1>1, <2>1, <2>3 DEF TypeOK
<1>6. FilesFollowPhase'
  BY <1>1, <1>3 DEF FilesFollowPhase, TypeOK
<1>7. ASSUME NEW a \in Actors PROVE ListingKnows(a)'
  <2>1. CASE a = p
    <3>1. /\ list'[p].gone = Gone /\ list'[p].due = Served \cap DOMAIN files
          /\ list'[p].todo = DOMAIN files /\ list'[p].listed = {} /\ list'[p].at = "next"
      BY <1>4 DEF Begin
    <3>2. \A q \in Served : phase'[q] = phase[q]
      BY <1>1 DEF Served
    <3>3. QED
      BY <1>3, <2>1, <3>1, <3>2 DEF ListingKnows, Served
  <2>2. CASE a # p
    BY <1>1, <1>3, <1>4, <2>2 DEF ListingKnows, Current, TypeOK, Progress
  <2>3. QED
    BY <2>1, <2>2
<1>8. ASSUME NEW q \in Proxies PROVE PruningKnows(q)'
  <2>1. CASE q = p
    BY <1>1, <1>4, <2>1 DEF PruningKnows, Begin
  <2>2. CASE q # p
    BY <1>1, <1>4, <2>2 DEF PruningKnows, Current, Actors
  <2>3. QED
    BY <2>1, <2>2
<1>9. QED
  BY <1>5, <1>6, <1>7, <1>8

LEMMA WriteTmpKeeps == ASSUME DiscoveryInv, NEW p \in Proxies, WriteTmp(p) PROVE DiscoveryInv'
<1> USE DEF DiscoveryInv
<1>1. /\ phase[p] = "pruned" /\ phase' = [phase EXCEPT ![p] = "written"]
      /\ phase \in [Proxies -> Phases] /\ tmp' = tmp \cup {p}
      /\ UNCHANGED <<port, armed, files, list>>
  BY DEF WriteTmp, Goes, TypeOK
<1>2. Gone' = Gone /\ Served' = Served
  BY <1>1 DEF Gone, Served, Ended
<1>3. TypeOK'
  BY <1>1 DEF TypeOK, Phases
<1>4. FilesFollowPhase'
  BY <1>1, <1>2 DEF FilesFollowPhase, TypeOK
<1>5. ASSUME NEW a \in Actors PROVE ListingKnows(a)'
  BY <1>1, <1>2 DEF ListingKnows, Current, TypeOK, Progress
<1>6. ASSUME NEW q \in Proxies PROVE PruningKnows(q)'
  BY <1>1 DEF PruningKnows, Current
<1>7. QED
  BY <1>3, <1>4, <1>5, <1>6

\* The new record is of a session no listing knew as gone or was due to find.
LEMMA RenameKeeps == ASSUME DiscoveryInv, NEW p \in Proxies, Rename(p) PROVE DiscoveryInv'
<1> USE DEF DiscoveryInv
<1>1. /\ phase[p] = "written" /\ phase' = [phase EXCEPT ![p] = "saved"]
      /\ phase \in [Proxies -> Phases] /\ tmp' = tmp \ {p}
      /\ files' = [q \in DOMAIN files \cup {p} |-> IF q = p THEN "whole" ELSE files[q]]
      /\ UNCHANGED <<port, armed, list>>
  BY DEF Rename, Goes, TypeOK
<1>2. Gone' = Gone /\ Served' = Served \cup {p} /\ p \notin Gone
  BY <1>1 DEF Gone, Served, Ended
<1>3. DOMAIN files' = DOMAIN files \cup {p} /\ files' \in [DOMAIN files' -> {"whole"}]
  BY <1>1 DEF TypeOK
<1>4. TypeOK'
  BY <1>1, <1>3 DEF TypeOK, Phases
<1>5. FilesFollowPhase'
  BY <1>1, <1>2, <1>3 DEF FilesFollowPhase, TypeOK
<1>6. ASSUME NEW a \in Actors PROVE ListingKnows(a)'
  BY <1>1, <1>2 DEF ListingKnows, Current, TypeOK, Progress
<1>7. ASSUME NEW q \in Proxies PROVE PruningKnows(q)'
  <2>1. p \notin list[q].gone
    BY <1>2 DEF Actors, ListingKnows
  <2>2. QED
    BY <1>1, <1>3, <2>1 DEF PruningKnows, Current
<1>8. QED
  BY <1>4, <1>5, <1>6, <1>7

LEMMA DropGuardKeeps == ASSUME DiscoveryInv, NEW p \in Proxies, DropGuard(p) PROVE DiscoveryInv'
<1> USE DEF DiscoveryInv
<1>1. /\ phase[p] = "stopping" /\ phase' = [phase EXCEPT ![p] = "deleted"]
      /\ phase \in [Proxies -> Phases] /\ p \in armed
      /\ files' = [q \in DOMAIN files \ {p} |-> files[q]]
      /\ UNCHANGED <<port, armed, tmp, list>>
  BY DEF DropGuard, Goes, RemoveFile, TypeOK, FilesFollowPhase
<1>2. Gone' = Gone /\ Served' = Served \ {p}
  BY <1>1 DEF Gone, Served, Ended
<1>3. DOMAIN files' = DOMAIN files \ {p} /\ files' \in [DOMAIN files' -> {"whole"}]
  BY <1>1 DEF TypeOK
<1>4. TypeOK'
  BY <1>1, <1>3 DEF TypeOK, Phases
<1>5. FilesFollowPhase'
  BY <1>1, <1>2, <1>3 DEF FilesFollowPhase, TypeOK
<1>6. ASSUME NEW a \in Actors PROVE ListingKnows(a)'
  BY <1>1, <1>2 DEF ListingKnows, Current, TypeOK, Progress
<1>7. ASSUME NEW q \in Proxies PROVE PruningKnows(q)'
  BY <1>1, <1>3 DEF PruningKnows, Current
<1>8. QED
  BY <1>4, <1>5, <1>6, <1>7

\* A process that dies leaves its files as they are.
LEMMA DiesKeeps ==
  ASSUME DiscoveryInv, NEW p \in Proxies, NEW how \in {"signalled", "killed"}, Alive(p), Dies(p, how)
  PROVE  DiscoveryInv'
<1> USE DEF DiscoveryInv
<1>1. /\ phase[p] \notin Ended /\ phase' = [phase EXCEPT ![p] = how]
      /\ phase \in [Proxies -> Phases] /\ list' = [list EXCEPT ![p] = NotListing]
      /\ UNCHANGED <<port, armed, tmp, files>>
  BY DEF Dies, Alive, TypeOK
<1>2. Gone \subseteq Gone' /\ Served' = Served \ {p}
  BY <1>1 DEF Gone, Served, Ended
<1>3. p \in Actors
  BY DEF Actors
<1>4. list'[p] = NotListing /\ \A b \in Actors : b # p => list'[b] = list[b]
  BY <1>1, <1>3 DEF TypeOK
<1>5. TypeOK'
  <2>1. NotListing \in Progress
    BY DEF NotListing, Progress
  <2>2. list' \in [Actors -> Progress]
    BY <1>1, <2>1 DEF TypeOK
  <2>3. phase' \in [Proxies -> Phases]
    BY <1>1 DEF Phases, Ended
  <2>4. QED
    BY <1>1, <2>2, <2>3 DEF TypeOK
<1>6. FilesFollowPhase'
  BY <1>1, <1>2 DEF FilesFollowPhase, TypeOK, Ended
<1>7. ASSUME NEW a \in Actors PROVE ListingKnows(a)'
  <2>1. CASE a = p
    <3>1. /\ list'[a].at = "idle" /\ list'[a].listed = {}
          /\ list'[a].gone = {} /\ list'[a].due = {}
      BY <1>4, <2>1 DEF NotListing
    <3>2. QED
      BY <3>1 DEF ListingKnows
  <2>2. CASE a # p
    BY <1>1, <1>2, <1>4, <2>2 DEF ListingKnows, Current, TypeOK, Progress
  <2>3. QED
    BY <2>1, <2>2
<1>8. ASSUME NEW q \in Proxies PROVE PruningKnows(q)'
  BY <1>1, <1>4 DEF PruningKnows, Current, Actors
<1>9. QED
  BY <1>5, <1>6, <1>7, <1>8

-----------------------------------------------------------------------------
(* The steps of a listing *)

\* A step of one listing, which may remove files of sessions that are not served, keeps
\* the invariant if that listing still knows what it should.
LEMMA ListingStep ==
  ASSUME DiscoveryInv, NEW a \in Actors, UNCHANGED <<phase, port, armed, tmp>>,
         list' \in [Actors -> Progress], \A b \in Actors : b # a => list'[b] = list[b],
         files' \in [DOMAIN files' -> {"whole"}], DOMAIN files' \subseteq DOMAIN files,
         Served \subseteq DOMAIN files',
         ListingKnows(a)', a \in Proxies => PruningKnows(a)'
  PROVE  DiscoveryInv'
<1> USE DEF DiscoveryInv
<1>1. Gone' = Gone /\ Served' = Served
  BY DEF Gone, Served
<1>2. TypeOK'
  BY DEF TypeOK
<1>3. FilesFollowPhase'
  BY <1>1 DEF FilesFollowPhase
<1>4. ASSUME NEW b \in Actors, b # a PROVE ListingKnows(b)'
  BY <1>1, <1>4 DEF ListingKnows, Current
<1>5. ASSUME NEW q \in Proxies, q # a PROVE PruningKnows(q)'
  BY <1>5 DEF PruningKnows, Current, Actors
<1>6. QED
  BY <1>2, <1>3, <1>4, <1>5

LEMMA BeginKeeps ==
  ASSUME DiscoveryInv, NEW r \in Readers, NEW todo \in SUBSET Proxies,
         list' = [list EXCEPT ![r] = Begin(todo)], UNCHANGED <<phase, port, armed, tmp, files>>
  PROVE  DiscoveryInv'
<1> USE DEF DiscoveryInv
<1>1. r \in Actors /\ r \notin Proxies
  BY DiscoveryAssumption DEF Actors
<1>2. Begin(todo) \in Progress
  BY DEF Begin, Gone, Served, Progress
<1>3. list' \in [Actors -> Progress]
  BY <1>2 DEF TypeOK
<1>4. list'[r] = Begin(todo) /\ \A b \in Actors : b # r => list'[b] = list[b]
  BY <1>1 DEF TypeOK
<1>5. /\ list'[r].gone = Gone /\ list'[r].due = Served \cap todo
      /\ list'[r].todo = todo /\ list'[r].listed = {} /\ list'[r].at = "next"
  BY <1>4 DEF Begin
<1>6. Gone' = Gone /\ Served' = Served
  BY DEF Gone, Served
<1>7. ListingKnows(r)'
  BY <1>5, <1>6 DEF ListingKnows, Served
<1>8. QED
  BY <1>1, <1>3, <1>4, <1>7, ListingStep DEF TypeOK, FilesFollowPhase

\* A listing that ends returns its result and is forgotten.
LEMMA FinishKeeps == ASSUME DiscoveryInv, NEW r \in Readers, Finish(r) PROVE DiscoveryInv'
<1> USE DEF DiscoveryInv
<1>1. r \in Actors /\ r \notin Proxies
  BY DiscoveryAssumption DEF Actors
<1>2. NotListing \in Progress
  BY DEF NotListing, Progress
<1>3. list' \in [Actors -> Progress]
  BY <1>2 DEF TypeOK, Finish
<1>4. list'[r] = NotListing /\ \A b \in Actors : b # r => list'[b] = list[b]
  BY <1>1 DEF TypeOK, Finish
<1>5. /\ list'[r].at = "idle" /\ list'[r].listed = {}
      /\ list'[r].gone = {} /\ list'[r].due = {}
  BY <1>4 DEF NotListing
<1>6. ListingKnows(r)'
  BY <1>5 DEF ListingKnows
<1>7. QED
  BY <1>1, <1>3, <1>4, <1>6, ListingStep DEF TypeOK, FilesFollowPhase, Finish

LEMMA PrunedKeeps == ASSUME DiscoveryInv, NEW p \in Proxies, Pruned(p) PROVE DiscoveryInv'
<1> USE DEF DiscoveryInv
<1>1. /\ phase[p] = "pruning" /\ phase' = [phase EXCEPT ![p] = "pruned"]
      /\ phase \in [Proxies -> Phases] /\ list' = [list EXCEPT ![p] = NotListing]
      /\ UNCHANGED <<port, armed, tmp, files>>
  BY DEF Pruned, Goes, TypeOK
<1>2. Gone' = Gone /\ Served' = Served
  BY <1>1 DEF Gone, Served, Ended
<1>3. p \in Actors
  BY DEF Actors
<1>4. list'[p] = NotListing /\ \A b \in Actors : b # p => list'[b] = list[b]
  BY <1>1, <1>3 DEF TypeOK
<1>5. TypeOK'
  <2>1. NotListing \in Progress
    BY DEF NotListing, Progress
  <2>2. list' \in [Actors -> Progress]
    BY <1>1, <2>1 DEF TypeOK
  <2>3. phase' \in [Proxies -> Phases]
    BY <1>1 DEF Phases
  <2>4. QED
    BY <1>1, <2>2, <2>3 DEF TypeOK
<1>6. FilesFollowPhase'
  BY <1>1, <1>2 DEF FilesFollowPhase, TypeOK
<1>7. ASSUME NEW a \in Actors PROVE ListingKnows(a)'
  <2>1. CASE a = p
    <3>1. /\ list'[a].at = "idle" /\ list'[a].listed = {}
          /\ list'[a].gone = {} /\ list'[a].due = {}
      BY <1>4, <2>1 DEF NotListing
    <3>2. QED
      BY <3>1 DEF ListingKnows
  <2>2. CASE a # p
    BY <1>1, <1>2, <1>4, <2>2 DEF ListingKnows, Current, TypeOK, Progress
  <2>3. QED
    BY <2>1, <2>2
<1>8. ASSUME NEW q \in Proxies PROVE PruningKnows(q)'
  BY <1>1, <1>4 DEF PruningKnows, Current, Actors
<1>9. QED
  BY <1>5, <1>6, <1>7, <1>8

\* The file is read, or has disappeared: then it is not the file of a served session.
LEMMA ReadKeeps ==
  ASSUME DiscoveryInv, NEW a \in Actors, NEW p \in list[a].todo, Read(a, p)
  PROVE  DiscoveryInv'
<1> USE DEF DiscoveryInv
<1>1. list[a] \in Progress /\ list[a].at = "next" /\ p \in Proxies
      /\ UNCHANGED <<phase, port, armed, tmp, files>>
  BY DEF TypeOK, Progress, Read
<1> DEFINE found == p \in DOMAIN files
<1>2. /\ list[a].todo \ {p} \in SUBSET Proxies
      /\ (IF found THEN files[p] ELSE "next") = (IF found THEN "whole" ELSE "next")
  BY <1>1 DEF Progress, TypeOK
<1>3. list' \in [Actors -> Progress]
  BY <1>1, <1>2 DEF TypeOK, Progress, Read
<1>4. /\ list'[a].at = IF found THEN "whole" ELSE "next"
      /\ list'[a].on = p /\ list'[a].todo = list[a].todo \ {p}
      /\ list'[a].listed = list[a].listed /\ list'[a].gone = list[a].gone
      /\ list'[a].due = list[a].due
  BY <1>1, <1>2 DEF TypeOK, Progress, Read
<1>5. \A b \in Actors : b # a => list'[b] = list[b]
  BY DEF TypeOK, Read
<1>6. Gone' = Gone /\ Served' = Served /\ Current(a) = {}
  BY <1>1 DEF Gone, Served, Current
<1>7. Current(a)' = IF found THEN {p} ELSE {}
  BY <1>4 DEF Current
<1>8. ListingKnows(a)'
  BY <1>1, <1>4, <1>6, <1>7 DEF ListingKnows, FilesFollowPhase
<1>9. a \in Proxies => PruningKnows(a)'
  BY <1>1, <1>4, <1>6, <1>7 DEF PruningKnows
<1>10. QED
  BY <1>1, <1>3, <1>5, <1>8, <1>9, ListingStep DEF TypeOK, FilesFollowPhase

LEMMA ProbePidKeeps ==
  ASSUME DiscoveryInv, NEW a \in Actors, NEW p \in Proxies, ProbePid(a, p)
  PROVE  DiscoveryInv'
<1> USE DEF DiscoveryInv
<1>1. /\ list[a] \in Progress /\ list[a].at = "whole" /\ list[a].on = p /\ phase[p] \notin Ended
      /\ UNCHANGED <<phase, port, armed, tmp, files>>
  BY DEF TypeOK, ProbePid, PidAlive, Alive
<1>2. list' \in [Actors -> Progress] /\ \A b \in Actors : b # a => list'[b] = list[b]
  BY <1>1 DEF TypeOK, Progress, ProbePid
<1>3. /\ list'[a].at = "pid alive" /\ list'[a].on = p /\ list'[a].todo = list[a].todo
      /\ list'[a].listed = list[a].listed /\ list'[a].gone = list[a].gone
      /\ list'[a].due = list[a].due
  BY <1>1 DEF TypeOK, Progress, ProbePid
<1>4. Gone' = Gone /\ Served' = Served /\ p \notin Gone
  BY <1>1 DEF Gone, Served
<1>5. Current(a) = {p} /\ Current(a)' = {p}
  BY <1>1, <1>3 DEF Current
<1>6. ListingKnows(a)'
  BY <1>1, <1>3, <1>4, <1>5 DEF ListingKnows
<1>7. a \in Proxies => PruningKnows(a)'
  BY <1>1, <1>3, <1>4, <1>5 DEF PruningKnows
<1>8. QED
  BY <1>1, <1>2, <1>6, <1>7, ListingStep DEF TypeOK, FilesFollowPhase

\* The port answers: the session was not gone when the listing began, since its process
\* was alive when the pid was looked at.
LEMMA ProbePortKeeps ==
  ASSUME DiscoveryInv, NEW a \in Actors, NEW p \in Proxies, ProbePort(a, p)
  PROVE  DiscoveryInv'
<1> USE DEF DiscoveryInv
<1>1. /\ list[a] \in Progress /\ list[a].at = "pid alive" /\ list[a].on = p
      /\ UNCHANGED <<phase, port, armed, tmp, files>>
  BY DEF TypeOK, ProbePort
<1>2. list' \in [Actors -> Progress] /\ \A b \in Actors : b # a => list'[b] = list[b]
  BY <1>1 DEF TypeOK, Progress, ProbePort
<1>3. /\ list'[a].at = "next" /\ list'[a].todo = list[a].todo
      /\ list'[a].listed = list[a].listed \cup {p} /\ list'[a].gone = list[a].gone
      /\ list'[a].due = list[a].due
  BY <1>1 DEF TypeOK, Progress, ProbePort
<1>4. Gone' = Gone /\ Served' = Served /\ p \notin list[a].gone
  BY <1>1 DEF Gone, Served, ListingKnows
<1>5. Current(a) = {p} /\ Current(a)' = {}
  BY <1>1, <1>3 DEF Current
<1>6. ListingKnows(a)'
  BY <1>1, <1>3, <1>4, <1>5 DEF ListingKnows
<1>7. a \in Proxies => PruningKnows(a)'
  BY <1>1, <1>3, <1>4, <1>5 DEF PruningKnows
<1>8. QED
  BY <1>1, <1>2, <1>6, <1>7, ListingStep DEF TypeOK, FilesFollowPhase

\* A record that is removed is not of a served session: that one is alive, and its own
\* listener is what answers at its port.
LEMMA RemoveStaleKeeps ==
  ASSUME DiscoveryInv, NEW a \in Actors, NEW p \in Proxies, RemoveStale(a, p)
  PROVE  DiscoveryInv'
<1> USE DEF DiscoveryInv
<1>1. /\ list[a] \in Progress /\ list[a].at \in {"whole", "pid alive"} /\ list[a].on = p
      /\ UNCHANGED <<phase, port, armed, tmp>>
      /\ files' = [q \in DOMAIN files \ {p} |-> files[q]]
  BY DEF TypeOK, Progress, RemoveStale, RemoveFile
<1>2. p \notin Served
  <2>1. phase[p] \in Ended \/ ~Open(port[p])
    BY <1>1 DEF RemoveStale, PidAlive, Alive
  <2>2. phase[p] \in Ended
    BY <2>1 DEF Open, Alive
  <2>3. QED
    BY <2>2 DEF Served, Ended
<1>3. list' \in [Actors -> Progress] /\ \A b \in Actors : b # a => list'[b] = list[b]
  BY <1>1 DEF TypeOK, Progress, RemoveStale
<1>4. /\ list'[a].at = "next" /\ list'[a].todo = list[a].todo
      /\ list'[a].listed = list[a].listed /\ list'[a].gone = list[a].gone
      /\ list'[a].due = list[a].due
  BY <1>1 DEF TypeOK, Progress, RemoveStale
<1>5. Gone' = Gone /\ Served' = Served
  BY <1>1 DEF Gone, Served
<1>6. Current(a) = {p} /\ Current(a)' = {}
  BY <1>1, <1>4 DEF Current
<1>7. ListingKnows(a)'
  BY <1>1, <1>2, <1>4, <1>5, <1>6 DEF ListingKnows
<1>8. DOMAIN files' = DOMAIN files \ {p} /\ files' \in [DOMAIN files' -> {"whole"}]
  BY <1>1 DEF TypeOK
<1>9. a \in Proxies => PruningKnows(a)'
  BY <1>1, <1>4, <1>5, <1>6, <1>8 DEF PruningKnows
<1>10. QED
  BY <1>1, <1>2, <1>3, <1>7, <1>8, <1>9, ListingStep DEF FilesFollowPhase

LEMMA NextDiscovery == ASSUME DiscoveryInv, [Next]_vars PROVE DiscoveryInv'
<1>1. ASSUME NEW p \in Proxies,
             \/ Start(p) \/ Prune(p) \/ Pruned(p) \/ WriteTmp(p) \/ Rename(p) \/ Arm(p) \/ Run(p)
             \/ Stop(p) \/ DropGuard(p) \/ Exit(p) \/ \E n \in Ports : Bind(p, n)
      PROVE  DiscoveryInv'
  BY <1>1, StartKeeps, PruneKeeps, PrunedKeeps, WriteTmpKeeps, RenameKeeps, ArmKeeps, RunKeeps,
     StopKeeps, DropGuardKeeps, ExitKeeps, BindKeeps
<1>2. ASSUME NEW p \in Proxies, Signal(p) \/ Kill(p) PROVE DiscoveryInv'
  BY <1>2, DiesKeeps DEF Signal, Kill, Alive, Ended
<1>3. ASSUME NEW r \in Readers, ListActive(r) \/ Finish(r) \/ \E p \in Proxies : Get(r, p)
      PROVE  DiscoveryInv'
  <2>1. CASE ListActive(r)
    BY <2>1, BeginKeeps DEF ListActive, DiscoveryInv, TypeOK
  <2>2. CASE Finish(r)
    BY <2>2, FinishKeeps
  <2>3. ASSUME NEW p \in Proxies, Get(r, p) PROVE DiscoveryInv'
    BY <2>3, BeginKeeps DEF Get
  <2>4. QED
    BY <1>3, <2>1, <2>2, <2>3
<1>4. ASSUME NEW a \in Actors,
             \/ \E p \in list[a].todo : Read(a, p)
             \/ \E p \in Proxies : ProbePid(a, p) \/ ProbePort(a, p) \/ RemoveStale(a, p)
      PROVE  DiscoveryInv'
  BY <1>4, ReadKeeps, ProbePidKeeps, ProbePortKeeps, RemoveStaleKeeps
<1>5. CASE UNCHANGED vars
  BY <1>5 DEF vars, DiscoveryInv, TypeOK, FilesFollowPhase, ListingKnows, PruningKnows, Current,
     Served, Gone
<1>6. QED
  BY <1>1, <1>2, <1>3, <1>4, <1>5 DEF Next

-----------------------------------------------------------------------------
(* The theorems *)

\* In every behaviour the directory follows the proxies' phases and every listing knows
\* what it should (store.rs, SessionCleanupGuard).
THEOREM Discovery == Spec => []DiscoveryInv
<1>1. Init => DiscoveryInv
  BY InitDiscovery
<1>2. DiscoveryInv /\ [Next]_vars => DiscoveryInv'
  BY NextDiscovery
<1>3. QED
  BY <1>1, <1>2, PTL DEF Spec

\* The directory holds whole records only, one of every session that is served, and none
\* of a proxy that has left in order (InstanceStore::save, SessionCleanupGuard).
THEOREM StoreIsConsistent == Spec => []StoreConsistent
<1>1. DiscoveryInv => StoreConsistent
  BY DEF DiscoveryInv, FilesFollowPhase, StoreConsistent, ServedSessionIsListed,
         OrderlyExitLeavesNoRecord
<1>2. QED
  BY <1>1, Discovery, PTL

\* No listing of any process, however long ago it read the directory or the record,
\* removes the record of a session that is being served (is_alive before remove_file).
THEOREM ServedIsListed == Spec => []ServedSessionIsListed
<1>1. DiscoveryInv => ServedSessionIsListed
  BY DEF DiscoveryInv, FilesFollowPhase, ServedSessionIsListed
<1>2. QED
  BY <1>1, Discovery, PTL

\* No listing returns a session that was gone when the listing began, although its port
\* may have been taken over (SessionRecord::is_alive).
THEOREM GoneIsNotListed == Spec => []NoGoneSessionListed
<1>1. DiscoveryInv => NoGoneSessionListed
  BY DEF DiscoveryInv, ListingKnows, NoGoneSessionListed
<1>2. QED
  BY <1>1, Discovery, PTL

\* The listing a proxy makes as it starts prunes every stale record, whoever else prunes
\* (SessionCleanupGuard::new, list_active).
THEOREM StartPrunes == Spec => []PrunedOnStart
<1>1. DiscoveryInv => PrunedOnStart
  BY DEF DiscoveryInv, PruningKnows, Current, PrunedOnStart
<1>2. QED
  BY <1>1, Discovery, PTL

\* A listing returns every session that was served throughout it, and a client given no
\* port never attaches to another one (list_active, resolve_control_port).
THEOREM ServedIsFound == Spec => []ClientFindsServedSession
<1>1. ASSUME NEW listed, NEW p \in listed PROVE Resolve(listed) \in {p, None}
  BY DEF Resolve
<1>2. DiscoveryInv => ClientFindsServedSession
  <2>1. SUFFICES ASSUME DiscoveryInv, NEW a \in Actors, list[a].at = "next", list[a].todo = {},
                        NEW p \in list[a].due \cap Served
                 PROVE  p \in list[a].listed /\ Resolve(list[a].listed) \in {p, None}
    BY DEF ClientFindsServedSession
  <2>2. p \in list[a].listed
    BY <2>1 DEF DiscoveryInv, ListingKnows, Current
  <2>3. QED
    BY <1>1, <2>2
<1>3. QED
  BY <1>2, Discovery, PTL
=============================================================================
