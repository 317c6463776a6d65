------------------------- MODULE ChildSessionsProofs -------------------------
(***************************************************************************)
(* Proofs about the tree of child sessions, for every depth, every number  *)
(* of children and any order of spawns, deaths and time-outs: it stays     *)
(* within both of its limits.  Then about what a session is started with:  *)
(* the plugin a launch goes to, for any plugins loaded over each other,    *)
(* and the limits and endpoints that command lines hand down.              *)
(***************************************************************************)
EXTENDS ChildSessions, ChildLaunch, CollectionLemmas

Stages == {"none", "forked", "armed", "serving", "stopping", "torn", "gone"}

\* The root is no child of anybody, and never forked.
RootShape ==
  /\ stage[Root] \in {"serving", "stopping", "torn", "gone"}
  /\ parent[Root] = Nobody /\ depth[Root] = MaxDepth

\* A process exists when it has a parent, and has one generation less to go.
ParentShape ==
  \A c \in Children :
    /\ stage[c] = "none" <=> parent[c] = Nobody
    /\ parent[c] # Nobody => stage[parent[c]] # "none" /\ depth[parent[c]] = depth[c] + 1

TrackedShape ==
  \A n \in Nodes : \A c \in tracked[n] : parent[c] = n

\* A child that is awaited has a place, and every request is counted once.
Counts ==
  \A n \in Nodes :
    /\ IsFiniteSet(tracked[n]) /\ Cardinality(tracked[n]) <= active[n]
    /\ active[n] <= MaxChildren
    /\ awaited[n] # Nobody => active[n] < MaxChildren
    /\ active[n] + (IF n \in asking THEN 1 ELSE 0) <= requests

TreeInv == TypeOK /\ RootShape /\ ParentShape /\ TrackedShape /\ Counts

LEMMA NodeFacts ==
  /\ Root \in Nodes /\ Children \subseteq Nodes /\ Nobody \notin Nodes /\ Root \notin Children
  /\ \A n \in Nodes : n = Root \/ n \in Children
  /\ MaxDepth \in Nat /\ MaxChildren \in Nat /\ MaxRequests \in Nat
BY ChildrenAssumption DEF Nodes

LEMMA CountTypes ==
  ASSUME TypeOK, NEW n \in Nodes
  PROVE  /\ depth[n] \in Nat /\ depth[n] <= MaxDepth /\ active[n] \in Nat /\ requests \in Nat
         /\ requests <= MaxRequests /\ active[n] \in 0..MaxRequests
<1>1. /\ depth[n] \in 0..MaxDepth /\ active[n] \in 0..MaxRequests /\ requests \in 0..MaxRequests
  BY DEF TypeOK
<1>2. QED
  BY <1>1, NodeFacts

LEMMA InitTree == Init => TreeInv
<1> SUFFICES ASSUME Init PROVE TreeInv
  OBVIOUS
<1>1. TypeOK
  <2>1. 0 \in 0..MaxDepth /\ MaxDepth \in 0..MaxDepth /\ 0 \in 0..MaxRequests
    BY NodeFacts
  <2>2. QED
    BY <2>1, NodeFacts DEF Init, TypeOK
<1>2. RootShape /\ ParentShape /\ TrackedShape
  BY NodeFacts DEF Init, RootShape, ParentShape, TrackedShape
<1>3. Counts
  BY NodeFacts, FS_EmptySet DEF Init, Counts
<1>4. QED
  BY <1>1, <1>2, <1>3 DEF TreeInv

-----------------------------------------------------------------------------
(* Requests for children *)

\* A step that only answers, or sends, a request.
LEMMA AskTree ==
  ASSUME TreeInv, NEW n \in Nodes, Ask(n) PROVE TreeInv'
<1>1. /\ TypeOK /\ n \notin asking /\ requests < MaxRequests /\ asking' = asking \cup {n}
      /\ requests' = requests + 1
      /\ UNCHANGED <<stage, parent, depth, active, tracked, awaited, printed, watched>>
  BY DEF TreeInv, Ask
<1>2. TypeOK'
  <2>1. requests' \in 0..MaxRequests
    BY <1>1, CountTypes, NodeFacts
  <2>2. QED
    BY <1>1, <2>1 DEF TypeOK
<1>3. RootShape' /\ ParentShape' /\ TrackedShape'
  BY <1>1 DEF TreeInv, RootShape, ParentShape, TrackedShape
<1>4. Counts'
  <2> SUFFICES ASSUME NEW m \in Nodes
               PROVE  active[m] + (IF m \in asking' THEN 1 ELSE 0) <= requests'
    BY <1>1 DEF TreeInv, Counts
  <2>1. active[m] \in Nat /\ requests \in Nat
    BY <1>1, CountTypes
  <2>2. active[m] + (IF m \in asking THEN 1 ELSE 0) <= requests
    BY DEF TreeInv, Counts
  <2>3. QED
    BY <1>1, <2>1, <2>2
<1>5. QED
  BY <1>2, <1>3, <1>4 DEF TreeInv

\* An answer that is no: the proxy waits for nothing any more.
LEMMA DeclineTree ==
  ASSUME TreeInv, NEW n \in Nodes, Decline(n),
         awaited' = [awaited EXCEPT ![n] = Nobody] \/ (awaited' = awaited /\ awaited[n] = Nobody)
  PROVE  TreeInv'
<1>1. /\ TypeOK /\ asking' = asking \ {n}
      /\ UNCHANGED <<stage, parent, depth, active, tracked, requests, printed, watched>>
  BY DEF TreeInv, Decline
<1>2. /\ awaited' \in [Nodes -> Children \cup {Nobody}] /\ awaited'[n] = Nobody
      /\ \A m \in Nodes : m # n => awaited'[m] = awaited[m]
  BY <1>1 DEF TypeOK
<1>3. TypeOK'
  BY <1>1, <1>2 DEF TypeOK
<1>4. RootShape' /\ ParentShape' /\ TrackedShape'
  BY <1>1 DEF TreeInv, RootShape, ParentShape, TrackedShape
<1>5. Counts'
  <2> SUFFICES ASSUME NEW m \in Nodes
               PROVE  /\ awaited'[m] # Nobody => active[m] < MaxChildren
                      /\ active[m] + (IF m \in asking' THEN 1 ELSE 0) <= requests
    BY <1>1 DEF TreeInv, Counts
  <2>1. active[m] \in Nat /\ requests \in Nat
    BY <1>1, CountTypes
  <2>2. /\ active[m] + (IF m \in asking THEN 1 ELSE 0) <= requests
        /\ awaited[m] # Nobody => active[m] < MaxChildren
    BY DEF TreeInv, Counts
  <2>3. QED
    BY <1>1, <1>2, <2>1, <2>2
<1>6. QED
  BY <1>3, <1>4, <1>5 DEF TreeInv

LEMMA SpawnTree ==
  ASSUME TreeInv, NEW n \in Nodes, NEW c \in Children, Spawn(n, c) PROVE TreeInv'
<1>1. /\ TypeOK /\ RootShape /\ ParentShape /\ TrackedShape /\ Counts
      /\ n \in asking /\ n \in Bridging /\ depth[n] > 0 /\ active[n] < MaxChildren
      /\ stage[c] = "none"
      /\ stage' = [stage EXCEPT ![c] = "forked"] /\ parent' = [parent EXCEPT ![c] = n]
      /\ depth' = [depth EXCEPT ![c] = depth[n] - 1] /\ awaited' = [awaited EXCEPT ![n] = c]
      /\ UNCHANGED <<active, tracked, asking, requests, printed, watched>>
  BY DEF TreeInv, Spawn, NextPid
<1>2. stage[n] # "none" /\ n # c /\ parent[c] = Nobody /\ c # Root /\ c \in Nodes
  BY <1>1, NodeFacts DEF Bridging, ParentShape
<1>3. /\ stage' \in [Nodes -> Stages] /\ stage'[c] = "forked"
      /\ \A m \in Nodes : m # c => stage'[m] = stage[m]
  BY <1>1, <1>2 DEF TypeOK, Stages
<1>4. /\ parent' \in [Nodes -> Nodes \cup {Nobody}] /\ parent'[c] = n
      /\ \A m \in Nodes : m # c => parent'[m] = parent[m]
  BY <1>1, <1>2 DEF TypeOK
<1>5. /\ depth' \in [Nodes -> 0..MaxDepth] /\ depth'[c] = depth[n] - 1
      /\ \A m \in Nodes : m # c => depth'[m] = depth[m]
  <2>1. depth[n] - 1 \in 0..MaxDepth
    BY <1>1, CountTypes, NodeFacts
  <2>2. QED
    BY <1>1, <1>2, <2>1 DEF TypeOK
<1>6. /\ awaited' \in [Nodes -> Children \cup {Nobody}] /\ awaited'[n] = c
      /\ \A m \in Nodes : m # n => awaited'[m] = awaited[m]
  BY <1>1 DEF TypeOK
<1>7. TypeOK'
  <2>1. \A m \in Nodes : awaited'[m] # Nobody => m \in asking' /\ parent'[awaited'[m]] = m
    <3>1. TAKE m \in Nodes
    <3>2. CASE m = n
      BY <1>1, <1>4, <1>6, <3>2
    <3>3. CASE m # n
      <4>1. awaited[m] # Nobody => awaited[m] \in Children /\ m \in asking /\ parent[awaited[m]] = m
        BY <1>1 DEF TypeOK
      <4>2. awaited[m] # Nobody => awaited[m] # c
        BY <1>2, <4>1, NodeFacts
      <4>3. QED
        BY <1>1, <1>4, <1>6, <3>3, <4>1, <4>2, NodeFacts
    <3>4. QED
      BY <3>2, <3>3
  <2>2. QED
    BY <1>1, <1>3, <1>4, <1>5, <1>6, <2>1 DEF TypeOK, Stages
<1>8. RootShape'
  BY <1>1, <1>2, <1>3, <1>4, <1>5, NodeFacts DEF RootShape
<1>9. ParentShape'
  <2> SUFFICES ASSUME NEW d \in Children
               PROVE  /\ stage'[d] = "none" <=> parent'[d] = Nobody
                      /\ parent'[d] # Nobody =>
                           stage'[parent'[d]] # "none" /\ depth'[parent'[d]] = depth'[d] + 1
    BY DEF ParentShape
  <2>1. CASE d = c
    <3>1. stage'[n] # "none" /\ depth'[n] = depth[n] /\ n # Nobody
      BY <1>2, <1>3, <1>5, NodeFacts
    <3>2. depth[n] = (depth[n] - 1) + 1
      BY <1>1, CountTypes
    <3>3. QED
      BY <1>3, <1>4, <1>5, <2>1, <3>1, <3>2
  <2>2. CASE d # c
    <3>1. /\ stage[d] = "none" <=> parent[d] = Nobody
          /\ parent[d] # Nobody => /\ parent[d] \in Nodes /\ stage[parent[d]] # "none"
                                 /\ depth[parent[d]] = depth[d] + 1
      BY <1>1, NodeFacts DEF ParentShape, TypeOK
    <3>2. d \in Nodes /\ parent'[d] = parent[d] /\ stage'[d] = stage[d] /\ depth'[d] = depth[d]
      BY <1>3, <1>4, <1>5, <2>2, NodeFacts
    <3>3. parent[d] # Nobody => parent[d] # c
      BY <1>1, <3>1
    <3>4. QED
      BY <1>3, <1>5, <3>1, <3>2, <3>3
  <2>3. QED
    BY <2>1, <2>2
<1>10. TrackedShape'
  <2>1. \A m \in Nodes : \A d \in tracked[m] : d \in Nodes /\ d # c
    BY <1>1, <1>2, NodeFacts DEF TrackedShape, TypeOK
  <2>2. QED
    BY <1>1, <1>4, <2>1 DEF TrackedShape
<1>11. Counts'
  BY <1>1, <1>6 DEF Counts
<1>12. QED
  BY <1>7, <1>8, <1>9, <1>10, <1>11 DEF TreeInv

LEMMA ChildReadyTree ==
  ASSUME TreeInv, NEW n \in Nodes, ChildReady(n) PROVE TreeInv'
<1>1. PICK c : c = awaited[n]
  OBVIOUS
<1>2. /\ TypeOK /\ Counts /\ c \in printed
      /\ tracked' = [tracked EXCEPT ![n] = @ \cup {c}] /\ active' = [active EXCEPT ![n] = @ + 1]
      /\ awaited' = [awaited EXCEPT ![n] = Nobody] /\ asking' = asking \ {n}
      /\ UNCHANGED <<stage, parent, depth, requests, printed, watched>>
  BY <1>1 DEF TreeInv, ChildReady, Count
<1>3. c \in Children /\ c # Nobody /\ n \in asking /\ parent[c] = n
  BY <1>1, <1>2, NodeFacts DEF TypeOK
<1>4. /\ tracked' \in [Nodes -> SUBSET Children] /\ tracked'[n] = tracked[n] \cup {c}
      /\ \A m \in Nodes : m # n => tracked'[m] = tracked[m]
  BY <1>2, <1>3 DEF TypeOK
<1>5. /\ awaited' \in [Nodes -> Children \cup {Nobody}] /\ awaited'[n] = Nobody
      /\ \A m \in Nodes : m # n => awaited'[m] = awaited[m]
  BY <1>2 DEF TypeOK
<1>6. active[n] \in Nat /\ requests \in Nat /\ active[n] < MaxChildren /\ active[n] + 1 <= requests
      /\ requests <= MaxRequests
  BY <1>1, <1>2, <1>3, CountTypes DEF Counts
<1>7. /\ active' \in [Nodes -> 0..MaxRequests] /\ active'[n] = active[n] + 1
      /\ \A m \in Nodes : m # n => active'[m] = active[m]
  <2>1. active[n] + 1 \in 0..MaxRequests
    BY <1>6, NodeFacts
  <2>2. QED
    BY <1>2, <2>1 DEF TypeOK
<1>8. TypeOK'
  BY <1>2, <1>4, <1>5, <1>7 DEF TypeOK
<1>9. RootShape' /\ ParentShape' /\ TrackedShape'
  BY <1>2, <1>3, <1>4 DEF TreeInv, RootShape, ParentShape, TrackedShape
<1>10. Counts'
  <2>1. ASSUME NEW m \in Nodes, m # n
        PROVE  /\ IsFiniteSet(tracked'[m]) /\ Cardinality(tracked'[m]) <= active'[m]
               /\ active'[m] <= MaxChildren
               /\ awaited'[m] # Nobody => active'[m] < MaxChildren
               /\ active'[m] + (IF m \in asking' THEN 1 ELSE 0) <= requests'
    BY <1>2, <1>4, <1>5, <1>7, <2>1 DEF Counts
  <2>2. IsFiniteSet(tracked'[n]) /\ Cardinality(tracked'[n]) <= active'[n]
    <3>1. IsFiniteSet(tracked[n]) /\ Cardinality(tracked[n]) <= active[n]
      BY <1>2 DEF Counts
    <3>2. /\ IsFiniteSet(tracked[n] \cup {c}) /\ Cardinality(tracked[n]) \in Nat
          /\ Cardinality(tracked[n] \cup {c}) \in {Cardinality(tracked[n]), Cardinality(tracked[n]) + 1}
      BY <3>1, FS_AddElement, FS_CardinalityType
    <3>3. QED
      BY <1>4, <1>6, <1>7, <3>1, <3>2
  <2>3. /\ active'[n] <= MaxChildren /\ awaited'[n] = Nobody
        /\ active'[n] + (IF n \in asking' THEN 1 ELSE 0) <= requests'
    BY <1>2, <1>5, <1>6, <1>7, NodeFacts
  <2>4. QED
    BY <2>1, <2>2, <2>3 DEF Counts
<1>11. QED
  BY <1>8, <1>9, <1>10 DEF TreeInv

-----------------------------------------------------------------------------
(* The life of a process *)

\* A process goes on to another stage of its life.
LEMMA GoesTree ==
  ASSUME TreeInv, NEW n \in Nodes, NEW to \in Stages \ {"none"}, Goes(n, to),
         stage[n] # "none", n = Root => to \notin {"forked", "armed"},
         watched' \cup printed' \subseteq Children
  PROVE  TreeInv'
<1>1. /\ TypeOK /\ stage' = [stage EXCEPT ![n] = to]
      /\ UNCHANGED <<parent, depth, active, tracked, asking, awaited, requests>>
  BY DEF TreeInv, Goes
<1>2. /\ stage' \in [Nodes -> Stages] /\ stage'[n] = to
      /\ \A m \in Nodes : m # n => stage'[m] = stage[m]
  BY <1>1 DEF TypeOK, Stages
<1>3. TypeOK'
  BY <1>1, <1>2 DEF TypeOK, Stages
<1>4. \A m \in Nodes : stage'[m] = "none" <=> stage[m] = "none"
  BY <1>2
<1>5. RootShape'
  BY <1>1, <1>2, NodeFacts DEF TreeInv, RootShape, Stages
<1>6. ParentShape'
  BY <1>1, <1>4, NodeFacts DEF TreeInv, ParentShape, TypeOK
<1>7. TrackedShape' /\ Counts'
  BY <1>1 DEF TreeInv, TrackedShape, Counts
<1>8. QED
  BY <1>3, <1>5, <1>6, <1>7 DEF TreeInv

LEMMA LifeTree ==
  ASSUME TreeInv, NEW n \in Nodes,
         ArmDeathSignal(n) \/ Ready(n) \/ StartupFails(n) \/ ParentDied(n) \/ Stop(n) \/ Exit(n) \/ Kill(n)
  PROVE  TreeInv'
<1>1. watched \cup printed \subseteq Children /\ \A m \in Nodes : m = Root \/ m \in Children
  BY NodeFacts DEF TreeInv, TypeOK
<1>2. n = Root => stage[n] \notin {"forked", "armed"}
  BY DEF TreeInv, RootShape
<1>3. CASE ArmDeathSignal(n)
  <2>1. n \in Children
    BY <1>1, <1>2, <1>3 DEF ArmDeathSignal
  <2>2. QED
    BY <1>1, <1>2, <1>3, <2>1, GoesTree DEF ArmDeathSignal, Stages
<1>4. CASE Ready(n)
  <2>1. n \in Children
    BY <1>1, <1>2, <1>4 DEF Ready
  <2>2. QED
    BY <1>1, <1>2, <1>4, <2>1, GoesTree DEF Ready, Stages
<1>5. CASE StartupFails(n)
  BY <1>1, <1>2, <1>5, GoesTree DEF StartupFails, Stages
<1>6. CASE ParentDied(n)
  BY <1>1, <1>2, <1>6, GoesTree DEF ParentDied, Stages
<1>7. CASE Stop(n) \/ Exit(n)
  BY <1>1, <1>2, <1>7, GoesTree DEF Stop, Exit, Stages
<1>8. CASE Kill(n)
  BY <1>1, <1>2, <1>8, GoesTree DEF Kill, Up, Stages
<1>9. QED
  BY <1>3, <1>4, <1>5, <1>6, <1>7, <1>8

\* The children that are killed existed.
LEMMA TeardownTree ==
  ASSUME TreeInv, NEW n \in Nodes, Teardown(n) PROVE TreeInv'
<1>1. /\ TypeOK /\ RootShape /\ ParentShape /\ TrackedShape /\ Counts /\ stage[n] = "stopping"
      /\ stage' = [m \in Nodes |-> IF m = n THEN "torn" ELSE IF m \in tracked[n] THEN "gone" ELSE stage[m]]
      /\ tracked' = [tracked EXCEPT ![n] = {}]
      /\ UNCHANGED <<parent, depth, active, asking, awaited, requests, printed, watched>>
  BY DEF TreeInv, Teardown
<1>2. \A m \in tracked[n] : m \in Children /\ stage[m] # "none"
  BY <1>1, NodeFacts DEF TypeOK, TrackedShape, ParentShape
<1>3. /\ stage' \in [Nodes -> Stages] /\ \A m \in Nodes : stage'[m] = "none" <=> stage[m] = "none"
  BY <1>1, <1>2 DEF TypeOK, Stages
<1>4. /\ tracked' \in [Nodes -> SUBSET Children] /\ tracked'[n] = {}
      /\ \A m \in Nodes : m # n => tracked'[m] = tracked[m]
  BY <1>1 DEF TypeOK
<1>5. TypeOK'
  BY <1>1, <1>3, <1>4 DEF TypeOK, Stages
<1>6. RootShape'
  BY <1>1, <1>2, NodeFacts DEF RootShape
<1>7. ParentShape'
  BY <1>1, <1>3, NodeFacts DEF ParentShape, TypeOK
<1>8. TrackedShape'
  BY <1>1, <1>4 DEF TrackedShape
<1>9. Counts'
  <2>1. IsFiniteSet(tracked'[n]) /\ Cardinality(tracked'[n]) <= active[n]
    BY <1>1, <1>4, FS_EmptySet, CountTypes
  <2>2. QED
    BY <1>1, <1>4, <2>1 DEF Counts
<1>10. QED
  BY <1>5, <1>6, <1>7, <1>8, <1>9 DEF TreeInv

LEMMA NextTree == TreeInv /\ [Next]_vars => TreeInv'
<1> SUFFICES ASSUME TreeInv, [Next]_vars PROVE TreeInv'
  OBVIOUS
<1>1. CASE UNCHANGED vars
  BY <1>1 DEF vars, TreeInv, TypeOK, RootShape, ParentShape, TrackedShape, Counts
<1>2. ASSUME NEW n \in Nodes, DeclineDepth(n) \/ DeclineRule(n) \/ DeclineFull(n) PROVE TreeInv'
  BY <1>2, DeclineTree DEF DeclineDepth, DeclineRule, DeclineFull
<1>3. ASSUME NEW n \in Nodes, ChildFailed(n) \/ SpawnTimeout(n) PROVE TreeInv'
  BY <1>3, DeclineTree DEF ChildFailed, SpawnTimeout
<1>4. QED
  BY <1>1, <1>2, <1>3, AskTree, SpawnTree, ChildReadyTree, LifeTree, TeardownTree DEF Next

\* The invariant of the tree.
THEOREM Tree == Spec => []TreeInv
BY InitTree, NextTree, PTL DEF Spec

-----------------------------------------------------------------------------
(* The generations *)

\* How many generations a process that exists is below the root, by what it has left.
Below == [n \in Nodes |-> IF parent[n] = Nobody THEN 0 ELSE MaxDepth - depth[n]]

\* What the definition of Generation asks of a function.
IsGeneration(g) == g = [n \in Nodes |-> IF parent[n] = Nobody THEN 0 ELSE 1 + g[parent[n]]]

LEMMA BelowIsGeneration == ASSUME TreeInv PROVE IsGeneration(Below)
<1> SUFFICES ASSUME NEW n \in Nodes
             PROVE  Below[n] = IF parent[n] = Nobody THEN 0 ELSE 1 + Below[parent[n]]
  BY DEF IsGeneration, Below
<1>1. CASE parent[n] = Nobody
  BY <1>1 DEF Below
<1>2. CASE parent[n] # Nobody
  <2>1. PICK p \in Nodes : p = parent[n]
    BY <1>2 DEF TreeInv, TypeOK
  <2>2. n \in Children
    BY <1>2, NodeFacts DEF TreeInv, RootShape
  <2>3. stage[p] # "none" /\ depth[p] = depth[n] + 1 /\ depth[n] \in Nat
    BY <1>2, <2>1, <2>2, CountTypes DEF TreeInv, ParentShape
  <2>4. CASE parent[p] = Nobody
    <3>1. p = Root /\ depth[p] = MaxDepth
      BY <2>3, <2>4, NodeFacts DEF TreeInv, ParentShape, RootShape
    <3>2. MaxDepth - depth[n] = 1 /\ Below[p] = 0
      BY <2>3, <2>4, <3>1, NodeFacts DEF Below
    <3>3. Below[n] = MaxDepth - depth[n]
      BY <1>2 DEF Below
    <3>4. QED
      BY <1>2, <2>1, <3>2, <3>3
  <2>5. CASE parent[p] # Nobody
    BY <1>2, <2>1, <2>3, <2>5, NodeFacts DEF Below
  <2>6. QED
    BY <2>4, <2>5
<1>3. QED
  BY <1>1, <1>2

\* There is only one such function: the least generation in which two differ has a parent
\* in which they differ too.
LEMMA GenerationUnique ==
  ASSUME TreeInv, NEW g, IsGeneration(g) PROVE g = Below
<1>1. \A n \in Nodes : g[n] = IF parent[n] = Nobody THEN 0 ELSE 1 + g[parent[n]]
  BY DEF IsGeneration
<1>2. \A n \in Nodes : Below[n] = IF parent[n] = Nobody THEN 0 ELSE 1 + Below[parent[n]]
  BY BelowIsGeneration DEF IsGeneration
<1> DEFINE Left(n) == MaxDepth - depth[n]
           Differ == {n \in Nodes : g[n] # Below[n]}
           Lefts == {Left(n) : n \in Differ}
<1>3. \A n \in Nodes : Left(n) \in Nat
  BY CountTypes, NodeFacts DEF TreeInv
<1>4. Differ = {}
  <2> SUFFICES ASSUME Differ # {} PROVE FALSE
    OBVIOUS
  <2>1. Lefts \in SUBSET Nat /\ Lefts # {}
    BY <1>3
  <2>2. PICK least \in Lefts : \A k \in Lefts : least <= k
    <3> HIDE DEF Lefts
    <3> QED BY <2>1, LeastNumber
  <2>3. PICK n \in Differ : least = Left(n)
    OBVIOUS
  <2>4. parent[n] # Nobody
    BY <1>1, <1>2, <2>3
  <2>5. PICK p \in Nodes : p = parent[n]
    BY <2>3, <2>4 DEF TreeInv, TypeOK
  <2>6. p \in Differ
    BY <1>1, <1>2, <2>3, <2>4, <2>5
  <2>7. depth[p] = depth[n] + 1 /\ depth[n] \in Nat
    BY <2>3, <2>4, <2>5, NodeFacts, CountTypes DEF TreeInv, ParentShape, RootShape
  <2>8. Left(p) < Left(n) /\ Left(p) \in Lefts
    BY <2>6, <2>7, NodeFacts
  <2>9. PICK l \in Nat, k \in Nat : l = Left(n) /\ k = Left(p)
    BY <1>3, <2>3, <2>6
  <2>10. l <= k /\ k < l
    <3> HIDE DEF Lefts, Left
    <3> QED BY <2>2, <2>3, <2>8, <2>9
  <2>11. QED
    BY <2>10
<1>5. g = [n \in Nodes |-> g[n]] /\ Below = [n \in Nodes |-> Below[n]]
  BY DEF IsGeneration, Below
<1>6. QED
  BY <1>4, <1>5

\* The tree stays within --child-max-depth and --child-max-children, for any values of
\* them (remaining_depth and active_children, checked long before they are counted).
THEOREM TreeIsBounded == Spec => []TreeBounded
<1>1. TreeInv => TreeBounded
  <2> SUFFICES ASSUME TreeInv PROVE TreeBounded
    OBVIOUS
  <2>1. Generation = Below
    <3>1. Generation = CHOOSE g : IsGeneration(g)
      BY DEF Generation, IsGeneration
    <3>2. IsGeneration(CHOOSE g : IsGeneration(g))
      BY BelowIsGeneration
    <3>3. QED
      BY <3>1, <3>2, GenerationUnique
  <2>2. \A n \in Nodes : Below[n] <= MaxDepth
    BY CountTypes, NodeFacts DEF Below, TreeInv
  <2>3. GenerationsBounded
    BY <2>1, <2>2 DEF GenerationsBounded, Up
  <2>4. TrackedChildrenBounded
    <3> SUFFICES ASSUME NEW n \in Nodes PROVE Cardinality(tracked[n]) <= MaxChildren
      BY DEF TrackedChildrenBounded
    <3>1. /\ Cardinality(tracked[n]) <= active[n] /\ active[n] <= MaxChildren
          /\ IsFiniteSet(tracked[n])
      BY DEF TreeInv, Counts
    <3>2. active[n] \in Nat /\ Cardinality(tracked[n]) \in Nat
      BY <3>1, CountTypes, FS_CardinalityType DEF TreeInv
    <3>3. QED
      BY <3>1, <3>2, NodeFacts
  <2>5. QED
    BY <2>3, <2>4 DEF TreeBounded, TreeInv
<1>2. QED
  BY <1>1, Tree, PTL

-----------------------------------------------------------------------------
\* What Retain has kept after each of its rounds.
RetainRounds(B, list, id, n, h) ==
  /\ h \in [0..n -> Seq(B)] /\ h[0] = <<>> /\ Retain(list, id) = h[n]
  /\ \A k \in 1..n :
       h[k] = IF list[k].id = id THEN h[k - 1] ELSE Append(h[k - 1], list[k])

\* The rounds of retain exist.
LEMMA RetainSteps ==
  ASSUME NEW B, NEW list \in Seq(B), NEW id
  PROVE  \E h : RetainRounds(B, list, id, Len(list), h)
<1> DEFINE n == Len(list)
           op == [x \in Seq(B) \X B |-> IF x[2].id = id THEN x[1] ELSE Append(x[1], x[2])]
           Solves(it) ==
             it = [s \in SUBSET (1..n) |->
                     IF s = {} THEN <<>>
                     ELSE IF list[Max(s)].id = id THEN it[s \ {Max(s)}]
                     ELSE Append(it[s \ {Max(s)}], list[Max(s)])]
<1>1. n \in Nat /\ DOMAIN list = 1..n /\ \A k \in 1..n : list[k] \in B
  BY LenProperties, ElementOfSeq
<1>2. \A a \in Seq(B), b \in B : Append(a, b) \in Seq(B)
  BY AppendProperties
<1>3. /\ op \in [Seq(B) \X B -> Seq(B)]
      /\ \A a \in Seq(B), b \in B : op[<<a, b>>] = IF b.id = id THEN a ELSE Append(a, b)
  BY <1>2
<1> HIDE DEF op, n
<1>4. PICK it0 \in [SUBSET (1..n) -> Seq(B)] :
        \A s \in SUBSET (1..n) :
          it0[s] = IF s = {} THEN <<>> ELSE op[<<it0[s \ {Max(s)}], list[Max(s)]>>]
  <2>1. <<>> \in Seq(B)
    BY EmptySeq
  <2>2. \E it \in [SUBSET (1..Len(list)) -> Seq(B)] :
          \A s \in SUBSET (1..Len(list)) :
            it[s] = IF s = {} THEN <<>> ELSE op[<<it[s \ {Max(s)}], list[Max(s)]>>]
    <3>1. op \in [Seq(B) \X B -> Seq(B)]
      BY <1>3
    <3>2. \E it : Iterates(Seq(B), <<>>, op, list, it)
      BY <2>1, <3>1, FoldExists
    <3>3. QED
      BY <3>2 DEF Iterates
  <2>3. QED
    BY <2>2 DEF n
<1>5. Solves(it0)
  <2>1. ASSUME NEW s \in SUBSET (1..n), s # {}
        PROVE  it0[s \ {Max(s)}] \in Seq(B) /\ list[Max(s)] \in B
    <3>1. Max(s) \in 1..n
      BY <1>1, <2>1, LargestLemma
    <3>2. s \ {Max(s)} \in SUBSET (1..n)
      OBVIOUS
    <3>3. QED
      BY <1>1, <1>4, <3>1, <3>2
  <2>2. ASSUME NEW s \in SUBSET (1..n)
        PROVE  it0[s] = IF s = {} THEN <<>>
                        ELSE IF list[Max(s)].id = id THEN it0[s \ {Max(s)}]
                        ELSE Append(it0[s \ {Max(s)}], list[Max(s)])
    <3>1. CASE s = {}
      BY <1>4, <3>1
    <3>2. CASE s # {}
      <4>1. it0[s] = op[<<it0[s \ {Max(s)}], list[Max(s)]>>]
        BY <1>4, <3>2
      <4>2. QED
        BY <1>3, <2>1, <3>2, <4>1
    <3>3. QED
      BY <3>1, <3>2
  <2>3. QED
    BY <1>4, <2>2
<1>6. PICK it : Solves(it) /\ Retain(list, id) = it[1..n]
  <2>1. Solves(CHOOSE it : Solves(it))
    BY <1>5
  <2>2. Retain(list, id) = (CHOOSE it : Solves(it))[1..n]
    BY <1>1 DEF Retain, FoldLeft, MapThenFoldSet
  <2>3. QED
    BY <2>1, <2>2
<1> DEFINE h == [k \in 0..n |-> it[1..k]]
<1>7. h[0] = <<>> /\ Retain(list, id) = h[n]
  <2>1. 1..0 = {} /\ {} \in SUBSET (1..n)
    OBVIOUS
  <2>2. it[{}] = <<>>
    BY <1>6, <2>1
  <2>3. h[0] = it[1..0] /\ h[n] = it[1..n]
    BY <1>1
  <2> HIDE DEF h
  <2>4. QED
    BY <1>6, <2>1, <2>2, <2>3
<1>8. ASSUME NEW k \in 1..n
      PROVE  h[k] = IF list[k].id = id THEN h[k - 1] ELSE Append(h[k - 1], list[k])
  <2>1. PICK s : s = 1..k
    OBVIOUS
  <2>2. s \in SUBSET (1..n) /\ s # {} /\ Max(s) = k /\ s \ {Max(s)} = 1..(k - 1)
    BY <1>1, <2>1, FoldPrefix
  <2>3. it[s] = IF list[Max(s)].id = id THEN it[s \ {Max(s)}]
                ELSE Append(it[s \ {Max(s)}], list[Max(s)])
    BY <1>6, <2>2
  <2>4. h[k] = it[1..k] /\ h[k - 1] = it[1..(k - 1)]
    BY <1>1
  <2>5. QED
    BY <2>1, <2>2, <2>3, <2>4
<1>9. \A k \in 0..n : h[k] \in Seq(B)
  <2> DEFINE P == {k \in 0..n : h[k] \in Seq(B)}
  <2> HIDE DEF h
  <2>1. 0 \in P
    <3>1. <<>> \in Seq(B) /\ 0 \in 0..n
      BY <1>1, EmptySeq
    <3>2. QED
      BY <1>7, <3>1
  <2>2. ASSUME NEW k \in 1..n, k - 1 \in P PROVE k \in P
    <3>1. h[k - 1] \in Seq(B) /\ list[k] \in B /\ k \in 0..n
      BY <1>1, <2>2
    <3>2. Append(h[k - 1], list[k]) \in Seq(B)
      BY <1>2, <3>1
    <3>3. h[k] \in Seq(B)
      BY <1>8, <3>1, <3>2
    <3>4. QED
      BY <3>1, <3>3
  <2>3. \A k \in 0..n : k \in P
    BY <1>1, <2>1, <2>2, CountUp
  <2>4. QED
    BY <2>3
<1>10. h \in [0..n -> Seq(B)]
  BY <1>9
<1> HIDE DEF h
<1>11. RetainRounds(B, list, id, n, h)
  BY <1>7, <1>8, <1>10 DEF RetainRounds
<1>12. QED
  BY <1>11 DEF n

-----------------------------------------------------------------------------
(* What registering a manifest does to a list *)

\* kept is what a walk over the first k of list has kept that drops what has the id.
Keeps(list, id, k, kept) ==
  /\ \A x \in 1..Len(kept) : kept[x].id # id
  /\ \A i \in 1..k : list[i].id # id => \E x \in 1..Len(kept) : kept[x] = list[i]
  /\ \A x \in 1..Len(kept) : \E i \in 1..k : kept[x] = list[i]
  /\ \A x, y \in 1..Len(kept) :
       x < y => \E i, j \in 1..k : i < j /\ kept[x] = list[i] /\ kept[y] = list[j]
  /\ (\A i \in 1..k : list[i].id # id)
       => Len(kept) = k /\ \A i \in 1..k : kept[i] = list[i]

\* retain keeps all but one id, in their order.
LEMMA RetainFacts ==
  ASSUME NEW B, NEW list \in Seq(B), NEW id
  PROVE  Retain(list, id) \in Seq(B) /\ Keeps(list, id, Len(list), Retain(list, id))
<1>1. PICK n \in Nat : n = Len(list)
  BY LenProperties
<1>2. PICK h \in [0..n -> Seq(B)] :
        /\ h[0] = <<>> /\ Retain(list, id) = h[n]
        /\ \A k \in 1..n :
             h[k] = IF list[k].id = id THEN h[k - 1] ELSE Append(h[k - 1], list[k])
  <2>1. \E h : RetainRounds(B, list, id, n, h)
    BY <1>1, RetainSteps
  <2>2. QED
    BY <2>1 DEF RetainRounds
<1>3. \A k \in 1..n : list[k] \in B
  BY <1>1, ElementOfSeq
<1> DEFINE P == {k \in 0..n : Keeps(list, id, k, h[k])}
<1>4. 0 \in P
  <2>1. Len(<<>>) = 0 /\ 0 \in 0..n
    OBVIOUS
  <2>2. Keeps(list, id, 0, <<>>)
    BY <2>1 DEF Keeps
  <2>3. QED
    BY <1>2, <2>1, <2>2
<1>5. ASSUME NEW k \in 1..n, k - 1 \in P PROVE k \in P
  <2>1. PICK kept \in Seq(B) : kept = h[k - 1]
    BY <1>2
  <2>2. Keeps(list, id, k - 1, kept)
    BY <1>5, <2>1
  <2>3. \A i \in 1..k : i \in 1..(k - 1) \/ i = k
    OBVIOUS
  <2>4. CASE list[k].id = id
    <3>1. h[k] = kept
      BY <1>2, <2>1, <2>4
    <3>2. Keeps(list, id, k, kept)
      <4>1. \A i \in 1..k : list[i].id # id => \E x \in 1..Len(kept) : kept[x] = list[i]
        BY <2>2, <2>3, <2>4 DEF Keeps
      <4>2. \A i \in 1..(k - 1) : i \in 1..k
        OBVIOUS
      <4>3. ~ \A i \in 1..k : list[i].id # id
        BY <2>4
      <4>4. \A x \in 1..Len(kept) : kept[x].id # id /\ \E i \in 1..k : kept[x] = list[i]
        BY <2>2, <4>2 DEF Keeps
      <4>5. \A x, y \in 1..Len(kept) :
              x < y => \E i, j \in 1..k : i < j /\ kept[x] = list[i] /\ kept[y] = list[j]
        <5> SUFFICES ASSUME NEW x \in 1..Len(kept), NEW y \in 1..Len(kept), x < y
                     PROVE  \E i, j \in 1..k : i < j /\ kept[x] = list[i] /\ kept[y] = list[j]
          OBVIOUS
        <5>1. PICK i \in 1..(k - 1), j \in 1..(k - 1) : i < j /\ kept[x] = list[i] /\ kept[y] = list[j]
          BY <2>2 DEF Keeps
        <5>2. QED
          BY <4>2, <5>1
      <4>6. QED
        BY <4>1, <4>3, <4>4, <4>5 DEF Keeps
    <3>3. QED
      BY <3>1, <3>2
  <2>5. CASE list[k].id # id
    <3>1. PICK m \in Nat : m = Len(kept)
      BY LenProperties
    <3>2. PICK new : new = Append(kept, list[k])
      OBVIOUS
    <3>3. /\ h[k] = new /\ Len(new) = m + 1 /\ new[m + 1] = list[k]
          /\ \A x \in 1..m : new[x] = kept[x]
      <4>1. h[k] = new
        BY <1>2, <2>1, <2>5, <3>2
      <4>2. list[k] \in B
        BY <1>3
      <4>3. /\ Len(Append(kept, list[k])) = Len(kept) + 1
            /\ Append(kept, list[k])[Len(kept) + 1] = list[k]
            /\ \A x \in 1..Len(kept) : Append(kept, list[k])[x] = kept[x]
        BY <4>2, AppendProperties
      <4>4. QED
        BY <3>1, <3>2, <4>1, <4>3
    <3>4. /\ \A x \in 1..(m + 1) : x \in 1..m \/ x = m + 1
          /\ \A x \in 1..m : x \in 1..(m + 1)
          /\ m + 1 \in 1..(m + 1) /\ k \in 1..k
          /\ \A i \in 1..(k - 1) : i \in 1..k /\ i < k
          /\ \A x, y \in 1..(m + 1) : x < y => x \in 1..m
      OBVIOUS
    <3>5. \A x \in 1..(m + 1) : new[x].id # id
      <4>1. \A x \in 1..m : kept[x].id # id
        BY <2>2, <3>1 DEF Keeps
      <4>2. QED
        BY <2>5, <3>3, <3>4, <4>1
    <3>6. \A i \in 1..k : list[i].id # id => \E x \in 1..(m + 1) : new[x] = list[i]
      <4>1. \A i \in 1..(k - 1) : list[i].id # id => \E x \in 1..m : kept[x] = list[i]
        BY <2>2, <3>1 DEF Keeps
      <4>2. QED
        BY <2>3, <3>3, <3>4, <4>1
    <3>7. \A x \in 1..(m + 1) : \E i \in 1..k : new[x] = list[i]
      <4>1. \A x \in 1..m : \E i \in 1..(k - 1) : kept[x] = list[i]
        BY <2>2, <3>1 DEF Keeps
      <4>2. QED
        BY <3>3, <3>4, <4>1
    <3>8. ASSUME NEW x \in 1..(m + 1), NEW y \in 1..(m + 1), x < y
          PROVE  \E i, j \in 1..k : i < j /\ new[x] = list[i] /\ new[y] = list[j]
      <4>1. x \in 1..m
        BY <3>4, <3>8
      <4>2. CASE y \in 1..m
        <5>1. PICK i \in 1..(k - 1), j \in 1..(k - 1) : i < j /\ kept[x] = list[i] /\ kept[y] = list[j]
          BY <2>2, <3>1, <3>8, <4>1, <4>2 DEF Keeps
        <5>2. QED
          BY <3>3, <3>4, <4>1, <4>2, <5>1
      <4>3. CASE y = m + 1
        <5>1. PICK i \in 1..(k - 1) : kept[x] = list[i]
          BY <2>2, <3>1, <4>1 DEF Keeps
        <5>2. QED
          BY <3>3, <3>4, <4>1, <4>3, <5>1
      <4>4. QED
        BY <3>4, <4>2, <4>3
    <3>9. (\A i \in 1..k : list[i].id # id)
            => m + 1 = k /\ \A i \in 1..k : new[i] = list[i]
      <4> SUFFICES ASSUME \A i \in 1..k : list[i].id # id
                   PROVE  m + 1 = k /\ \A i \in 1..k : new[i] = list[i]
        OBVIOUS
      <4>1. m = k - 1 /\ \A i \in 1..(k - 1) : kept[i] = list[i]
        BY <2>2, <3>1, <3>4 DEF Keeps
      <4>2. QED
        BY <2>3, <3>3, <4>1, SMTT(40)
    <3>10. Keeps(list, id, k, new)
      BY <3>3, <3>5, <3>6, <3>7, <3>8, <3>9 DEF Keeps
    <3>11. QED
      BY <3>3, <3>10
  <2>6. QED
    BY <2>4, <2>5
<1>6. n \in P
  <2> HIDE DEF P
  <2>1. \A k \in 0..n : k \in P
    BY <1>4, <1>5, CountUp
  <2>2. QED
    BY <2>1
<1>7. QED
  BY <1>1, <1>2, <1>6

Distinct(list) ==
  \A i, j \in 1..Len(list) : list[i].id = list[j].id => i = j

\* p is the first of a list that takes the launch.
Leads(list, p, launch) ==
  \E i \in 1..Len(list) :
    /\ list[i] = p /\ Matches(p, launch)
    /\ \A j \in 1..(i - 1) : ~Matches(list[j], launch)

\* new is list after m was registered.
Replaces(list, m, new) ==
  /\ Distinct(new)
  /\ \A x \in 1..Len(new) :
       new[x] = m \/ (new[x].id # m.id /\ \E i \in 1..Len(list) : new[x] = list[i])
  /\ \E x \in 1..Len(new) : new[x] = m
  /\ \A i \in 1..Len(list) : list[i].id # m.id => \E x \in 1..Len(new) : new[x] = list[i]
  /\ \A p, launch : Leads(list, p, launch) /\ p.id # m.id => Leads(new, p, launch)
  /\ (\A i \in 1..Len(list) : list[i].id # m.id)
       => /\ Len(new) = Len(list) + 1 /\ new[Len(list) + 1] = m
          /\ \A i \in 1..Len(list) : new[i] = list[i]

\* register replaces the manifest of an id and puts the new one at the end.
LEMMA RegisterFacts ==
  ASSUME NEW B, NEW list \in Seq(B), NEW m \in B, NEW new, new = Register(list, m),
         Distinct(list)
  PROVE  new \in Seq(B) /\ Replaces(list, m, new)
<1>1. PICK kept \in Seq(B) : kept = Retain(list, m.id) /\ Keeps(list, m.id, Len(list), kept)
  BY RetainFacts
<1>2. PICK w \in Nat, n \in Nat : w = Len(kept) /\ n = Len(list)
  BY LenProperties
<1>3. new = Append(kept, m)
  BY <1>1 DEF Register
<1>4. /\ new \in Seq(B) /\ Len(new) = w + 1 /\ new[w + 1] = m
      /\ \A x \in 1..w : new[x] = kept[x]
  BY <1>1, <1>2, <1>3, AppendProperties
<1>5. /\ \A x \in 1..(w + 1) : x \in 1..w \/ x = w + 1
      /\ \A x \in 1..w : x \in 1..(w + 1)
      /\ w + 1 \in 1..(w + 1)
  OBVIOUS
<1>6. \A x \in 1..w : kept[x].id # m.id /\ \E i \in 1..n : kept[x] = list[i]
  BY <1>1, <1>2 DEF Keeps
<1>7. \A x, y \in 1..w :
        x < y => \E i, j \in 1..n : i < j /\ kept[x] = list[i] /\ kept[y] = list[j]
  BY <1>1, <1>2 DEF Keeps
<1>8. \A x, y \in 1..w : x < y => kept[x].id # kept[y].id
  BY <1>2, <1>7 DEF Distinct
<1>9. Distinct(new)
  <2> SUFFICES ASSUME NEW x \in 1..(w + 1), NEW y \in 1..(w + 1), x < y
               PROVE  new[x].id # new[y].id
    <3>1. \A x, y \in 1..(w + 1) : x < y \/ y < x \/ x = y
      OBVIOUS
    <3>2. QED
      BY <1>4, <3>1 DEF Distinct
  <2>1. x \in 1..w
    OBVIOUS
  <2>2. CASE y \in 1..w
    BY <1>4, <1>8, <2>1, <2>2
  <2>3. CASE y = w + 1
    BY <1>4, <1>6, <2>1, <2>3
  <2>4. QED
    BY <1>5, <2>2, <2>3
<1>10. \A i \in 1..n : list[i].id # m.id => \E x \in 1..(w + 1) : new[x] = list[i]
  BY <1>1, <1>2, <1>4, <1>5 DEF Keeps
<1>11. ASSUME NEW p, NEW launch, Leads(list, p, launch), p.id # m.id
       PROVE  Leads(new, p, launch)
  <2>1. PICK i \in 1..n : /\ list[i] = p /\ Matches(p, launch)
                          /\ \A j \in 1..(i - 1) : ~Matches(list[j], launch)
    BY <1>2, <1>11 DEF Leads
  <2>2. PICK x \in 1..w : kept[x] = p
    BY <1>1, <1>2, <1>11, <2>1 DEF Keeps
  <2>3. ASSUME NEW y \in 1..(x - 1) PROVE ~Matches(kept[y], launch)
    <3>1. y \in 1..w /\ y < x
      OBVIOUS
    <3>2. PICK a \in 1..n, b \in 1..n : a < b /\ kept[y] = list[a] /\ kept[x] = list[b]
      BY <1>7, <3>1
    <3>3. b = i
      BY <1>2, <2>1, <2>2, <3>2 DEF Distinct
    <3>4. a \in 1..(i - 1)
      BY <3>2, <3>3
    <3>5. QED
      BY <2>1, <3>2, <3>4
  <2>4. x \in 1..(w + 1) /\ \A y \in 1..(x - 1) : y \in 1..w
    OBVIOUS
  <2>5. QED
    BY <1>4, <2>1, <2>2, <2>3, <2>4 DEF Leads
<1>12. (\A i \in 1..n : list[i].id # m.id)
         => Len(new) = n + 1 /\ new[n + 1] = m /\ \A i \in 1..n : new[i] = list[i]
  BY <1>1, <1>2, <1>4, ZenonT(40) DEF Keeps
<1>13. /\ \A x \in 1..(w + 1) :
            new[x] = m \/ (new[x].id # m.id /\ \E i \in 1..n : new[x] = list[i])
       /\ \E x \in 1..(w + 1) : new[x] = m
  BY <1>4, <1>5, <1>6
<1>14. \A p, launch : Leads(list, p, launch) /\ p.id # m.id => Leads(new, p, launch)
  BY <1>11
<1>15. Len(new) = w + 1 /\ Len(list) = n
  BY <1>2, <1>4
<1>16. QED
  BY <1>4, <1>9, <1>10, <1>12, <1>13, <1>14, <1>15 DEF Replaces

\* register gives a list of manifests.
LEMMA RegisterType ==
  ASSUME NEW B, NEW list \in Seq(B), NEW m \in B
  PROVE  Register(list, m) \in Seq(B)
BY RetainFacts, AppendProperties DEF Register

\* The list after each of the manifests that RegisterAll registers.
RegisterRounds(B, list, ms, n, h) ==
  /\ h \in [0..n -> Seq(B)] /\ h[0] = list /\ RegisterAll(list, ms) = h[n]
  /\ \A k \in 1..n :
       h[k] = Register(h[k - 1], ms[k])

\* The rounds of load_from_dir exist.
LEMMA RegisterAllSteps ==
  ASSUME NEW B, NEW list \in Seq(B), NEW ms \in Seq(B)
  PROVE  \E h : RegisterRounds(B, list, ms, Len(ms), h)
<1> DEFINE n == Len(ms)
           op == [x \in Seq(B) \X B |-> Register(x[1], x[2])]
           Solves(it) ==
             it = [s \in SUBSET (1..n) |->
                     IF s = {} THEN list ELSE Register(it[s \ {Max(s)}], ms[Max(s)])]
<1>1. n \in Nat /\ DOMAIN ms = 1..n /\ \A k \in 1..n : ms[k] \in B
  BY LenProperties, ElementOfSeq
<1>2. \A a \in Seq(B), b \in B : Register(a, b) \in Seq(B)
  BY RegisterType
<1>3. /\ op \in [Seq(B) \X B -> Seq(B)]
      /\ \A a \in Seq(B), b \in B : op[<<a, b>>] = Register(a, b)
  BY <1>2
<1> HIDE DEF op, n
<1>4. PICK it0 \in [SUBSET (1..n) -> Seq(B)] :
        \A s \in SUBSET (1..n) :
          it0[s] = IF s = {} THEN list ELSE op[<<it0[s \ {Max(s)}], ms[Max(s)]>>]
  <2>1. list \in Seq(B)
    OBVIOUS
  <2>2. \E it \in [SUBSET (1..Len(ms)) -> Seq(B)] :
          \A s \in SUBSET (1..Len(ms)) :
            it[s] = IF s = {} THEN list ELSE op[<<it[s \ {Max(s)}], ms[Max(s)]>>]
    <3>1. op \in [Seq(B) \X B -> Seq(B)]
      BY <1>3
    <3>2. \E it : Iterates(Seq(B), list, op, ms, it)
      BY <2>1, <3>1, FoldExists
    <3>3. QED
      BY <3>2 DEF Iterates
  <2>3. QED
    BY <2>2 DEF n
<1>5. Solves(it0)
  <2>1. ASSUME NEW s \in SUBSET (1..n), s # {}
        PROVE  it0[s \ {Max(s)}] \in Seq(B) /\ ms[Max(s)] \in B
    <3>1. Max(s) \in 1..n
      BY <1>1, <2>1, LargestLemma
    <3>2. s \ {Max(s)} \in SUBSET (1..n)
      OBVIOUS
    <3>3. QED
      BY <1>1, <1>4, <3>1, <3>2
  <2>2. ASSUME NEW s \in SUBSET (1..n)
        PROVE  it0[s] = IF s = {} THEN list ELSE Register(it0[s \ {Max(s)}], ms[Max(s)])
    <3>1. CASE s = {}
      BY <1>4, <3>1
    <3>2. CASE s # {}
      <4>1. it0[s] = op[<<it0[s \ {Max(s)}], ms[Max(s)]>>]
        BY <1>4, <3>2
      <4>2. QED
        BY <1>3, <2>1, <3>2, <4>1
    <3>3. QED
      BY <3>1, <3>2
  <2>3. QED
    BY <1>4, <2>2
<1>6. PICK it : Solves(it) /\ RegisterAll(list, ms) = it[1..n]
  <2>1. Solves(CHOOSE it : Solves(it))
    BY <1>5
  <2>2. RegisterAll(list, ms) = (CHOOSE it : Solves(it))[1..n]
    BY <1>1 DEF RegisterAll, FoldLeft, MapThenFoldSet
  <2>3. QED
    BY <2>1, <2>2
<1> DEFINE h == [k \in 0..n |-> it[1..k]]
<1>7. h[0] = list /\ RegisterAll(list, ms) = h[n]
  <2>1. 1..0 = {} /\ {} \in SUBSET (1..n)
    OBVIOUS
  <2>2. it[{}] = list
    BY <1>6, <2>1
  <2>3. h[0] = it[1..0] /\ h[n] = it[1..n]
    BY <1>1
  <2> HIDE DEF h
  <2>4. QED
    BY <1>6, <2>1, <2>2, <2>3
<1>8. ASSUME NEW k \in 1..n
      PROVE  h[k] = Register(h[k - 1], ms[k])
  <2>1. PICK s : s = 1..k
    OBVIOUS
  <2>2. s \in SUBSET (1..n) /\ s # {} /\ Max(s) = k /\ s \ {Max(s)} = 1..(k - 1)
    BY <1>1, <2>1, FoldPrefix
  <2>3. it[s] = Register(it[s \ {Max(s)}], ms[Max(s)])
    BY <1>6, <2>2
  <2>4. h[k] = it[1..k] /\ h[k - 1] = it[1..(k - 1)]
    BY <1>1
  <2>5. QED
    BY <2>1, <2>2, <2>3, <2>4
<1>9. \A k \in 0..n : h[k] \in Seq(B)
  <2> DEFINE P == {k \in 0..n : h[k] \in Seq(B)}
  <2> HIDE DEF h
  <2>1. 0 \in P
    <3>1. list \in Seq(B) /\ 0 \in 0..n
      BY <1>1
    <3>2. QED
      BY <1>7, <3>1
  <2>2. ASSUME NEW k \in 1..n, k - 1 \in P PROVE k \in P
    <3>1. h[k - 1] \in Seq(B) /\ ms[k] \in B /\ k \in 0..n
      BY <1>1, <2>2
    <3>2. Register(h[k - 1], ms[k]) \in Seq(B)
      BY <1>2, <3>1
    <3>3. h[k] \in Seq(B)
      BY <1>8, <3>1, <3>2
    <3>4. QED
      BY <3>1, <3>3
  <2>3. \A k \in 0..n : k \in P
    BY <1>1, <2>1, <2>2, CountUp
  <2>4. QED
    BY <2>3
<1>10. h \in [0..n -> Seq(B)]
  BY <1>9
<1> HIDE DEF h
<1>11. RegisterRounds(B, list, ms, n, h)
  BY <1>7, <1>8, <1>10 DEF RegisterRounds
<1>12. QED
  BY <1>11 DEF n

\* What the gateway's registry holds after each of the manifests offered to it.
GatewayRounds(B, list, n, h) ==
  /\ h \in [0..n -> Seq(B)] /\ h[0] = <<>> /\ GatewayList(list) = h[n]
  /\ \A k \in 1..n :
       h[k] = IF list[k].id \in IdsOf(h[k - 1]) THEN h[k - 1] ELSE Append(h[k - 1], list[k])

\* The rounds of build_gateway_registry exist.
LEMMA GatewaySteps ==
  ASSUME NEW B, NEW list \in Seq(B)
  PROVE  \E h : GatewayRounds(B, list, Len(list), h)
<1> DEFINE n == Len(list)
           op == [x \in Seq(B) \X B |-> IF x[2].id \in IdsOf(x[1]) THEN x[1] ELSE Append(x[1], x[2])]
           Solves(it) ==
             it = [s \in SUBSET (1..n) |->
                     IF s = {} THEN <<>>
                     ELSE IF list[Max(s)].id \in IdsOf(it[s \ {Max(s)}]) THEN it[s \ {Max(s)}]
                     ELSE Append(it[s \ {Max(s)}], list[Max(s)])]
<1>1. n \in Nat /\ DOMAIN list = 1..n /\ \A k \in 1..n : list[k] \in B
  BY LenProperties, ElementOfSeq
<1>2. \A a \in Seq(B), b \in B : Append(a, b) \in Seq(B)
  BY AppendProperties
<1>3. /\ op \in [Seq(B) \X B -> Seq(B)]
      /\ \A a \in Seq(B), b \in B : op[<<a, b>>] = IF b.id \in IdsOf(a) THEN a ELSE Append(a, b)
  BY <1>2
<1> HIDE DEF op, n
<1>4. PICK it0 \in [SUBSET (1..n) -> Seq(B)] :
        \A s \in SUBSET (1..n) :
          it0[s] = IF s = {} THEN <<>> ELSE op[<<it0[s \ {Max(s)}], list[Max(s)]>>]
  <2>1. <<>> \in Seq(B)
    BY EmptySeq
  <2>2. \E it \in [SUBSET (1..Len(list)) -> Seq(B)] :
          \A s \in SUBSET (1..Len(list)) :
            it[s] = IF s = {} THEN <<>> ELSE op[<<it[s \ {Max(s)}], list[Max(s)]>>]
    <3>1. op \in [Seq(B) \X B -> Seq(B)]
      BY <1>3
    <3>2. \E it : Iterates(Seq(B), <<>>, op, list, it)
      BY <2>1, <3>1, FoldExists
    <3>3. QED
      BY <3>2 DEF Iterates
  <2>3. QED
    BY <2>2 DEF n
<1>5. Solves(it0)
  <2>1. ASSUME NEW s \in SUBSET (1..n), s # {}
        PROVE  it0[s \ {Max(s)}] \in Seq(B) /\ list[Max(s)] \in B
    <3>1. Max(s) \in 1..n
      BY <1>1, <2>1, LargestLemma
    <3>2. s \ {Max(s)} \in SUBSET (1..n)
      OBVIOUS
    <3>3. QED
      BY <1>1, <1>4, <3>1, <3>2
  <2>2. ASSUME NEW s \in SUBSET (1..n)
        PROVE  it0[s] = IF s = {} THEN <<>>
                        ELSE IF list[Max(s)].id \in IdsOf(it0[s \ {Max(s)}]) THEN it0[s \ {Max(s)}]
                        ELSE Append(it0[s \ {Max(s)}], list[Max(s)])
    <3>1. CASE s = {}
      BY <1>4, <3>1
    <3>2. CASE s # {}
      <4>1. it0[s] = op[<<it0[s \ {Max(s)}], list[Max(s)]>>]
        BY <1>4, <3>2
      <4>2. QED
        BY <1>3, <2>1, <3>2, <4>1
    <3>3. QED
      BY <3>1, <3>2
  <2>3. QED
    BY <1>4, <2>2
<1>6. PICK it : Solves(it) /\ GatewayList(list) = it[1..n]
  <2>1. Solves(CHOOSE it : Solves(it))
    BY <1>5
  <2>2. GatewayList(list) = (CHOOSE it : Solves(it))[1..n]
    BY <1>1 DEF GatewayList, FoldLeft, MapThenFoldSet
  <2>3. QED
    BY <2>1, <2>2
<1> DEFINE h == [k \in 0..n |-> it[1..k]]
<1>7. h[0] = <<>> /\ GatewayList(list) = h[n]
  <2>1. 1..0 = {} /\ {} \in SUBSET (1..n)
    OBVIOUS
  <2>2. it[{}] = <<>>
    BY <1>6, <2>1
  <2>3. h[0] = it[1..0] /\ h[n] = it[1..n]
    BY <1>1
  <2> HIDE DEF h
  <2>4. QED
    BY <1>6, <2>1, <2>2, <2>3
<1>8. ASSUME NEW k \in 1..n
      PROVE  h[k] = IF list[k].id \in IdsOf(h[k - 1]) THEN h[k - 1] ELSE Append(h[k - 1], list[k])
  <2>1. PICK s : s = 1..k
    OBVIOUS
  <2>2. s \in SUBSET (1..n) /\ s # {} /\ Max(s) = k /\ s \ {Max(s)} = 1..(k - 1)
    BY <1>1, <2>1, FoldPrefix
  <2>3. it[s] = IF list[Max(s)].id \in IdsOf(it[s \ {Max(s)}]) THEN it[s \ {Max(s)}]
                ELSE Append(it[s \ {Max(s)}], list[Max(s)])
    BY <1>6, <2>2
  <2>4. h[k] = it[1..k] /\ h[k - 1] = it[1..(k - 1)]
    BY <1>1
  <2>5. QED
    BY <2>1, <2>2, <2>3, <2>4
<1>9. \A k \in 0..n : h[k] \in Seq(B)
  <2> DEFINE P == {k \in 0..n : h[k] \in Seq(B)}
  <2> HIDE DEF h
  <2>1. 0 \in P
    <3>1. <<>> \in Seq(B) /\ 0 \in 0..n
      BY <1>1, EmptySeq
    <3>2. QED
      BY <1>7, <3>1
  <2>2. ASSUME NEW k \in 1..n, k - 1 \in P PROVE k \in P
    <3>1. h[k - 1] \in Seq(B) /\ list[k] \in B /\ k \in 0..n
      BY <1>1, <2>2
    <3>2. Append(h[k - 1], list[k]) \in Seq(B)
      BY <1>2, <3>1
    <3>3. h[k] \in Seq(B)
      BY <1>8, <3>1, <3>2
    <3>4. QED
      BY <3>1, <3>3
  <2>3. \A k \in 0..n : k \in P
    BY <1>1, <2>1, <2>2, CountUp
  <2>4. QED
    BY <2>3
<1>10. h \in [0..n -> Seq(B)]
  BY <1>9
<1> HIDE DEF h
<1>11. GatewayRounds(B, list, n, h)
  BY <1>7, <1>8, <1>10 DEF GatewayRounds
<1>12. QED
  BY <1>11 DEF n

\* new is list after the first k of ms were registered.
Registered(list, ms, k, new) ==
  /\ Distinct(new)
  /\ \A x \in 1..Len(new) :
       \/ /\ \E i \in 1..Len(list) : new[x] = list[i]
          /\ \A j \in 1..k : ms[j].id # new[x].id
       \/ \E j \in 1..k : new[x] = ms[j] /\ \A l \in 1..k : l > j => ms[l].id # ms[j].id
  /\ \A j \in 1..k : \E x \in 1..Len(new) : new[x].id = ms[j].id
  /\ \A i \in 1..Len(list) :
       (\A j \in 1..k : ms[j].id # list[i].id) => \E x \in 1..Len(new) : new[x] = list[i]
  /\ \A p, launch :
       Leads(list, p, launch) /\ (\A j \in 1..k : ms[j].id # p.id) => Leads(new, p, launch)
  /\ list = <<>> /\ Distinct(ms) => Len(new) = k /\ \A i \in 1..k : new[i] = ms[i]

\* After load_from_dir the last manifest of each id is there, and what else was.
LEMMA RegisterAllFacts ==
  ASSUME NEW B, NEW list \in Seq(B), NEW ms \in Seq(B), Distinct(list)
  PROVE  /\ RegisterAll(list, ms) \in Seq(B)
         /\ Registered(list, ms, Len(ms), RegisterAll(list, ms))
<1>1. PICK n \in Nat : n = Len(ms)
  BY LenProperties
<1>2. PICK h \in [0..n -> Seq(B)] :
        /\ h[0] = list /\ RegisterAll(list, ms) = h[n]
        /\ \A k \in 1..n : h[k] = Register(h[k - 1], ms[k])
  <2>1. \E h : RegisterRounds(B, list, ms, n, h)
    BY <1>1, RegisterAllSteps
  <2>2. QED
    BY <2>1 DEF RegisterRounds
<1>3. \A k \in 1..n : ms[k] \in B
  BY <1>1, ElementOfSeq
<1> DEFINE P == {k \in 0..n : Registered(list, ms, k, h[k])}
<1>4. 0 \in P
  <2>1. 0 \in 0..n /\ \A k \in 1..0 : FALSE
    OBVIOUS
  <2>2. Registered(list, ms, 0, list)
    BY <2>1 DEF Registered
  <2>3. QED
    BY <1>2, <2>1, <2>2
<1>5. ASSUME NEW k \in 1..n, k - 1 \in P PROVE k \in P
  <2>1. PICK old \in Seq(B) : old = h[k - 1]
    BY <1>2
  <2>2. PICK new : new = Register(old, ms[k])
    OBVIOUS
  <2>3. Registered(list, ms, k - 1, old)
    BY <1>5, <2>1
  <2>4. h[k] = new /\ ms[k] \in B
    BY <1>2, <1>3, <2>1, <2>2
  <2>5. Replaces(old, ms[k], new)
    <3>1. Distinct(old)
      BY <2>3 DEF Registered
    <3>2. QED
      BY <2>2, <2>4, <3>1, RegisterFacts
  <2>6. /\ \A j \in 1..k : j \in 1..(k - 1) \/ j = k
        /\ \A j \in 1..(k - 1) : j \in 1..k
        /\ k \in 1..k /\ \A l \in 1..k : ~(l > k)
    OBVIOUS
  <2>7. ASSUME NEW x \in 1..Len(new)
        PROVE  \/ /\ \E i \in 1..Len(list) : new[x] = list[i]
                  /\ \A j \in 1..k : ms[j].id # new[x].id
               \/ \E j \in 1..k : new[x] = ms[j] /\ \A l \in 1..k : l > j => ms[l].id # ms[j].id
    <3>1. CASE new[x] = ms[k]
      BY <2>6, <3>1
    <3>2. CASE new[x] # ms[k]
      <4>1. PICK i \in 1..Len(old) : new[x] = old[i] /\ old[i].id # ms[k].id
        <5>1. new[x].id # ms[k].id /\ \E i \in 1..Len(old) : new[x] = old[i]
          BY <2>5, <3>2 DEF Replaces
        <5>2. QED
          BY <5>1
      <4>2. \/ /\ \E a \in 1..Len(list) : old[i] = list[a]
               /\ \A j \in 1..(k - 1) : ms[j].id # old[i].id
            \/ \E j \in 1..(k - 1) :
                 old[i] = ms[j] /\ \A l \in 1..(k - 1) : l > j => ms[l].id # ms[j].id
        BY <2>3 DEF Registered
      <4>3. QED
        BY <2>6, <4>1, <4>2
    <3>3. QED
      BY <3>1, <3>2
  <2>8. ASSUME NEW j \in 1..k PROVE \E x \in 1..Len(new) : new[x].id = ms[j].id
    <3>1. CASE ms[j].id = ms[k].id
      BY <2>5, <3>1, SMTT(40) DEF Replaces
    <3>2. CASE ms[j].id # ms[k].id
      <4>1. PICK i \in 1..Len(old) : old[i].id = ms[j].id
        BY <2>3, <2>6, <3>2 DEF Registered
      <4>2. QED
        BY <2>5, <3>2, <4>1 DEF Replaces
    <3>3. QED
      BY <3>1, <3>2
  <2>9. ASSUME NEW i \in 1..Len(list), \A j \in 1..k : ms[j].id # list[i].id
        PROVE  \E x \in 1..Len(new) : new[x] = list[i]
    <3>1. PICK x \in 1..Len(old) : old[x] = list[i]
      BY <2>3, <2>6, <2>9 DEF Registered
    <3>2. QED
      BY <2>5, <2>6, <2>9, <3>1 DEF Replaces
  <2>10. ASSUME NEW p, NEW launch, Leads(list, p, launch), \A j \in 1..k : ms[j].id # p.id
         PROVE  Leads(new, p, launch)
    <3>1. Leads(old, p, launch)
      BY <2>3, <2>6, <2>10 DEF Registered
    <3>2. QED
      BY <2>5, <2>6, <2>10, <3>1 DEF Replaces
  <2>11. ASSUME list = <<>>, Distinct(ms)
         PROVE  Len(new) = k /\ \A i \in 1..k : new[i] = ms[i]
    <3>1. Len(old) = k - 1 /\ \A i \in 1..(k - 1) : old[i] = ms[i]
      BY <2>3, <2>11 DEF Registered
    <3>2. \A i \in 1..(k - 1) : old[i].id # ms[k].id
      <4>1. \A i \in 1..(k - 1) : i \in 1..Len(ms) /\ i # k /\ k \in 1..Len(ms)
        BY <1>1
      <4>2. QED
        BY <2>11, <3>1, <4>1 DEF Distinct
    <3>3. Len(new) = k - 1 + 1 /\ new[k - 1 + 1] = ms[k] /\ \A i \in 1..(k - 1) : new[i] = old[i]
      BY <2>5, <3>1, <3>2 DEF Replaces
    <3>4. k - 1 + 1 = k
      OBVIOUS
    <3>5. QED
      BY <2>6, <3>1, <3>3, <3>4
  <2>12. Registered(list, ms, k, new)
    BY <2>5, <2>7, <2>8, <2>9, <2>10, <2>11 DEF Registered, Replaces
  <2>13. QED
    BY <2>4, <2>12
<1>6. n \in P
  <2> HIDE DEF P
  <2>1. \A k \in 0..n : k \in P
    BY <1>4, <1>5, CountUp
  <2>2. QED
    BY <2>1
<1>7. QED
  BY <1>1, <1>2, <1>6

\* The gateway keeps the whole of a list without two manifests of one id.
LEMMA GatewayFacts ==
  ASSUME NEW B, NEW list \in Seq(B), Distinct(list)
  PROVE  GatewayList(list) = list
<1>1. PICK n \in Nat : n = Len(list) /\ DOMAIN list = 1..n
  BY LenProperties
<1>2. PICK h \in [0..n -> Seq(B)] :
        /\ h[0] = <<>> /\ GatewayList(list) = h[n]
        /\ \A k \in 1..n :
             h[k] = IF list[k].id \in IdsOf(h[k - 1]) THEN h[k - 1] ELSE Append(h[k - 1], list[k])
  <2>1. \E h : GatewayRounds(B, list, n, h)
    BY <1>1, GatewaySteps
  <2>2. QED
    BY <2>1 DEF GatewayRounds
<1>3. \A k \in 1..n : list[k] \in B
  BY <1>1, ElementOfSeq
<1> DEFINE P == {k \in 0..n : Len(h[k]) = k /\ \A i \in 1..k : h[k][i] = list[i]}
<1>4. 0 \in P
  BY <1>2
<1>5. ASSUME NEW k \in 1..n, k - 1 \in P PROVE k \in P
  <2>1. PICK old \in Seq(B) : old = h[k - 1]
    BY <1>2
  <2>2. Len(old) = k - 1 /\ \A i \in 1..(k - 1) : old[i] = list[i]
    BY <1>5, <2>1
  <2>3. list[k].id \notin IdsOf(old)
    <3>1. DOMAIN old = 1..(k - 1)
      BY <2>2, LenProperties
    <3>2. \A i \in 1..(k - 1) : i \in 1..Len(list) /\ i # k /\ k \in 1..Len(list)
      BY <1>1
    <3>3. QED
      BY <2>2, <3>1, <3>2 DEF IdsOf, Distinct
  <2>4. h[k] = Append(old, list[k])
    BY <1>2, <2>1, <2>3
  <2>5. /\ Len(Append(old, list[k])) = Len(old) + 1
        /\ Append(old, list[k])[Len(old) + 1] = list[k]
        /\ \A i \in 1..Len(old) : Append(old, list[k])[i] = old[i]
    BY <1>3, AppendProperties
  <2>6. Len(h[k]) = k /\ h[k][k] = list[k] /\ \A i \in 1..(k - 1) : h[k][i] = list[i]
    <3>1. k - 1 + 1 = k
      OBVIOUS
    <3>2. QED
      BY <2>2, <2>4, <2>5, <3>1
  <2>7. \A i \in 1..k : i \in 1..(k - 1) \/ i = k
    OBVIOUS
  <2>8. QED
    BY <2>6, <2>7
<1>6. n \in P
  <2> HIDE DEF P
  <2>1. \A k \in 0..n : k \in P
    BY <1>4, <1>5, CountUp
  <2>2. QED
    BY <2>1
<1>7. QED
  <2>1. h[n] \in Seq(B) /\ Len(h[n]) = Len(list) /\ \A i \in 1..Len(list) : h[n][i] = list[i]
    BY <1>1, <1>2, <1>6
  <2>2. QED
    BY <1>2, <2>1, SeqEqual

-----------------------------------------------------------------------------
(* What an environment variable does to a manifest *)

FromEnv(m) == [m EXCEPT !.adapter.parts[1] = "from-env"]

\* The manifests a registry can hold.
Registrable == Manifests \cup {FromEnv(m) : m \in Manifests}

\* What does not change when a command is replaced.
Named(m, p) == p.id = m.id /\ p.types = m.types /\ p.exts = m.exts

\* A command from the environment replaces nothing else of a manifest, and once is enough.
LEMMA ManifestFacts ==
  ASSUME NEW m \in Manifests
  PROVE  /\ Named(m, FromEnv(m)) /\ FromEnv(FromEnv(m)) = FromEnv(m)
         /\ None \notin {m.id} \cup m.types \cup m.exts
<1>1. WellFormed(m)
  BY RoutingAssumption
<1>2. PICK id, types, exts, transport, parts, origin :
        /\ m = [id |-> id, types |-> types, exts |-> exts,
                adapter |-> [transport |-> transport, parts |-> parts], origin |-> origin]
        /\ None \notin {m.id} \cup m.types \cup m.exts
  BY <1>1 DEF WellFormed
<1> DEFINE env == [parts EXCEPT ![1] = "from-env"]
<1>3. FromEnv(m) = [id |-> id, types |-> types, exts |-> exts,
                    adapter |-> [transport |-> transport, parts |-> env], origin |-> origin]
  BY <1>2 DEF FromEnv
<1>4. [env EXCEPT ![1] = "from-env"] = env
  OBVIOUS
<1> HIDE DEF env
<1>5. FromEnv(FromEnv(m)) = FromEnv(m)
  BY <1>3, <1>4, ZenonT(40) DEF FromEnv
<1>6. Named(m, FromEnv(m))
  BY <1>2, <1>3 DEF Named
<1>7. QED
  BY <1>2, <1>5, <1>6

\* The same of what a registry may hold.
LEMMA RegistrableFacts ==
  ASSUME NEW p \in Registrable
  PROVE  /\ PatchAdapter(p) \in Registrable /\ Named(p, PatchAdapter(p))
         /\ PatchAdapter(PatchAdapter(p)) = PatchAdapter(p)
         /\ None \notin {p.id} \cup p.types \cup p.exts
<1>1. PICK m \in Manifests : p = m \/ p = FromEnv(m)
  BY DEF Registrable
<1>2. /\ Named(m, FromEnv(m)) /\ FromEnv(FromEnv(m)) = FromEnv(m)
      /\ None \notin {m.id} \cup m.types \cup m.exts
  BY ManifestFacts
<1>3. m \in Registrable /\ FromEnv(m) \in Registrable /\ Named(p, FromEnv(p))
      /\ FromEnv(p) = FromEnv(m)
  BY <1>1, <1>2 DEF Registrable, Named
<1>4. PatchAdapter(p) = IF p.id \in overrides THEN FromEnv(p) ELSE p
  BY DEF PatchAdapter, FromEnv
<1>5. FromEnv(p).id = p.id
  BY <1>3 DEF Named
<1>6. PatchAdapter(FromEnv(p)) = IF p.id \in overrides THEN FromEnv(p) ELSE FromEnv(p)
  <2>1. PatchAdapter(FromEnv(p)) =
          IF FromEnv(p).id \in overrides THEN FromEnv(FromEnv(p)) ELSE FromEnv(p)
    BY DEF PatchAdapter, FromEnv
  <2>2. QED
    BY <1>2, <1>3, <1>5, <2>1
<1>7. PatchAdapter(PatchAdapter(p)) = PatchAdapter(p)
  BY <1>4, <1>6
<1>8. PatchAdapter(p) \in Registrable /\ Named(p, PatchAdapter(p))
  BY <1>1, <1>3, <1>4 DEF Named
<1>9. None \notin {p.id} \cup p.types \cup p.exts
  BY <1>1, <1>2 DEF Named
<1>10. QED
  BY <1>7, <1>8, <1>9

\* patch_registry_from_env replaces commands and keeps the order.
LEMMA PatchFacts ==
  ASSUME NEW list \in Seq(Registrable), Distinct(list), NEW new, new = PatchRegistry(list)
  PROVE  /\ new \in Seq(Registrable) /\ Distinct(new) /\ Len(new) = Len(list)
         /\ \A i \in 1..Len(list) : new[i] = PatchAdapter(list[i])
<1>1. PICK n \in Nat : n = Len(list) /\ DOMAIN list = 1..n
  BY LenProperties
<1> DEFINE ms == [i \in DOMAIN list |-> PatchAdapter(list[i])]
<1>2. \A i \in 1..n : /\ list[i] \in Registrable /\ PatchAdapter(list[i]) \in Registrable
                      /\ PatchAdapter(list[i]).id = list[i].id
  <2>1. \A i \in 1..n : list[i] \in Registrable
    BY <1>1, ElementOfSeq
  <2>2. QED
    BY <2>1, RegistrableFacts DEF Named
<1>3. ms \in Seq(Registrable) /\ Len(ms) = n /\ \A i \in 1..n : ms[i] = PatchAdapter(list[i])
  BY <1>1, <1>2
<1>4. new = RegisterAll(<<>>, ms)
  BY DEF PatchRegistry
<1> HIDE DEF ms
<1>5. Distinct(ms)
  BY <1>1, <1>2, <1>3 DEF Distinct
<1>6. <<>> \in Seq(Registrable) /\ Distinct(<<>>)
  <2>1. Len(<<>>) = 0
    OBVIOUS
  <2>2. QED
    BY <2>1 DEF Distinct
<1>7. new \in Seq(Registrable) /\ Registered(<<>>, ms, n, new)
  BY <1>3, <1>4, <1>6, RegisterAllFacts
<1>8. QED
  BY <1>1, <1>3, <1>5, <1>7 DEF Registered

-----------------------------------------------------------------------------
(* Routes *)

\* Without two manifests of one id, find gives every one of the list.
LEMMA GetFacts ==
  ASSUME NEW B, NEW list \in Seq(B), Distinct(list), NEW i \in 1..Len(list)
  PROVE  list[i].id \in IdsOf(list) /\ Get(list, list[i].id) = list[i]
<1>1. PICK n \in Nat : n = Len(list) /\ DOMAIN list = 1..n
  BY LenProperties
<1> DEFINE S == {j \in DOMAIN list : list[j].id = list[i].id}
<1>2. S = {i}
  BY <1>1 DEF Distinct
<1>3. Min(S) = i
  <2>1. {i} \in SUBSET Nat
    BY <1>1
  <2>2. Min({i}) \in {i}
    BY <2>1, MinLemma
  <2>3. QED
    BY <1>2, <2>2
<1>4. list[i].id \in IdsOf(list)
  BY <1>1 DEF IdsOf
<1>5. QED
  BY <1>3, <1>4 DEF Get

\* find gives nothing for an id that is not in the list.
LEMMA GetNone ==
  ASSUME NEW list, NEW id, id \notin IdsOf(list)
  PROVE  Get(list, id) = None
BY DEF Get

\* What matches a launch is what claims it.
LEMMA ClaimIsMatch ==
  ASSUME NEW p \in Registrable, NEW launch, launch.adapter = None
  PROVE  Claims(p, launch) <=> Matches(p, launch)
<1>1. None \notin p.types /\ None \notin p.exts
  BY RegistrableFacts
<1>2. QED
  BY <1>1 DEF Claims, Matches, LaunchType

\* The first that matches a launch serves it.
LEMMA RouteOfFirst ==
  ASSUME NEW list \in Seq(Registrable), Distinct(list), NEW p, NEW launch,
         launch.adapter = None, Leads(list, p, launch)
  PROVE  Route(list, launch) = p
<1>1. PICK n \in Nat : n = Len(list) /\ DOMAIN list = 1..n
  BY LenProperties
<1>2. PICK i \in 1..n : /\ list[i] = p /\ Matches(p, launch)
                        /\ \A j \in 1..(i - 1) : ~Matches(list[j], launch)
  BY <1>1 DEF Leads
<1> DEFINE matching == {j \in DOMAIN list : Matches(list[j], launch)}
<1>3. matching \in SUBSET Nat /\ i \in matching /\ \A j \in matching : i <= j
  <2>1. \A j \in 1..n : i <= j \/ j \in 1..(i - 1)
    OBVIOUS
  <2>2. QED
    BY <1>1, <1>2, <2>1
<1> HIDE DEF matching
<1>4. Min(matching) = i
  <2>1. PICK a \in matching : a = Min(matching) /\ \A j \in matching : a <= j
    BY <1>3, MinLemma
  <2>2. a \in Nat /\ i \in Nat /\ a <= i /\ i <= a
    BY <1>3, <2>1
  <2>3. a = i
    BY <2>2
  <2>4. QED
    BY <2>1, <2>3
<1>5. GatewayList(list) = list
  BY GatewayFacts
<1>6. FirstMatch(list, launch) = list[i].id
  BY <1>3, <1>4 DEF FirstMatch, matching
<1>7. Resolve(list, launch) = list[i].id
  BY <1>5, <1>6 DEF Resolve
<1>8. QED
  BY <1>1, <1>2, <1>7, GetFacts DEF Route

\* A launch that nothing matches goes to the default.
LEMMA RouteWithoutMatch ==
  ASSUME NEW list \in Seq(Registrable), Distinct(list), NEW launch, launch.adapter = None,
         \A i \in 1..Len(list) : ~Matches(list[i], launch)
  PROVE  Route(list, launch) = Get(list, "fake")
<1>1. PICK n \in Nat : n = Len(list) /\ DOMAIN list = 1..n
  BY LenProperties
<1>2. GatewayList(list) = list
  BY GatewayFacts
<1>3. Resolve(list, launch) = DefaultPlugin(list)
  BY <1>1, <1>2 DEF Resolve, FirstMatch
<1>4. CASE "fake" \in IdsOf(list)
  BY <1>3, <1>4 DEF DefaultPlugin, Route
<1>5. CASE "fake" \notin IdsOf(list)
  <2>1. None \notin IdsOf(list)
    BY <1>1, ElementOfSeq, RegistrableFacts DEF IdsOf
  <2>2. QED
    BY <1>3, <1>5, <2>1, GetNone DEF DefaultPlugin, Route
<1>6. QED
  BY <1>4, <1>5

\* A launch that names its plugin goes there or nowhere.
LEMMA RouteByName ==
  ASSUME NEW list \in Seq(Registrable), Distinct(list), NEW launch, launch.adapter # None
  PROVE  Route(list, launch) = Get(list, launch.adapter)
<1>1. PICK n \in Nat : n = Len(list) /\ DOMAIN list = 1..n
  BY LenProperties
<1>2. GatewayList(list) = list
  BY GatewayFacts
<1>3. CASE launch.adapter \in IdsOf(list)
  BY <1>2, <1>3 DEF Resolve, Route
<1>4. CASE launch.adapter \notin IdsOf(list)
  <2>1. None \notin IdsOf(list)
    BY <1>1, ElementOfSeq, RegistrableFacts DEF IdsOf
  <2>2. QED
    BY <1>2, <1>4, <2>1, GetNone DEF Resolve, Route
<1>5. QED
  BY <1>3, <1>4

\* A launch without a name goes to the first that matches or to fake.
LEMMA FirstExists ==
  ASSUME NEW list \in Seq(Registrable), NEW launch, NEW k \in 1..Len(list),
         Matches(list[k], launch)
  PROVE  \E p : Leads(list, p, launch)
<1>1. PICK n \in Nat : n = Len(list)
  BY LenProperties
<1> DEFINE S == {j \in 1..n : Matches(list[j], launch)}
<1>2. S \in SUBSET Nat /\ k \in S
  BY <1>1
<1>3. PICK i \in S : \A j \in S : i <= j
  BY <1>2, LeastNumber
<1>4. \A j \in 1..(i - 1) : j \in 1..n /\ ~(i <= j)
  BY <1>3
<1>5. Leads(list, list[i], launch)
  BY <1>1, <1>3, <1>4 DEF Leads
<1>6. QED
  BY <1>5

-----------------------------------------------------------------------------
(* The invariant *)

\* A plugin is the manifest registered last under its id, patched.
Recorded(p) ==
  /\ p.id \in DOMAIN latest /\ latest[p.id].manifest \in Manifests
  /\ p = PatchAdapter(latest[p.id].manifest)

RoutesInv ==
  /\ loads \in Nat
  /\ plugins \in Seq(Registrable) /\ Distinct(plugins)
  /\ \A i \in 1..Len(plugins) : Recorded(plugins[i])
  /\ \A id \in DOMAIN latest : latest[id].load \in 0..loads

\* p is a plugin that ms leaves alone, or the last of ms with its id.
Kept(p, ms) ==
  \/ p.id \notin IdsOf(ms) /\ \E i \in 1..Len(plugins) : p = plugins[i]
  \/ \E j \in 1..Len(ms) :
       p = PatchAdapter(ms[j]) /\ \A l \in 1..Len(ms) : l > j => ms[l].id # ms[j].id

\* What a step does that registers the manifests ms.
Registers(ms) ==
  /\ ms \in Seq(Manifests) /\ Loaded(ms) /\ overrides' = overrides
  /\ plugins' \in Seq(Registrable) /\ Distinct(plugins')
  /\ \A x \in 1..Len(plugins') : Kept(plugins'[x], ms)
  /\ \A i \in 1..Len(plugins) :
       plugins[i].id \notin IdsOf(ms) =>
         /\ \E x \in 1..Len(plugins') : plugins'[x] = plugins[i]
         /\ \A launch : Leads(plugins, plugins[i], launch) => Leads(plugins', plugins[i], launch)

\* load_from_dir lists manifests of its directory.
LEMMA ListingType ==
  ASSUME NEW dir \in Dirs, NEW list \in Listings(dir)
  PROVE  list \in Seq(Manifests)
<1>1. Cardinality(dir) \in Nat
  BY RoutingAssumption, FS_CardinalityType
<1>2. list \in [1..Cardinality(dir) -> dir]
  BY DEF Listings, SetToSeqs
<1>3. \A m \in dir : m \in Manifests
  BY DEF Manifests
<1>4. list \in [1..Cardinality(dir) -> Manifests]
  BY <1>2, <1>3
<1>5. QED
  BY <1>1, <1>4

\* What is loaded may be registered.
LEMMA ManifestsRegistrable ==
  ASSUME NEW ms \in Seq(Manifests)
  PROVE  /\ ms \in Seq(Registrable) /\ Len(ms) \in Nat /\ DOMAIN ms = 1..Len(ms)
         /\ \A j \in 1..Len(ms) : ms[j] \in Manifests /\ ms[j] \in Registrable
<1>1. /\ Len(ms) \in Nat /\ DOMAIN ms = 1..Len(ms)
      /\ \A j \in 1..Len(ms) : ms[j] \in Manifests
  BY LenProperties, ElementOfSeq
<1>2. \A j \in 1..Len(ms) : ms[j] \in Registrable
  BY <1>1 DEF Registrable
<1>3. ms \in Seq(Registrable)
  <2>1. PICK n \in Nat : n = Len(ms) /\ ms \in [1..n -> Manifests]
    BY LenProperties
  <2>2. ms \in [1..n -> Registrable]
    BY <1>2, <2>1
  <2>3. QED
    BY <2>2
<1>4. QED
  BY <1>1, <1>2, <1>3

\* What is recorded has the command from the environment already.
LEMMA RecordedIsPatched ==
  ASSUME NEW p, Recorded(p)
  PROVE  PatchAdapter(p) = p
<1>1. PICK m \in Manifests : p = PatchAdapter(m)
  BY DEF Recorded
<1>2. m \in Registrable
  BY DEF Registrable
<1>3. QED
  BY <1>1, <1>2, RegistrableFacts

\* Loading a directory registers a list of manifests.
LEMMA LoadStep ==
  ASSUME RoutesInv, LoadPlugins
  PROVE  \E ms : Registers(ms)
<1>1. PICK dir \in Dirs :
        \E list \in Listings(dir) : /\ plugins' = PatchRegistry(RegisterAll(plugins, list))
                                    /\ Loaded(list) /\ overrides' = overrides
  BY DEF LoadPlugins
<1>2. PICK ms \in Seq(Manifests) : /\ plugins' = PatchRegistry(RegisterAll(plugins, ms))
                                   /\ Loaded(ms) /\ overrides' = overrides
  BY <1>1, ListingType
<1>3. /\ ms \in Seq(Registrable) /\ DOMAIN ms = 1..Len(ms)
      /\ \A j \in 1..Len(ms) : ms[j] \in Registrable
  BY <1>2, ManifestsRegistrable
<1>4. plugins \in Seq(Registrable) /\ Distinct(plugins)
  BY DEF RoutesInv
<1>5. PICK mid \in Seq(Registrable) :
        mid = RegisterAll(plugins, ms) /\ Registered(plugins, ms, Len(ms), mid)
  BY <1>3, <1>4, RegisterAllFacts
<1>6. /\ plugins' \in Seq(Registrable) /\ Distinct(plugins') /\ Len(plugins') = Len(mid)
      /\ \A x \in 1..Len(mid) : plugins'[x] = PatchAdapter(mid[x])
  BY <1>2, <1>5, PatchFacts DEF Registered
<1>7. \A i \in 1..Len(plugins) : PatchAdapter(plugins[i]) = plugins[i]
  BY RecordedIsPatched DEF RoutesInv
<1>8. \A id : id \notin IdsOf(ms) <=> \A j \in 1..Len(ms) : ms[j].id # id
  BY <1>3 DEF IdsOf
<1>9. ASSUME NEW x \in 1..Len(mid) PROVE Kept(plugins'[x], ms)
  <2>1. \/ /\ \E i \in 1..Len(plugins) : mid[x] = plugins[i]
           /\ \A j \in 1..Len(ms) : ms[j].id # mid[x].id
        \/ \E j \in 1..Len(ms) :
             mid[x] = ms[j] /\ \A l \in 1..Len(ms) : l > j => ms[l].id # ms[j].id
    BY <1>5 DEF Registered
  <2>2. CASE /\ \E i \in 1..Len(plugins) : mid[x] = plugins[i]
             /\ \A j \in 1..Len(ms) : ms[j].id # mid[x].id
    <3>1. plugins'[x] = mid[x]
      BY <1>6, <1>7, <2>2
    <3>2. mid[x].id \notin IdsOf(ms)
      BY <1>8, <2>2
    <3>3. QED
      BY <2>2, <3>1, <3>2 DEF Kept
  <2>3. CASE \E j \in 1..Len(ms) :
               mid[x] = ms[j] /\ \A l \in 1..Len(ms) : l > j => ms[l].id # ms[j].id
    BY <1>6, <2>3 DEF Kept
  <2>4. QED
    BY <2>1, <2>2, <2>3
<1>10. ASSUME NEW i \in 1..Len(plugins), plugins[i].id \notin IdsOf(ms)
       PROVE  /\ \E x \in 1..Len(mid) : plugins'[x] = plugins[i]
              /\ \A launch : Leads(plugins, plugins[i], launch)
                               => Leads(plugins', plugins[i], launch)
  <2>1. \A j \in 1..Len(ms) : ms[j].id # plugins[i].id
    BY <1>8, <1>10
  <2>2. PICK x \in 1..Len(mid) : mid[x] = plugins[i]
    BY <1>5, <2>1 DEF Registered
  <2>3. plugins'[x] = plugins[i]
    BY <1>6, <1>7, <2>2
  <2>4. ASSUME NEW launch, Leads(plugins, plugins[i], launch)
        PROVE  Leads(plugins', plugins[i], launch)
    <3>1. Leads(mid, plugins[i], launch)
      BY <1>5, <2>1, <2>4 DEF Registered
    <3>2. PICK y \in 1..Len(mid) : /\ mid[y] = plugins[i] /\ Matches(plugins[i], launch)
                                   /\ \A j \in 1..(y - 1) : ~Matches(mid[j], launch)
      BY <3>1 DEF Leads
    <3>3. PICK n \in Nat : n = Len(mid)
      BY LenProperties
    <3>4. ASSUME NEW j \in 1..(y - 1) PROVE ~Matches(plugins'[j], launch)
      <4>1. j \in 1..n
        BY <3>3
      <4>2. plugins'[j] = PatchAdapter(mid[j]) /\ mid[j] \in Registrable
        BY <1>6, <3>3, <4>1, ElementOfSeq
      <4>3. Named(mid[j], plugins'[j])
        BY <4>2, RegistrableFacts
      <4>4. QED
        BY <3>2, <4>3 DEF Matches, Named
    <3>5. plugins'[y] = plugins[i]
      BY <1>6, <1>7, <3>2
    <3>6. QED
      BY <1>6, <3>2, <3>4, <3>5 DEF Leads
  <2>5. QED
    BY <2>3, <2>4
<1>11. QED
  BY <1>2, <1>6, <1>9, <1>10 DEF Registers

\* Registering one manifest is registering a list of one.
LEMMA RegisterStep ==
  ASSUME RoutesInv, RegisterPlugin
  PROVE  \E ms : Registers(ms)
<1>1. PICK m \in Manifests :
        plugins' = Register(plugins, PatchAdapter(m)) /\ Loaded(<<m>>) /\ overrides' = overrides
  BY DEF RegisterPlugin
<1>2. PICK ms \in Seq(Manifests) : ms = <<m>> /\ Len(ms) = 1 /\ ms[1] = m /\ DOMAIN ms = 1..1
  <2>1. <<m>> \in Seq(Manifests) /\ Len(<<m>>) = 1 /\ <<m>>[1] = m
    OBVIOUS
  <2>2. DOMAIN <<m>> = 1..1
    BY <2>1, LenProperties
  <2>3. QED
    BY <2>1, <2>2
<1>3. PICK p \in Registrable : p = PatchAdapter(m) /\ p.id = m.id
  <2>1. m \in Registrable
    BY DEF Registrable
  <2>2. QED
    BY <2>1, RegistrableFacts DEF Named
<1>4. plugins \in Seq(Registrable) /\ Distinct(plugins)
  BY DEF RoutesInv
<1>5. plugins' \in Seq(Registrable) /\ Replaces(plugins, p, plugins')
  BY <1>1, <1>3, <1>4, RegisterFacts
<1>6. \A id : id \in IdsOf(ms) <=> id = m.id
  BY <1>2 DEF IdsOf
<1>7. 1 \in 1..Len(ms) /\ \A l \in 1..Len(ms) : ~(l > 1)
  BY <1>2
<1>8. ASSUME NEW x \in 1..Len(plugins') PROVE Kept(plugins'[x], ms)
  <2>1. CASE plugins'[x] = p
    BY <1>2, <1>3, <1>7, <2>1 DEF Kept
  <2>2. CASE plugins'[x] # p
    <3>1. plugins'[x].id # p.id /\ \E i \in 1..Len(plugins) : plugins'[x] = plugins[i]
      BY <1>5, <2>2 DEF Replaces
    <3>2. QED
      BY <1>3, <1>6, <3>1 DEF Kept
  <2>3. QED
    BY <2>1, <2>2
<1>9. ASSUME NEW i \in 1..Len(plugins), plugins[i].id \notin IdsOf(ms)
      PROVE  /\ \E x \in 1..Len(plugins') : plugins'[x] = plugins[i]
             /\ \A launch : Leads(plugins, plugins[i], launch)
                              => Leads(plugins', plugins[i], launch)
  BY <1>3, <1>5, <1>6, <1>9 DEF Replaces
<1>10. Distinct(plugins')
  BY <1>5 DEF Replaces
<1>11. QED
  BY <1>1, <1>2, <1>5, <1>8, <1>9, <1>10 DEF Registers

\* What the history records of a load.
LEMMA LoadedFacts ==
  ASSUME NEW ms \in Seq(Manifests), Loaded(ms), loads \in Nat
  PROVE  /\ loads' = loads + 1
         /\ \A id \in DOMAIN latest' :
              IF id \in IdsOf(ms)
                THEN latest'[id].load = loads + 1
                ELSE id \in DOMAIN latest /\ latest'[id] = latest[id]
         /\ \A id \in DOMAIN latest : id \in DOMAIN latest'
         /\ \A id \in IdsOf(ms) : id \in DOMAIN latest'
         /\ \A j \in 1..Len(ms) :
              (\A l \in 1..Len(ms) : l > j => ms[l].id # ms[j].id)
                => latest'[ms[j].id].manifest = ms[j]
<1>1. PICK n \in Nat : n = Len(ms) /\ DOMAIN ms = 1..n
  BY LenProperties
<1>2. loads' = loads + 1
  BY DEF Loaded
<1>3. /\ DOMAIN latest' = IdsOf(ms) \cup DOMAIN latest
      /\ \A id \in DOMAIN latest' :
           latest'[id] = IF id \in IdsOf(ms)
                           THEN [manifest |-> LastOf(ms, id), load |-> loads']
                           ELSE latest[id]
  BY DEF Loaded
<1>4. ASSUME NEW id \in DOMAIN latest'
      PROVE  IF id \in IdsOf(ms)
               THEN latest'[id].load = loads + 1
               ELSE id \in DOMAIN latest /\ latest'[id] = latest[id]
  <2>1. CASE id \in IdsOf(ms)
    <3>1. latest'[id] = [manifest |-> LastOf(ms, id), load |-> loads']
      BY <1>3, <2>1
    <3>2. latest'[id].load = loads'
      BY <3>1
    <3>3. QED
      BY <1>2, <2>1, <3>2
  <2>2. CASE id \notin IdsOf(ms)
    BY <1>3, <2>2
  <2>3. QED
    BY <2>1, <2>2
<1>5. ASSUME NEW j \in 1..n, \A l \in 1..n : l > j => ms[l].id # ms[j].id
      PROVE  latest'[ms[j].id].manifest = ms[j]
  <2>1. PICK S \in SUBSET (1..n) : S = {i \in DOMAIN ms : ms[i].id = ms[j].id}
    BY <1>1
  <2>2. j \in S
    BY <1>1, <2>1
  <2>3. PICK a \in S : a = Max(S) /\ \A x \in S : x <= a
    BY <2>2, LargestLemma
  <2>4. a \in 1..n /\ ms[a].id = ms[j].id /\ j <= a
    BY <2>1, <2>2, <2>3
  <2>5. a = j
    BY <1>5, <2>4
  <2>6. ms[j].id \in IdsOf(ms)
    BY <1>1 DEF IdsOf
  <2>7. LastOf(ms, ms[j].id) = ms[j]
    BY <2>1, <2>3, <2>5 DEF LastOf
  <2>8. latest'[ms[j].id] = [manifest |-> LastOf(ms, ms[j].id), load |-> loads']
    BY <1>3, <2>6
  <2>9. QED
    BY <2>7, <2>8
<1>6. QED
  BY <1>1, <1>2, <1>3, <1>4, <1>5

\* Every registration keeps the invariant.
LEMMA RegistersKeepsInv ==
  ASSUME RoutesInv, NEW ms, Registers(ms)
  PROVE  RoutesInv'
<1>1. /\ ms \in Seq(Manifests) /\ Loaded(ms) /\ overrides' = overrides
      /\ plugins' \in Seq(Registrable) /\ Distinct(plugins')
  BY DEF Registers
<1>2. /\ ms \in Seq(Registrable) /\ DOMAIN ms = 1..Len(ms)
      /\ \A j \in 1..Len(ms) : ms[j] \in Manifests /\ ms[j] \in Registrable
  BY <1>1, ManifestsRegistrable
<1>3. PICK n \in Nat : n = loads
  BY DEF RoutesInv
<1>4. /\ loads' = n + 1
      /\ \A id \in DOMAIN latest' :
           IF id \in IdsOf(ms)
             THEN latest'[id].load = n + 1
             ELSE id \in DOMAIN latest /\ latest'[id] = latest[id]
      /\ \A id \in DOMAIN latest : id \in DOMAIN latest'
      /\ \A id \in IdsOf(ms) : id \in DOMAIN latest'
      /\ \A j \in 1..Len(ms) :
           (\A l \in 1..Len(ms) : l > j => ms[l].id # ms[j].id)
             => latest'[ms[j].id].manifest = ms[j]
  BY <1>1, <1>3, LoadedFacts
<1>5. \A m : PatchAdapter(m)' = PatchAdapter(m)
  BY <1>1 DEF PatchAdapter
<1>6. ASSUME NEW x \in 1..Len(plugins') PROVE Recorded(plugins[x])'
  <2>1. PICK p : p = plugins'[x]
    OBVIOUS
  <2>2. Kept(p, ms)
    BY <2>1 DEF Registers
  <2>3. CASE p.id \notin IdsOf(ms) /\ \E i \in 1..Len(plugins) : p = plugins[i]
    <3>1. Recorded(p)
      BY <2>3 DEF RoutesInv
    <3>2. p.id \in DOMAIN latest' /\ latest'[p.id] = latest[p.id]
      BY <1>4, <2>3, <3>1 DEF Recorded
    <3>3. QED
      BY <1>5, <2>1, <3>1, <3>2 DEF Recorded
  <2>4. CASE \E j \in 1..Len(ms) :
               p = PatchAdapter(ms[j]) /\ \A l \in 1..Len(ms) : l > j => ms[l].id # ms[j].id
    <3>1. PICK j \in 1..Len(ms) :
            p = PatchAdapter(ms[j]) /\ \A l \in 1..Len(ms) : l > j => ms[l].id # ms[j].id
      BY <2>4
    <3>2. p.id = ms[j].id
      BY <1>2, <3>1, RegistrableFacts DEF Named
    <3>3. p.id \in DOMAIN latest'
      BY <1>2, <1>4, <3>2 DEF IdsOf
    <3>4. latest'[p.id].manifest = ms[j] /\ ms[j] \in Manifests
      BY <1>2, <1>4, <3>1, <3>2
    <3>5. p = PatchAdapter(latest'[p.id].manifest)
      BY <3>1, <3>4
    <3>6. QED
      BY <1>5, <2>1, <3>3, <3>4, <3>5 DEF Recorded
  <2>5. QED
    BY <2>2, <2>3, <2>4 DEF Kept
<1>7. ASSUME NEW id \in DOMAIN latest' PROVE latest'[id].load \in 0..(n + 1)
  <2>1. CASE id \in IdsOf(ms)
    BY <1>4, <2>1
  <2>2. CASE id \notin IdsOf(ms)
    <3>1. id \in DOMAIN latest /\ latest'[id] = latest[id]
      BY <1>4, <2>2
    <3>2. latest[id].load \in 0..n
      BY <1>3, <3>1 DEF RoutesInv
    <3>3. QED
      BY <3>1, <3>2
  <2>3. QED
    BY <2>1, <2>2
<1>8. QED
  <2>1. /\ (loads \in Nat)'
        /\ (plugins \in Seq(Registrable))' /\ Distinct(plugins)'
    BY <1>1, <1>4 DEF Distinct
  <2>2. QED
    BY <1>4, <1>6, <1>7, <2>1 DEF RoutesInv

(* Whatever is loaded and registered, an engine's registry has no two       *)
(* manifests of one id, each is the one registered last under its id, and  *)
(* the environment's commands are in it (registry.rs, engine.rs).          *)
THEOREM RoutesInvariant ==
  RoutesSpec => []RoutesInv
<1>1. RoutesInit => RoutesInv
  <2> SUFFICES ASSUME RoutesInit PROVE RoutesInv
    OBVIOUS
  <2>1. plugins \in Seq(Registrable) /\ Len(plugins) = 0
    BY EmptySeq DEF RoutesInit
  <2>2. DOMAIN latest = {} /\ loads = 0
    BY DEF RoutesInit
  <2>3. QED
    BY <2>1, <2>2 DEF RoutesInv, Distinct
<1>2. RoutesInv /\ [RoutesNext]_routesVars => RoutesInv'
  <2> SUFFICES ASSUME RoutesInv, [RoutesNext]_routesVars PROVE RoutesInv'
    OBVIOUS
  <2>1. CASE LoadPlugins
    BY <2>1, LoadStep, RegistersKeepsInv
  <2>2. CASE RegisterPlugin
    BY <2>2, RegisterStep, RegistersKeepsInv
  <2>3. CASE UNCHANGED routesVars
    BY <2>3 DEF RoutesInv, routesVars, Recorded, PatchAdapter, Distinct
  <2>4. QED
    BY <2>1, <2>2, <2>3 DEF RoutesNext
<1>3. QED
  BY <1>1, <1>2, PTL DEF RoutesSpec

\* A route that is not None leads to a plugin of the list.
LEMMA RouteIsPlugin ==
  ASSUME NEW list \in Seq(Registrable), Distinct(list), NEW launch, Route(list, launch) # None
  PROVE  \E i \in 1..Len(list) : list[i] = Route(list, launch)
<1>1. DOMAIN list = 1..Len(list)
  BY LenProperties
<1>2. ASSUME NEW id, Get(list, id) # None
      PROVE  \E i \in 1..Len(list) : list[i] = Get(list, id)
  <2>1. PICK i \in 1..Len(list) : list[i].id = id
    BY <1>1, <1>2, GetNone DEF IdsOf
  <2>2. QED
    BY <2>1, GetFacts
<1>3. QED
  BY <1>2 DEF Route

(* LaunchServed: a launch goes to the plugin it names, to one that claims   *)
(* it, or to the default, as it was registered last (engine.rs, router).   *)
THEOREM LaunchesServed ==
  RoutesSpec => []LaunchServed
<1>1. RoutesInv => LaunchServed
  <2> SUFFICES ASSUME RoutesInv, NEW launch \in Launches
               PROVE  /\ LET manifest == Route(plugins, launch)
                             claimants == {p \in ToSet(plugins) : Claims(p, launch)} IN
                         IF launch.adapter /= None
                           THEN manifest = Get(plugins, launch.adapter)
                           ELSE IF claimants /= {}
                                  THEN manifest \in claimants
                                  ELSE manifest = Get(plugins, "fake")
                      /\ LET manifest == Route(plugins, launch) IN
                         manifest /= None => manifest = PatchAdapter(latest[manifest.id].manifest)
    BY DEF LaunchServed, RouteFollowsRules, LatestManifestServes
  <2>1. plugins \in Seq(Registrable) /\ Distinct(plugins)
    BY DEF RoutesInv
  <2>2. PICK n \in Nat : n = Len(plugins) /\ DOMAIN plugins = 1..n
    BY <2>1, LenProperties
  <2>3. \A i \in 1..n : plugins[i] \in Registrable
    BY <2>1, <2>2, ElementOfSeq
  <2> DEFINE claimants == {p \in ToSet(plugins) : Claims(p, launch)}
  <2>4. \A p : p \in claimants <=> Claims(p, launch) /\ \E i \in 1..n : p = plugins[i]
    BY <2>2 DEF ToSet
  <2> HIDE DEF claimants
  <2>5. ASSUME launch.adapter # None
        PROVE  Route(plugins, launch) = Get(plugins, launch.adapter)
    BY <2>1, <2>5, RouteByName
  <2>6. ASSUME launch.adapter = None, claimants # {}
        PROVE  Route(plugins, launch) \in claimants
    <3>1. PICK k \in 1..n : Claims(plugins[k], launch)
      BY <2>4, <2>6
    <3>2. Matches(plugins[k], launch)
      BY <2>3, <2>6, <3>1, ClaimIsMatch
    <3>3. PICK p : Leads(plugins, p, launch)
      BY <2>1, <2>2, <3>2, FirstExists
    <3>4. Route(plugins, launch) = p
      BY <2>1, <2>6, <3>3, RouteOfFirst
    <3>5. PICK i \in 1..n : plugins[i] = p /\ Matches(p, launch)
      BY <2>2, <3>3 DEF Leads
    <3>6. Claims(p, launch)
      BY <2>3, <2>6, <3>5, ClaimIsMatch
    <3>7. QED
      BY <2>4, <3>4, <3>5, <3>6
  <2>7. ASSUME launch.adapter = None, claimants = {}
        PROVE  Route(plugins, launch) = Get(plugins, "fake")
    <3>1. \A i \in 1..n : ~Matches(plugins[i], launch)
      BY <2>3, <2>4, <2>7, ClaimIsMatch
    <3>2. QED
      BY <2>1, <2>2, <2>7, <3>1, RouteWithoutMatch
  <2>8. ASSUME Route(plugins, launch) # None
        PROVE  Route(plugins, launch)
                 = PatchAdapter(latest[Route(plugins, launch).id].manifest)
    <3>1. PICK i \in 1..n : plugins[i] = Route(plugins, launch)
      BY <2>1, <2>2, <2>8, RouteIsPlugin
    <3>2. Recorded(plugins[i])
      BY <2>2 DEF RoutesInv
    <3>3. QED
      BY <3>1, <3>2 DEF Recorded
  <2>9. QED
    BY <2>5, <2>6, <2>7, <2>8 DEF claimants
<1>2. QED
  BY <1>1, RoutesInvariant, PTL

(* OverrideTakesNothing: a registration takes no launch from a plugin that  *)
(* claims it and is not among those registered (PluginRegistry::register). *)
THEOREM LaunchesKeepTheirPlugin ==
  RoutesSpec => OverrideTakesNothing
<1> DEFINE Stays(launch) ==
      LET before == Route(plugins, launch) IN
      (before /= None /\ Claims(before, launch) /\ latest'[before.id] = latest[before.id])
        => Route(plugins', launch) = before
<1>1. ASSUME RoutesInv, NEW ms, Registers(ms), NEW launch \in Launches PROVE Stays(launch)
  <2> DEFINE before == Route(plugins, launch)
  <2> SUFFICES ASSUME before # None, Claims(before, launch),
                      latest'[before.id] = latest[before.id]
               PROVE  Route(plugins', launch) = before
    OBVIOUS
  <2>1. /\ plugins \in Seq(Registrable) /\ Distinct(plugins)
        /\ plugins' \in Seq(Registrable) /\ Distinct(plugins')
    BY <1>1 DEF RoutesInv, Registers
  <2>2. PICK i \in 1..Len(plugins) : plugins[i] = before
    BY <2>1, RouteIsPlugin
  <2>3. before \in Registrable
    BY <2>1, <2>2, ElementOfSeq
  <2>4. before.id \notin IdsOf(ms)
    <3>1. PICK n \in Nat : n = loads
      BY <1>1 DEF RoutesInv
    <3>2. before.id \in DOMAIN latest
      BY <1>1, <2>2 DEF RoutesInv, Recorded
    <3>3. latest[before.id].load \in 0..n
      BY <1>1, <3>1, <3>2 DEF RoutesInv
    <3>4. before.id \in IdsOf(ms) => latest'[before.id].load = n + 1
      BY <1>1, <3>1, LoadedFacts DEF Registers
    <3>5. QED
      BY <3>3, <3>4
  <2>5. /\ \E x \in 1..Len(plugins') : plugins'[x] = before
        /\ Leads(plugins, before, launch) => Leads(plugins', before, launch)
    BY <1>1, <2>2, <2>4 DEF Registers
  <2>6. CASE launch.adapter # None
    <3>1. Get(plugins, launch.adapter) = before
      BY <2>1, <2>6, RouteByName
    <3>2. PICK k \in 1..Len(plugins) : plugins[k].id = launch.adapter
      <4>1. launch.adapter \in IdsOf(plugins)
        BY <3>1, GetNone
      <4>2. DOMAIN plugins = 1..Len(plugins)
        BY <2>1, LenProperties
      <4>3. QED
        BY <4>1, <4>2 DEF IdsOf
    <3>3. before.id = launch.adapter
      BY <2>1, <3>1, <3>2, GetFacts
    <3>4. Get(plugins', launch.adapter) = before
      BY <2>1, <2>5, <3>3, GetFacts
    <3>5. QED
      BY <2>1, <2>6, <3>4, RouteByName
  <2>7. CASE launch.adapter = None
    <3>1. Matches(before, launch)
      BY <2>3, <2>7, ClaimIsMatch
    <3>2. PICK p : Leads(plugins, p, launch)
      BY <2>1, <2>2, <3>1, FirstExists
    <3>3. before = p
      BY <2>1, <2>7, <3>2, RouteOfFirst
    <3>4. Leads(plugins', before, launch)
      BY <2>5, <3>2, <3>3
    <3>5. QED
      BY <2>1, <2>7, <3>4, RouteOfFirst
  <2>8. QED
    BY <2>6, <2>7
<1> HIDE DEF Stays
<1>2. ASSUME RoutesInv, [RoutesNext]_routesVars
      PROVE  [\A launch \in Launches : Stays(launch)]_routesVars
  <2>1. CASE LoadPlugins
    BY <1>1, <1>2, <2>1, LoadStep
  <2>2. CASE RegisterPlugin
    BY <1>1, <1>2, <2>2, RegisterStep
  <2>3. CASE UNCHANGED routesVars
    BY <2>3
  <2>4. QED
    BY <1>2, <2>1, <2>2, <2>3 DEF RoutesNext
<1>3. [][\A launch \in Launches : Stays(launch)]_routesVars <=> OverrideTakesNothing
  BY DEF Stays, OverrideTakesNothing
<1>4. QED
  BY <1>2, <1>3, RoutesInvariant, PTL DEF RoutesSpec

-----------------------------------------------------------------------------
\* Where a session may connect to.
Endpoint(s) ==
  s.cli.tcp # None => \/ s.cli.tcp = sessions[s.parent].cli.tcp
                      \/ s.cli.tcp.host = s.args.host /\ s.cli.tcp.port \in {s.args.port, 9}

\* What holds of the i-th session, and of its parent in relation to it.
Grown(i) ==
  LET s == sessions[i] IN
  /\ s.cli.depth \in Nat /\ s.cli.maxChildren = sessions[1].cli.maxChildren
  /\ s.cli.profile \in {"fake", "debugpy", "lldb-dap", "file"}
  /\ s.context.endpoint = s.cli.tcp
  /\ i = 1 => s.parent = 0
  /\ i # 1 => /\ s.parent \in 1..(i - 1)
              /\ s.cli.depth = sessions[s.parent].cli.depth - 1
              /\ Endpoint(s)
  /\ Cardinality(ChildrenOf(i)) <= s.cli.maxChildren

LaunchInv ==
  /\ sessions \in Seq(ToSet(sessions))
  /\ Len(sessions) > 0 => sessions[1].cli.maxChildren \in Nat
  /\ \A i \in 1..Len(sessions) : Grown(i)

\* What a plan tells of the session that makes it.
LEMMA PlanFacts ==
  ASSUME NEW s, NEW counted, NEW args, NEW plan, plan = Plan(s, counted, args), plan # None,
         s.cli.profile \in {"fake", "debugpy", "lldb-dap", "file"}
  PROVE  /\ BridgeDepth(s.cli) # 0 /\ ~(counted >= s.cli.maxChildren)
         /\ plan.depth = BridgeDepth(s.cli) - 1
         /\ plan.backend.tcp # None =>
              \/ plan.backend.tcp = s.context.endpoint
              \/ /\ plan.backend.tcp.host = args.host
                 /\ plan.backend.tcp.port \in {args.port, 9}
<1> DEFINE rules == Profile(s.cli.profile)
           fitting == {i \in DOMAIN rules : /\ RuleMatches(rules[i], s.context, args)
                                            /\ BackendCompatible(rules[i], s.context)}
           backend == ChildBackend(rules[Min(fitting)].backend, s.context, args)
<1>1. /\ BridgeDepth(s.cli) # 0 /\ ~(counted >= s.cli.maxChildren)
      /\ fitting # {} /\ backend # None
      /\ plan = [backend |-> backend, depth |-> ChildDepth(BridgeDepth(s.cli))]
  BY DEF Plan
<1>3. DOMAIN rules \in SUBSET (1..6) /\ \A i \in DOMAIN rules : rules[i].backend.port \in {None, 9}
  BY DEF Profile, Rule, Backend
<1> HIDE DEF rules, backend
<1>2. plan.backend = backend /\ plan.depth = BridgeDepth(s.cli) - 1
  BY <1>1 DEF ChildDepth
<1>4. Min(fitting) \in DOMAIN rules
  <2>1. fitting \in SUBSET Nat /\ fitting # {}
    BY <1>1, <1>3
  <2>2. Min(fitting) \in fitting
    BY <2>1, MinLemma
  <2>3. QED
    BY <2>2
<1>5. PICK t : t = rules[Min(fitting)].backend /\ t.port \in {None, 9}
  BY <1>3, <1>4
<1>6. backend = ChildBackend(t, s.context, args)
  BY <1>5 DEF backend
<1> HIDE DEF fitting
<1>7. ASSUME backend.tcp # None
      PROVE  \/ backend.tcp = s.context.endpoint
             \/ backend.tcp.host = args.host /\ backend.tcp.port \in {args.port, 9}
  <2>1. CASE t.type = "tcp"
    <3>1. PICK port : port = ResolvePort(t, args)
      OBVIOUS
    <3>2. port # None /\ backend = [tcp |-> [host |-> args.host, port |-> port], cmd |-> None]
      BY <1>1, <1>6, <2>1, <3>1 DEF ChildBackend
    <3>3. port \in {args.port, 9}
      BY <1>5, <3>1, <3>2 DEF ResolvePort
    <3>4. QED
      BY <3>2, <3>3
  <2>2. CASE t.type = "parent"
    BY <1>1, <1>6, <2>2 DEF ChildBackend
  <2>3. CASE t.type = "inherit"
    BY <1>6, <1>7, <2>3 DEF ChildBackend
  <2>4. CASE t.type = "stdio"
    BY <1>6, <1>7, <2>4 DEF ChildBackend
  <2>5. QED
    <3>1. t.type \in {"tcp", "parent", "inherit", "stdio"}
      BY <1>4, <1>5 DEF rules, Profile, Rule, Backend
    <3>2. QED
      BY <2>1, <2>2, <2>3, <2>4, <3>1
<1>8. QED
  BY <1>1, <1>2, <1>7

\* The first session is the root of the tree.
LEMMA RootStep ==
  ASSUME LaunchInv, StartRoot
  PROVE  LaunchInv'
<1>1. PICK cli \in RootClis : sessions = <<>> /\ sessions' = <<Session(cli, 0, None)>>
  BY DEF StartRoot
<1>2. PICK s : s = Session(cli, 0, None)
  OBVIOUS
<1>3. /\ s.cli = cli /\ s.parent = 0 /\ s.context.endpoint = cli.tcp
  BY <1>2 DEF Session, ParentContext
<1>4. /\ sessions' = <<s>> /\ Len(<<s>>) = 1 /\ <<s>>[1] = s /\ DOMAIN <<s>> = 1..1
  BY <1>1, <1>2
<1>5. /\ cli.depth \in Nat /\ cli.maxChildren \in Nat
      /\ cli.profile \in {"fake", "debugpy", "lldb-dap", "file"}
  BY LaunchAssumption
<1>6. sessions' \in Seq(ToSet(sessions'))
  <2>1. <<s>> \in Seq({s}) /\ ToSet(<<s>>) = {s}
    BY <1>4 DEF ToSet
  <2>2. QED
    BY <1>4, <2>1
<1>7. Cardinality(ChildrenOf(1)') <= cli.maxChildren
  <2>1. ChildrenOf(1)' = {}
    BY <1>3, <1>4 DEF ChildrenOf
  <2>2. QED
    BY <1>5, <2>1, FS_EmptySet
<1>8. Grown(1)'
  BY <1>3, <1>4, <1>5, <1>7 DEF Grown
<1>9. \A i \in 1..Len(sessions') : i = 1
  BY <1>4
<1>10. QED
  BY <1>3, <1>4, <1>5, <1>6, <1>8, <1>9 DEF LaunchInv

\* A session has finitely many children.
LEMMA ChildrenFinite ==
  ASSUME LaunchInv, NEW i
  PROVE  IsFiniteSet(ChildrenOf(i)) /\ Cardinality(ChildrenOf(i)) \in Nat
         /\ ChildrenOf(i) \in SUBSET (1..Len(sessions))
<1>1. PICK n \in Nat : n = Len(sessions) /\ DOMAIN sessions = 1..n
  BY LenProperties DEF LaunchInv
<1>2. ChildrenOf(i) \in SUBSET (1..n)
  BY <1>1 DEF ChildrenOf
<1>3. IsFiniteSet(1..n)
  BY FS_Interval
<1>4. IsFiniteSet(ChildrenOf(i))
  BY <1>2, <1>3, FS_Subset
<1>5. QED
  BY <1>1, <1>2, <1>4, FS_CardinalityType

\* A child that is started is within the limits and connects where it was told to.
LEMMA StartStep ==
  ASSUME LaunchInv, StartDebugging
  PROVE  LaunchInv'
<1>1. PICK n \in Nat : n = Len(sessions) /\ DOMAIN sessions = 1..n
  BY LenProperties DEF LaunchInv
<1>2. CASE UNCHANGED sessions
  BY <1>2 DEF LaunchInv, Grown, Endpoint, ChildrenOf
<1>3. CASE ~UNCHANGED sessions
  <2>1. PICK p \in 1..n, args \in Requests :
          LET plan == Plan(sessions[p], Cardinality(ChildrenOf(p)), args)
              cli == ChildCli(sessions[p], plan, args) IN
          /\ BridgeDepth(sessions[p].cli) > 0 /\ plan # None
          /\ sessions' = Append(sessions, Session(cli, p, args))
    BY <1>1, <1>3 DEF StartDebugging
  <2>2. PICK plan : plan = Plan(sessions[p], Cardinality(ChildrenOf(p)), args)
    OBVIOUS
  <2>3. PICK s : s = Session(ChildCli(sessions[p], plan, args), p, args)
    OBVIOUS
  <2>4. /\ BridgeDepth(sessions[p].cli) > 0 /\ plan # None /\ sessions' = Append(sessions, s)
    BY <2>1, <2>2, <2>3
  <2>5. /\ sessions' \in Seq(ToSet(sessions')) /\ Len(sessions') = n + 1
        /\ sessions'[n + 1] = s /\ \A i \in 1..n : sessions'[i] = sessions[i]
    BY <1>1, <2>4, AppendToSet DEF LaunchInv
  <2>6. Grown(p) /\ LaunchInv /\ 1 \in 1..n
    BY <1>1 DEF LaunchInv
  <2>7. PICK d \in Nat : d = sessions[p].cli.depth
    BY <2>6 DEF Grown
  <2>8. BridgeDepth(sessions[p].cli) = d
    BY <2>4, <2>7 DEF BridgeDepth
  <2>9. /\ ~(Cardinality(ChildrenOf(p)) >= sessions[p].cli.maxChildren)
        /\ plan.depth = d - 1
        /\ plan.backend.tcp # None =>
             \/ plan.backend.tcp = sessions[p].context.endpoint
             \/ plan.backend.tcp.host = args.host /\ plan.backend.tcp.port \in {args.port, 9}
    <3>1. sessions[p].cli.profile \in {"fake", "debugpy", "lldb-dap", "file"}
      BY <2>6 DEF Grown
    <3>2. QED
      BY <2>2, <2>4, <2>8, <3>1, PlanFacts
  <2>10. d > 0
    BY <2>4, <2>8
  <2>11. /\ s.cli.depth = d - 1 /\ s.cli.maxChildren = sessions[p].cli.maxChildren
         /\ s.cli.profile = sessions[p].cli.profile /\ s.cli.tcp = plan.backend.tcp
         /\ s.context.endpoint = s.cli.tcp /\ s.parent = p /\ s.args = args
    BY <2>3, <2>9 DEF Session, ChildCli, ParentContext
  <2>12. PICK max \in Nat : max = sessions[1].cli.maxChildren
    BY <1>1, <2>6 DEF LaunchInv
  <2>13. /\ DOMAIN sessions' = 1..(n + 1) /\ n + 1 \in 1..(n + 1) /\ n + 1 \notin 1..n
         /\ \A i \in 1..(n + 1) : i \in 1..n \/ i = n + 1
         /\ \A i \in 1..n : i \in 1..(n + 1)
    <3>1. DOMAIN sessions' = 1..(n + 1)
      BY <2>5, LenProperties
    <3>2. QED
      BY <3>1
  <2>14. ASSUME NEW i \in 1..n
         PROVE  ChildrenOf(i)' = IF i = p THEN ChildrenOf(i) \cup {n + 1} ELSE ChildrenOf(i)
    BY <1>1, <2>5, <2>11, <2>13 DEF ChildrenOf
  <2>15. ChildrenOf(n + 1)' = {}
    <3>1. \A i \in 1..n : sessions[i].parent \in 0..(i - 1)
      BY <1>1 DEF LaunchInv, Grown
    <3>2. \A i \in 1..n : sessions[i].parent # n + 1
      BY <3>1
    <3>3. QED
      BY <2>5, <2>11, <2>13, <3>2 DEF ChildrenOf
  <2>16. ASSUME NEW i \in 1..(n + 1) PROVE Cardinality(ChildrenOf(i)') <= max
    <3>1. CASE i = n + 1
      BY <2>15, <3>1, FS_EmptySet
    <3>2. CASE i \in 1..n /\ i # p
      <4>1. Cardinality(ChildrenOf(i)) <= max
        BY <1>1, <2>12, <3>2 DEF LaunchInv, Grown
      <4>2. QED
        BY <2>14, <3>2, <4>1
    <3>3. CASE i = p
      <4>1. PICK c \in Nat : c = Cardinality(ChildrenOf(p))
        BY ChildrenFinite
      <4>2. IsFiniteSet(ChildrenOf(p)) /\ n + 1 \notin ChildrenOf(p)
        BY <1>1, <2>13, ChildrenFinite
      <4>3. Cardinality(ChildrenOf(p) \cup {n + 1}) = c + 1
        BY <4>1, <4>2, FS_AddElement
      <4>4. sessions[p].cli.maxChildren = max
        BY <2>6, <2>12 DEF Grown
      <4>5. ~(c >= max)
        BY <2>9, <4>1, <4>4
      <4>6. c + 1 <= max
        BY <4>5
      <4>7. QED
        BY <2>14, <3>3, <4>3, <4>6
    <3>4. QED
      BY <2>13, <3>1, <3>2, <3>3
  <2>17. ASSUME NEW i \in 1..n PROVE Grown(i)'
    <3>1. Grown(i)
      BY <1>1 DEF LaunchInv
    <3>2. sessions'[i] = sessions[i] /\ sessions'[1] = sessions[1]
      BY <2>5, <2>6
    <3>3. i # 1 => /\ sessions[i].parent \in 1..(i - 1)
                   /\ sessions'[sessions[i].parent] = sessions[sessions[i].parent]
      <4>1. \A k \in 1..(i - 1) : k \in 1..n
        OBVIOUS
      <4>2. QED
        BY <2>5, <3>1, <4>1 DEF Grown
    <3>4. Cardinality(ChildrenOf(i)') <= sessions[i].cli.maxChildren
      BY <2>12, <2>13, <2>16, <3>1 DEF Grown
    <3>5. QED
      BY <3>1, <3>2, <3>3, <3>4 DEF Grown, Endpoint
  <2>18. Grown(n + 1)'
    <3>1. /\ sessions'[n + 1] = s /\ sessions'[1] = sessions[1] /\ sessions'[p] = sessions[p]
      BY <2>5, <2>6
    <3>2. /\ s.cli.depth \in Nat /\ s.cli.depth = sessions[p].cli.depth - 1
          /\ s.cli.maxChildren = max
          /\ s.cli.profile \in {"fake", "debugpy", "lldb-dap", "file"}
      BY <2>6, <2>7, <2>10, <2>11, <2>12 DEF Grown
    <3>3. n + 1 # 1 /\ s.parent \in 1..(n + 1 - 1)
      BY <2>11
    <3>4. Endpoint(s)'
      <4>1. sessions[p].context.endpoint = sessions[p].cli.tcp
        BY <2>6 DEF Grown
      <4>2. s.cli.tcp # None =>
              \/ s.cli.tcp = sessions'[s.parent].cli.tcp
              \/ s.cli.tcp.host = s.args.host /\ s.cli.tcp.port \in {s.args.port, 9}
        BY <2>9, <2>11, <3>1, <4>1
      <4>3. QED
        BY <4>2 DEF Endpoint
    <3>5. Cardinality(ChildrenOf(n + 1)') <= max
      BY <2>13, <2>16
    <3>6. QED
      BY <2>11, <2>12, <3>1, <3>2, <3>3, <3>4, <3>5 DEF Grown, Endpoint
  <2>19. QED
    BY <2>5, <2>6, <2>12, <2>13, <2>17, <2>18 DEF LaunchInv
<1>4. QED
  BY <1>2, <1>3

(* Every session of a tree has the depth its generation leaves and the      *)
(* limits of the first, and connects to where it was told to (resolve.rs). *)
THEOREM LaunchInvariant ==
  LaunchSpec => []LaunchInv
<1>1. LaunchInit => LaunchInv
  <2> SUFFICES ASSUME LaunchInit PROVE LaunchInv
    OBVIOUS
  <2>1. sessions = <<>> /\ Len(sessions) = 0
    BY DEF LaunchInit
  <2>2. sessions \in Seq(ToSet(sessions))
    BY <2>1
  <2>3. QED
    BY <2>1, <2>2 DEF LaunchInv
<1>2. LaunchInv /\ [LaunchNext]_launchVars => LaunchInv'
  <2> SUFFICES ASSUME LaunchInv, [LaunchNext]_launchVars PROVE LaunchInv'
    OBVIOUS
  <2>1. CASE StartRoot
    BY <2>1, RootStep
  <2>2. CASE StartDebugging
    BY <2>2, StartStep
  <2>3. CASE UNCHANGED launchVars
    BY <2>3 DEF LaunchInv, launchVars, Grown, Endpoint, ChildrenOf
  <2>4. QED
    BY <2>1, <2>2, <2>3 DEF LaunchNext
<1>3. QED
  BY <1>1, <1>2, PTL DEF LaunchSpec

\* The generations of a session are what is gone of the depth.
LEMMA GenerationIsDepth ==
  ASSUME LaunchInv, NEW n \in Nat, n = Len(sessions)
  PROVE  \A i \in 1..n : Generations[i] = sessions[1].cli.depth - sessions[i].cli.depth
<1>1. DOMAIN sessions = 1..n
  BY LenProperties DEF LaunchInv
<1>2. \A i \in 1..n : Grown(i)
  BY DEF LaunchInv
<1> DEFINE Solves(g) == g = [i \in DOMAIN sessions |->
                               IF sessions[i].parent = 0 THEN 0 ELSE 1 + g[sessions[i].parent]]
           top == sessions[1].cli.depth
           below == [i \in DOMAIN sessions |-> top - sessions[i].cli.depth]
<1>3. ASSUME NEW i \in 1..n
      PROVE  /\ i = 1 => sessions[i].parent = 0
             /\ i # 1 => /\ sessions[i].parent # 0 /\ sessions[i].parent \in 1..(i - 1)
                         /\ sessions[i].parent \in 1..n
                         /\ top - sessions[i].cli.depth
                              = 1 + (top - sessions[sessions[i].parent].cli.depth)
  <2>1. Grown(i) /\ Grown(1)
    BY <1>2
  <2>2. CASE i = 1
    BY <2>1, <2>2 DEF Grown
  <2>3. CASE i # 1
    <3>1. PICK p \in 1..(i - 1) : p = sessions[i].parent
      BY <2>1, <2>3 DEF Grown
    <3>2. p \in 1..n /\ p # 0
      OBVIOUS
    <3>3. PICK a \in Nat : a = sessions[p].cli.depth
      BY <1>2, <3>2 DEF Grown
    <3>4. PICK t \in Nat : t = top
      BY <2>1 DEF Grown
    <3>5. sessions[i].cli.depth = a - 1
      BY <2>1, <2>3, <3>1, <3>3 DEF Grown
    <3>6. t - (a - 1) = 1 + (t - a)
      OBVIOUS
    <3>7. QED
      BY <2>3, <3>1, <3>2, <3>3, <3>4, <3>5, <3>6
  <2>4. QED
    BY <2>2, <2>3
<1>4. Solves(below)
  <2>1. ASSUME NEW i \in 1..n
        PROVE  below[i] = IF sessions[i].parent = 0 THEN 0 ELSE 1 + below[sessions[i].parent]
    <3>1. CASE i = 1
      <4>1. PICK t \in Nat : t = top
        BY <1>2, <3>1 DEF Grown
      <4>2. t - t = 0
        OBVIOUS
      <4>3. QED
        BY <1>1, <1>3, <3>1, <4>1, <4>2
    <3>2. CASE i # 1
      BY <1>1, <1>3, <3>2
    <3>3. QED
      BY <3>1, <3>2
  <2>2. QED
    BY <1>1, <2>1
<1>5. Solves(Generations)
  <2>1. Generations = CHOOSE g : Solves(g)
    BY DEF Generations
  <2>2. QED
    BY <1>4, <2>1
<1> DEFINE P == {k \in 0..n : \A i \in 1..k : Generations[i] = below[i]}
<1>6. 0 \in P
  OBVIOUS
<1>7. ASSUME NEW k \in 1..n, k - 1 \in P PROVE k \in P
  <2>1. Generations[k] = IF sessions[k].parent = 0 THEN 0 ELSE 1 + Generations[sessions[k].parent]
    BY <1>1, <1>5
  <2>2. below[k] = IF sessions[k].parent = 0 THEN 0 ELSE 1 + below[sessions[k].parent]
    BY <1>1, <1>4
  <2>3. k # 1 => Generations[sessions[k].parent] = below[sessions[k].parent]
    BY <1>3, <1>7
  <2>4. Generations[k] = below[k]
    BY <1>3, <2>1, <2>2, <2>3
  <2>5. k \in 0..n /\ \A i \in 1..k : i \in 1..(k - 1) \/ i = k
    OBVIOUS
  <2>6. \A i \in 1..(k - 1) : Generations[i] = below[i]
    BY <1>7
  <2> HIDE DEF below
  <2>7. \A i \in 1..k : Generations[i] = below[i]
    BY <2>4, <2>5, <2>6
  <2>8. QED
    BY <2>5, <2>7
<1>8. n \in P
  <2> HIDE DEF P
  <2>1. \A k \in 0..n : k \in P
    BY <1>6, <1>7, CountUp
  <2>2. QED
    BY <2>1
<1>9. QED
  BY <1>1, <1>8

(* TreeWithinLimits: --child-max-depth and --child-max-children of the      *)
(* first proxy bound the tree in every generation (child_supervisor.rs).   *)
THEOREM TreeStaysWithinLimits ==
  LaunchSpec => []TreeWithinLimits
<1>1. LaunchInv => TreeWithinLimits
  <2> SUFFICES ASSUME LaunchInv, NEW i \in DOMAIN sessions
               PROVE  /\ Generations[i] <= sessions[1].cli.depth
                      /\ Cardinality(ChildrenOf(i)) <= sessions[1].cli.maxChildren
    BY DEF TreeWithinLimits
  <2>1. PICK n \in Nat : n = Len(sessions) /\ DOMAIN sessions = 1..n
    BY LenProperties DEF LaunchInv
  <2>2. i \in 1..n /\ 1 \in 1..n /\ Grown(i) /\ Grown(1)
    BY <2>1 DEF LaunchInv
  <2>3. PICK d \in Nat, t \in Nat : d = sessions[i].cli.depth /\ t = sessions[1].cli.depth
    BY <2>2 DEF Grown
  <2>4. Generations[i] = t - d
    BY <2>1, <2>2, <2>3, GenerationIsDepth
  <2>5. t - d <= t
    OBVIOUS
  <2>6. QED
    BY <2>2, <2>3, <2>4, <2>5 DEF Grown
<1>2. QED
  BY <1>1, LaunchInvariant, PTL

(* EndpointWasNamed: a child connects to its parent's endpoint, or to the   *)
(* host and port of the request, which fit, or to the port of a rule.      *)
THEOREM EndpointsAreNamed ==
  LaunchSpec => []EndpointWasNamed
<1>1. LaunchInv => EndpointWasNamed
  <2> SUFFICES ASSUME LaunchInv, NEW i \in DOMAIN sessions, sessions[i].parent # 0
               PROVE  Endpoint(sessions[i])
    BY DEF EndpointWasNamed, Endpoint
  <2>1. i \in 1..Len(sessions)
    BY LenProperties DEF LaunchInv
  <2>2. QED
    BY <2>1 DEF LaunchInv, Grown
<1>2. QED
  BY <1>1, LaunchInvariant, PTL

(* TreeAsPlanned: the plan a proxy makes from its own command line alone    *)
(* keeps the whole tree within its limits and every child at an endpoint    *)
(* somebody named (child_supervisor.rs, resolve.rs).                        *)
THEOREM TreeStaysAsPlanned ==
  LaunchSpec => []TreeAsPlanned
<1>1. TreeWithinLimits /\ EndpointWasNamed => TreeAsPlanned
  BY DEF TreeAsPlanned
<1>2. QED
  BY <1>1, TreeStaysWithinLimits, EndpointsAreNamed, PTL
=============================================================================
