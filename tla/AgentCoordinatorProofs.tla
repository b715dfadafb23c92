----------------------- MODULE AgentCoordinatorProofs -----------------------
(***************************************************************************)
(* What is proved of AgentCoordinator for every set of tasks, keys, roots  *)
(* and links: the types, the agreement of the lease table with the tasks,  *)
(* the separation of the writers, that a lease is only ever yielded, and   *)
(* that a merge reports the agreement of its tasks.                        *)
(***************************************************************************)
EXTENDS AgentCoordinator, Positions, TLAPS, SequenceTheorems

CoordinatorInv == TypeOK /\ LeasesMatchWriters /\ WritersDisjoint

-----------------------------------------------------------------------------
LEMMA PlacedType ==
  ASSUME TypeOK, NEW names \in SUBSET Names
  PROVE  PlacesOf(names) \in SUBSET Places
BY DEF TypeOK, PlacesOf

LEMMA NullType == NoArtifacts \in Artifacts /\ NoTask \notin Tasks
BY NullAssumption DEF NoArtifacts, Artifacts

LEMMA ReleasedType ==
  ASSUME TypeOK, NEW ts
  PROVE  Released(ts) \in [Keys -> Tasks \cup {NoTask}]
BY DEF TypeOK, Released

LEMMA TypeInit == Init => TypeOK
<1> SUFFICES ASSUME Init PROVE TypeOK
  OBVIOUS
<1>1. (CHOOSE c \in Contracts : TRUE) \in Contract
  BY NullAssumption, InputAssumption
<1>2. contract \in [Tasks -> Contract]
  BY <1>1 DEF Init
<1>3. scopes \in [Parents -> PlacedScope]
  BY DEF Init, Unregistered, PlacedScope
<1>4. report \in [ids : Seq(Tasks), status : {"none", "pass", "blocked"},
                  artifacts : Artifacts]
  BY NullType, EmptySeq DEF Init, NoReport
<1> QED
  BY <1>2, <1>3, <1>4, NullType DEF Init, TypeOK, Statuses

LEMMA TypeStep ==
  ASSUME TypeOK, Next \/ UNCHANGED vars
  PROVE  TypeOK'
<1>1. CASE UNCHANGED vars
  BY <1>1 DEF vars, coordinator, world, TypeOK
<1>2. ASSUME NEW p \in Parents, NEW s \in Scopes, RegisterParentScope(p, s)
      PROVE  TypeOK'
  <2>1. s \in NamedScope
    BY InputAssumption
  <2>2. [known |-> TRUE, reads |-> PlacesOf(s.reads),
         writes |-> PlacesOf(s.writes), tools |-> s.tools] \in PlacedScope
    BY <2>1, PlacedType DEF NamedScope, PlacedScope
  <2> QED
    BY <1>2, <2>2 DEF RegisterParentScope, world, TypeOK
<1>3. ASSUME NEW t \in Tasks, NEW c \in Contracts, Delegate(t, c)
      PROVE  TypeOK'
  <2>1. c \in Contract /\ PlacesOf(c.writes) \in SUBSET Places
    BY InputAssumption, PlacedType DEF Contract
  <2> QED
    BY <1>3, <2>1 DEF Delegate, world, TypeOK, Statuses
<1>4. ASSUME NEW t \in Tasks, NEW a \in Artifacts, Complete(t, a)
      PROVE  TypeOK'
  BY <1>4, ReleasedType DEF Complete, world, TypeOK, Statuses
<1>5. ASSUME NEW p \in Parents, CancelParent(p)
      PROVE  TypeOK'
  <2>1. /\ status' = [t \in Tasks |-> IF t \in Cascading(p) THEN "cancelled" ELSE status[t]]
        /\ holder' = Released(Cascading(p))
        /\ UNCHANGED <<scopes, contract, artifacts, reserved, now, place, retargets, report>>
    BY <1>5 DEF CancelParent, world
  <2>2. \A t \in Cascading(p) : status[t] = "running"
    BY DEF Cascading, Running
  <2>3. \A t \in Tasks : artifacts'[t] # NoArtifacts' => status'[t] = "completed"
    BY <2>1, <2>2 DEF TypeOK, NoArtifacts
  <2>4. status' \in [Tasks -> Statuses] /\ holder' \in [Keys -> Tasks \cup {NoTask}]
    BY <2>1, ReleasedType DEF TypeOK, Statuses
  <2> QED
    BY <2>1, <2>3, <2>4 DEF TypeOK
<1>6. ASSUME NEW ids \in MergeLists, Merge(ids)
      PROVE  TypeOK'
  <2>1. ids \in Seq(Tasks)
    BY InputAssumption
  <2>2. ASSUME NEW p \in Paths
        PROVE  Merged(ids, p) \in Digests \cup {NoDigest}
    <3>1. CASE Holding(ids, p) = {}
      BY <3>1 DEF Merged
    <3>2. CASE Holding(ids, p) # {}
      <4>1. Holding(ids, p) \in SUBSET (1 .. Len(ids)) /\ Len(ids) \in Nat
        BY <2>1, LenProperties DEF Holding
      <4>2. \E i \in Holding(ids, p) : \A j \in Holding(ids, p) : i <= j
        BY <3>2, <4>1, FirstExists
      <4>3. PICK i \in Holding(ids, p) : Merged(ids, p) = artifacts[ids[i]][p]
        BY <3>2, <4>2 DEF Merged
      <4>4. ids[i] \in Tasks
        BY <2>1, <4>1, <4>3, ElementOfSeq
      <4> QED
        BY <4>3, <4>4 DEF TypeOK, Artifacts
    <3> QED
      BY <3>1, <3>2
  <2>3. [p \in Paths |-> Merged(ids, p)] \in Artifacts
    BY <2>2 DEF Artifacts
  <2>4. report' \in [ids : Seq(Tasks), status : {"none", "pass", "blocked"},
                     artifacts : Artifacts]
    BY <1>6, <2>1, <2>3 DEF Merge
  <2> QED
    BY <1>6, <2>4 DEF Merge, coordinator, world, TypeOK
<1>7. CASE Tick
  BY <1>7 DEF Tick, coordinator, TypeOK
<1>8. ASSUME NEW n \in Names, NEW p \in Places, Retarget(n, p)
      PROVE  TypeOK'
  BY <1>8 DEF Retarget, coordinator, TypeOK
<1> QED
  BY <1>1, <1>2, <1>3, <1>4, <1>5, <1>6, <1>7, <1>8 DEF Next

-----------------------------------------------------------------------------
LEMMA OverlapsSymmetric ==
  ASSUME NEW P, NEW Q, Disjoint(P, Q)
  PROVE  Disjoint(Q, P)
BY DEF Disjoint, Overlaps

\* What a step does to the tasks: start one, end some, or nothing.
Ends(ts, ended) ==
  /\ ts \subseteq Running
  /\ ended \in {"completed", "cancelled"}
  /\ status' = [t \in Tasks |-> IF t \in ts THEN ended ELSE status[t]]
  /\ holder' = Released(ts)
  /\ UNCHANGED <<contract, reserved>>

LEMMA TaskSteps ==
  ASSUME TypeOK, Next \/ UNCHANGED vars
  PROVE  \/ UNCHANGED <<status, contract, reserved, holder>>
         \/ \E t \in Tasks, c \in Contracts : Delegate(t, c)
         \/ \E t \in Tasks : Ends({t}, "completed") /\ now < contract[t].expires
         \/ \E p \in Parents : Ends(Cascading(p), "cancelled")
<1>1. CASE UNCHANGED vars
  BY <1>1 DEF vars, coordinator
<1>2. ASSUME NEW t \in Tasks, NEW a \in Artifacts, Complete(t, a)
      PROVE  Ends({t}, "completed") /\ now < contract[t].expires
  <2>1. now < contract[t].expires
    BY <1>2 DEF Complete, Expired, TypeOK, Contract
  <2>2. Ends({t}, "completed")
    BY <1>2 DEF Complete, Ends, Running, TypeOK
  <2> QED
    BY <2>1, <2>2
<1>3. ASSUME NEW p \in Parents, CancelParent(p)
      PROVE  Ends(Cascading(p), "cancelled")
  BY <1>3 DEF CancelParent, Ends, Cascading
<1>4. CASE \/ \E p \in Parents, s \in Scopes : RegisterParentScope(p, s)
           \/ \E ids \in MergeLists : Merge(ids)
           \/ Tick
           \/ \E n \in Names, p \in Places : Retarget(n, p)
  BY <1>4 DEF RegisterParentScope, Merge, Tick, Retarget, coordinator
<1> QED
  BY <1>1, <1>2, <1>3, <1>4 DEF Next

-----------------------------------------------------------------------------
(* The lease table.                                                        *)

LEMMA LeasesStep ==
  ASSUME CoordinatorInv, Next \/ UNCHANGED vars
  PROVE  LeasesMatchWriters'
<1> USE NullType DEF CoordinatorInv
<1>1. CASE UNCHANGED <<status, contract, reserved, holder>>
  BY <1>1 DEF LeasesMatchWriters
<1>2. ASSUME NEW t \in Tasks, NEW c \in Contracts, Delegate(t, c)
      PROVE  LeasesMatchWriters'
  <2>1. /\ status' = [status EXCEPT ![t] = "running"]
        /\ contract' = [contract EXCEPT ![t] = c]
        /\ holder' = [k \in Keys |-> IF k = c.key THEN t ELSE holder[k]]
        /\ status[t] = "absent"
        /\ c.key # NoKey => holder[c.key] \in {NoTask, t}
    BY <1>2 DEF Delegate, Free
  <2>2. NoKey \notin Keys
    BY NullAssumption
  <2>3. ASSUME NEW k \in Keys, NEW u \in Tasks
        PROVE  holder'[k] = u <=> status'[u] = "running" /\ contract'[u].key = k
    <3>1. CASE u = t
      BY <2>1, <3>1 DEF LeasesMatchWriters, TypeOK
    <3>2. CASE u # t
      BY <2>1, <2>2, <3>2 DEF LeasesMatchWriters, TypeOK
    <3> QED
      BY <3>1, <3>2
  <2> QED
    BY <2>3 DEF LeasesMatchWriters
<1>3. ASSUME NEW ts, NEW ended, Ends(ts, ended)
      PROVE  LeasesMatchWriters'
  BY <1>3 DEF Ends, Released, Running, LeasesMatchWriters, TypeOK
<1> QED
  BY <1>1, <1>2, <1>3, TaskSteps

\* The writers: a task that starts is apart from every running one.
LEMMA WritersStep ==
  ASSUME CoordinatorInv, Next \/ UNCHANGED vars
  PROVE  WritersDisjoint'
<1> USE DEF CoordinatorInv
<1>1. CASE UNCHANGED <<status, contract, reserved, holder>>
  BY <1>1 DEF WritersDisjoint, Running
<1>2. ASSUME NEW t \in Tasks, NEW c \in Contracts, Delegate(t, c)
      PROVE  WritersDisjoint'
  <2>1. /\ status' = [status EXCEPT ![t] = "running"]
        /\ reserved' = [reserved EXCEPT ![t] = PlacesOf(c.writes)]
    BY <1>2 DEF Delegate
  <2>2. \A u \in Running : Disjoint(reserved[u], PlacesOf(c.writes))
    BY <1>2 DEF Delegate, Active, Disjoint
  <2>3. \A u \in Running : Disjoint(PlacesOf(c.writes), reserved[u])
    BY <2>2, OverlapsSymmetric
  <2>4. \A u \in Running' : u # t => u \in Running /\ reserved'[u] = reserved[u]
    BY <2>1 DEF Running, TypeOK
  <2>5. reserved'[t] = PlacesOf(c.writes)
    BY <2>1 DEF TypeOK
  <2> QED
    BY <2>2, <2>3, <2>4, <2>5 DEF WritersDisjoint
<1>3. ASSUME NEW ts, NEW ended, Ends(ts, ended)
      PROVE  WritersDisjoint'
  <2>1. Running' \subseteq Running /\ reserved' = reserved
    BY <1>3 DEF Ends, Running
  <2> QED
    BY <2>1 DEF WritersDisjoint
<1> QED
  BY <1>1, <1>2, <1>3, TaskSteps

-----------------------------------------------------------------------------
\* The invariant of AgentCoordinator.
LEMMA Invariant == Spec => []CoordinatorInv
<1>1. Init => CoordinatorInv
  BY TypeInit, NullType
     DEF Init, CoordinatorInv, LeasesMatchWriters, WritersDisjoint, Running
<1>2. CoordinatorInv /\ [Next]_vars => CoordinatorInv'
  BY TypeStep, LeasesStep, WritersStep DEF CoordinatorInv
<1> QED
  BY <1>1, <1>2, PTL DEF Spec

\* TypeOK: every variable keeps its type; a merge reports only digests that a
\* task handed over, and only completed tasks have handed any over.
THEOREM AgentTypes == Spec => []TypeOK
<1>1. CoordinatorInv => TypeOK
  BY DEF CoordinatorInv
<1> QED
  BY <1>1, Invariant, PTL

\* WritersDisjoint: the reservations of running tasks never overlap, whatever
\* links are retargeted and however long a task has expired.
THEOREM SeparateWriters == Spec => []WritersDisjoint
<1>1. CoordinatorInv => WritersDisjoint
  BY DEF CoordinatorInv
<1> QED
  BY <1>1, Invariant, PTL

\* LeasesMatchWriters: a writer key has exactly the running task delegated with
\* it as its holder, after any sequence of delegations, ends and cancellations.
THEOREM LeasesOfWriters == Spec => []LeasesMatchWriters
<1>1. CoordinatorInv => LeasesMatchWriters
  BY DEF CoordinatorInv
<1> QED
  BY <1>1, Invariant, PTL

\* LeaseOnlyYielded: a held key changes hands only through a completion in
\* time or a cancellation, and goes to nobody first; expiry alone frees nothing.
THEOREM LeasesYielded == Spec => LeaseOnlyYielded
<1> DEFINE Yielded(k) ==
      holder[k] # NoTask /\ holder'[k] # holder[k] =>
        /\ holder'[k] = NoTask
        /\ \/ status'[holder[k]] = "cancelled"
           \/ /\ status'[holder[k]] = "completed"
              /\ now < contract[holder[k]].expires
<1>1. ASSUME CoordinatorInv, Next \/ UNCHANGED vars, NEW k \in Keys
      PROVE  Yielded(k)
  <2> USE DEF CoordinatorInv
  <2>1. CASE UNCHANGED <<status, contract, reserved, holder>>
    BY <2>1
  <2>2. ASSUME NEW t \in Tasks, NEW c \in Contracts, Delegate(t, c)
        PROVE  Yielded(k)
    <3>1. c.key = k => holder[k] \in {NoTask, t}
      BY <2>2, NullAssumption DEF Delegate, Free
    <3>2. holder'[k] = IF k = c.key THEN t ELSE holder[k]
      BY <2>2 DEF Delegate
    <3> QED
      BY <3>1, <3>2
  <2>3. ASSUME NEW t \in Tasks, Ends({t}, "completed"),
               now < contract[t].expires
        PROVE  Yielded(k)
    BY <2>3 DEF Ends, Released, TypeOK
  <2>4. ASSUME NEW p \in Parents, Ends(Cascading(p), "cancelled")
        PROVE  Yielded(k)
    <3>1. holder'[k] # holder[k] =>
            holder[k] \in Cascading(p) /\ holder'[k] = NoTask
      BY <2>4 DEF Ends, Released
    <3>2. \A t \in Cascading(p) : status'[t] = "cancelled"
      BY <2>4 DEF Ends, Cascading, Running
    <3> QED
      BY <3>1, <3>2
  <2> QED
    BY <1>1, <2>1, <2>2, <2>3, <2>4, TaskSteps
<1>2. CoordinatorInv /\ [Next]_vars => [\A k \in Keys : Yielded(k)]_vars
  BY <1>1
<1> QED
  BY <1>2, Invariant, PTL DEF Spec, LeaseOnlyYielded

\* DisjointAtDelegation: a task starts apart from what every running task
\* writes now, under whatever links.
THEOREM ApartWhenDelegated == Spec => DisjointAtDelegation
<1> DEFINE Apart(t, u) ==
      status[t] = "absent" /\ status'[t] = "running" /\ status[u] = "running"
      => Disjoint(reserved'[t], PlacesOf(contract[u].writes))
<1>1. ASSUME CoordinatorInv, Next \/ UNCHANGED vars, NEW t \in Tasks, NEW u \in Tasks
      PROVE  Apart(t, u)
  <2> USE DEF CoordinatorInv
  <2>1. CASE UNCHANGED <<status, contract, reserved, holder>>
    BY <2>1
  <2>2. ASSUME NEW d \in Tasks, NEW c \in Contracts, Delegate(d, c)
        PROVE  Apart(t, u)
    <3>1. CASE t = d
      <4>1. reserved'[t] = PlacesOf(c.writes)
        BY <1>1, <2>2, <3>1 DEF Delegate, TypeOK
      <4>2. status[u] = "running" => Disjoint(Active(u), PlacesOf(c.writes))
        BY <2>2 DEF Delegate, Running
      <4>3. status[u] = "running" =>
              Disjoint(PlacesOf(contract[u].writes), PlacesOf(c.writes))
        BY <4>2 DEF Active, Disjoint
      <4> QED
        BY <4>1, <4>3, OverlapsSymmetric
    <3>2. CASE t # d
      <4>1. status'[t] = status[t]
        BY <1>1, <2>2, <3>2 DEF Delegate, TypeOK
      <4> QED
        BY <4>1
    <3> QED
      BY <3>1, <3>2
  <2>3. ASSUME NEW ts, NEW ended, Ends(ts, ended)
        PROVE  Apart(t, u)
    BY <2>3 DEF Ends, Running
  <2> QED
    BY <1>1, <2>1, <2>2, <2>3, TaskSteps
<1>2. CoordinatorInv /\ [Next]_vars => [\A t, u \in Tasks : Apart(t, u)]_vars
  BY <1>1
<1> QED
  BY <1>2, Invariant, PTL DEF Spec, DisjointAtDelegation

-----------------------------------------------------------------------------
(* The merge.                                                              *)

\* No two tasks of the list hand over different versions of a path.
Agree(ids) ==
  \A i, j \in DOMAIN ids, p \in Paths :
    LET a == artifacts[ids[i]][p]
        b == artifacts[ids[j]][p]
    IN  a = b \/ a = NoDigest \/ b = NoDigest

\* Comparing each task with the first that holds the path finds every conflict.
LEMMA ConflictsFound ==
  ASSUME NEW ids \in Seq(Tasks)
  PROVE  Conflicts(ids) = {} <=> Agree(ids)
<1>1. ASSUME Conflicts(ids) = {}, NEW i \in DOMAIN ids, NEW j \in DOMAIN ids,
             NEW p \in Paths, artifacts[ids[i]][p] # NoDigest,
             artifacts[ids[j]][p] # NoDigest
      PROVE  artifacts[ids[i]][p] = artifacts[ids[j]][p]
  <2>1. i \in Holding(ids, p) /\ j \in Holding(ids, p)
    BY <1>1 DEF Holding
  <2> QED
    BY <1>1, <2>1 DEF Conflicts
<1>2. ASSUME Agree(ids), NEW i \in Conflicts(ids)
      PROVE  FALSE
  <2>1. PICK p \in Paths : i \in Holding(ids, p) /\ artifacts[ids[i]][p] # Merged(ids, p)
    BY DEF Conflicts
  <2>2. Holding(ids, p) \in SUBSET (1 .. Len(ids)) /\ Len(ids) \in Nat
    BY LenProperties DEF Holding
  <2>3. PICK k \in Holding(ids, p) : \A j \in Holding(ids, p) : k <= j
    BY <2>1, <2>2, FirstExists
  <2>4. PICK m \in Holding(ids, p) : Merged(ids, p) = artifacts[ids[m]][p]
    BY <2>1, <2>3 DEF Merged
  <2>5. i \in DOMAIN ids /\ m \in DOMAIN ids
        /\ artifacts[ids[i]][p] # NoDigest /\ artifacts[ids[m]][p] # NoDigest
    BY <2>1, <2>4 DEF Holding
  <2> QED
    BY <1>2, <2>1, <2>4, <2>5 DEF Agree
<1> QED
  BY <1>1, <1>2 DEF Agree

\* A step that is not a merge keeps what completed tasks handed over.
LEMMA CompletedStays ==
  ASSUME TypeOK, Next \/ UNCHANGED vars
  PROVE  \/ \E ids \in MergeLists : Merge(ids)
         \/ /\ UNCHANGED report
            /\ \A t \in Tasks : status[t] = "completed" =>
                 status'[t] = "completed" /\ artifacts'[t] = artifacts[t]
<1>1. CASE UNCHANGED vars
  BY <1>1 DEF vars, coordinator
<1>2. CASE \/ \E p \in Parents, s \in Scopes : RegisterParentScope(p, s)
           \/ Tick
           \/ \E n \in Names, p \in Places : Retarget(n, p)
  BY <1>2 DEF RegisterParentScope, Tick, Retarget, coordinator
<1>3. CASE \E t \in Tasks, c \in Contracts : Delegate(t, c)
  BY <1>3 DEF Delegate, TypeOK
<1>4. CASE \E t \in Tasks, a \in Artifacts : Complete(t, a)
  BY <1>4 DEF Complete, TypeOK
<1>5. CASE \E p \in Parents : CancelParent(p)
  BY <1>5 DEF CancelParent, Cascading, Running, TypeOK
<1> QED
  BY <1>1, <1>2, <1>3, <1>4, <1>5 DEF Next

LEMMA MergeStep ==
  ASSUME TypeOK, MergeSound, Next \/ UNCHANGED vars
  PROVE  MergeSound'
<1>1. ASSUME NEW ids \in MergeLists, Merge(ids)
      PROVE  MergeSound'
  <2>1. ids \in Seq(Tasks)
    BY InputAssumption
  <2>2. /\ report'.ids = ids
        /\ report'.status = IF Conflicts(ids) = {} THEN "pass" ELSE "blocked"
        /\ status' = status /\ artifacts' = artifacts
        /\ \A i \in DOMAIN ids : status[ids[i]] = "completed"
    BY <1>1 DEF Merge, coordinator
  <2>3. report'.status = "pass" <=> Agree(ids)
    BY <2>1, <2>2, ConflictsFound
  <2> QED
    BY <2>2, <2>3 DEF MergeSound, Agree
<1>2. CASE /\ UNCHANGED report
           /\ \A t \in Tasks : status[t] = "completed" =>
                status'[t] = "completed" /\ artifacts'[t] = artifacts[t]
  <2>1. report.ids \in Seq(Tasks)
    BY DEF TypeOK
  <2>2. \A i \in DOMAIN report.ids : report.ids[i] \in Tasks
    BY <2>1, ElementOfSeq, LenProperties
  <2>3. report.status # "none" =>
          \A i \in DOMAIN report.ids :
            /\ status[report.ids[i]] = "completed"
            /\ status'[report.ids[i]] = "completed"
            /\ artifacts'[report.ids[i]] = artifacts[report.ids[i]]
    BY <1>2, <2>2 DEF MergeSound
  <2> QED
    BY <1>2, <2>3 DEF MergeSound
<1> QED
  BY <1>1, <1>2, CompletedStays

\* MergeSound: a merge passes exactly when its tasks agree on every path, for
\* lists of any length and order, and what it reported stays true.
THEOREM MergesSound == Spec => []MergeSound
<1>1. Init => MergeSound
  BY DEF Init, NoReport, MergeSound
<1>2. CoordinatorInv /\ MergeSound /\ [Next]_vars => MergeSound'
  BY MergeStep DEF CoordinatorInv
<1> QED
  BY <1>1, <1>2, Invariant, PTL DEF Spec

=============================================================================
