-------------------------- MODULE AgentCoordinator --------------------------
(***************************************************************************)
(* src/trace_gate/multi_agent.py: tasks delegated to subagents, their      *)
(* write reservations and writer leases, cancellation and merge.           *)
(*                                                                         *)
(* Each method of AgentCoordinator is one action; a method that raises     *)
(* changes nothing and is a stuttering step.  A root is a name; what       *)
(* path_identity resolves it to is a place, and symbolic links can be      *)
(* retargeted between two calls.  A lease is its holder: the expiry that   *)
(* LeaseRegistry stores beside it is never read.                           *)
(***************************************************************************)
EXTENDS Naturals, Sequences, FiniteSets

CONSTANTS
  Tasks, Parents, Keys, Tools,
  Names,         \* spellings of roots
  Places,        \* identities path_identity may return
  Below,         \* <<p, q>>: place p is strictly inside place q
  Paths, Digests,    \* of the artifacts a task hands over
  Contracts,     \* contracts callers delegate
  Scopes,        \* scopes callers register for a parent run
  MergeLists,    \* lists of tasks callers merge
  NoTask, NoKey, NoDigest,
  MaxClock,      \* bound: the wall clock
  MaxRetargets   \* bound: changes of a symbolic link

Contract ==
  [parent : Parents, reads : SUBSET Names, writes : SUBSET Names,
   tools : SUBSET Tools, key : Keys \cup {NoKey}, expires : Nat,
   cascades : BOOLEAN]      \* cancel_on_parent_cancel

\* A scope as it is passed in, with names, and as it is kept, with places.
NamedScope ==
  [reads : SUBSET Names, writes : SUBSET Names, tools : SUBSET Tools]
PlacedScope ==
  [known : BOOLEAN, reads : SUBSET Places, writes : SUBSET Places,
   tools : SUBSET Tools]

Artifacts == [Paths -> Digests \cup {NoDigest}]

ASSUME PlaceAssumption == Below \subseteq Places \X Places
ASSUME InputAssumption ==
  /\ Contracts \subseteq Contract
  /\ Scopes \subseteq NamedScope
  /\ MergeLists \subseteq Seq(Tasks)
ASSUME NullAssumption ==
  /\ NoTask \notin Tasks /\ NoKey \notin Keys /\ NoDigest \notin Digests
  /\ Contracts # {}
ASSUME BoundAssumption == MaxClock \in Nat /\ MaxRetargets \in Nat

VARIABLES
  now,
  place,       \* name -> place, as the file system resolves it now
  retargets,
  scopes,      \* self.parent_scopes
  status,      \* task -> "absent" or TaskState.status
  contract,    \* TaskState.contract
  artifacts,   \* TaskState.artifacts
  reserved,    \* self.task_write_roots
  holder,      \* self.leases
  report       \* what the last merge returned

coordinator == <<scopes, status, contract, artifacts, reserved, holder>>
world == <<now, place, retargets>>
vars == <<coordinator, world, report>>

-----------------------------------------------------------------------------
Overlaps(p, q) == p = q \/ <<p, q>> \in Below \/ <<q, p>> \in Below

Disjoint(P, Q) == \A p \in P, q \in Q : ~Overlaps(p, q)

PlacesOf(names) == {place[n] : n \in names}

Running == {t \in Tasks : status[t] = "running"}

Unregistered ==
  [known |-> FALSE, reads |-> {}, writes |-> {}, tools |-> {}]

NoArtifacts == [p \in Paths |-> NoDigest]

NoReport == [ids |-> <<>>, status |-> "none", artifacts |-> NoArtifacts]

Init ==
  /\ now = 0
  /\ place \in [Names -> Places]
  /\ retargets = 0
  /\ scopes = [p \in Parents |-> Unregistered]
  /\ status = [t \in Tasks |-> "absent"]
  /\ contract = [t \in Tasks |-> CHOOSE c \in Contracts : TRUE]
  /\ artifacts = [t \in Tasks |-> NoArtifacts]
  /\ reserved = [t \in Tasks |-> {}]
  /\ holder = [k \in Keys |-> NoTask]
  /\ report = NoReport

-----------------------------------------------------------------------------
RegisterParentScope(parent, s) ==
  /\ scopes' = [scopes EXCEPT ![parent] =
                  [known |-> TRUE, reads |-> PlacesOf(s.reads),
                   writes |-> PlacesOf(s.writes), tools |-> s.tools]]
  /\ UNCHANGED <<status, contract, artifacts, reserved, holder, world, report>>

WithinParent(c) ==
  LET parent == scopes[c.parent]
  IN  /\ parent.known
      /\ PlacesOf(c.reads) \subseteq parent.reads
      /\ PlacesOf(c.writes) \subseteq parent.writes
      /\ c.tools \subseteq parent.tools

\* Seeded faults: an active task is compared by what its names resolve to now
\* only, and by the places it reserved only.
ActiveByName(t) == PlacesOf(contract[t].writes)
ActiveByReservation(t) == reserved[t]

Active(t) == reserved[t] \cup PlacesOf(contract[t].writes)

\* LeaseRegistry.acquire and release.  Seeded faults: an expired lease is
\* free; a release does nothing.
FreeWhenExpired(k, t) ==
  holder[k] \in {NoTask, t} \cup {u \in Tasks : contract[u].expires <= now}
ReleasedNothing(ts) == holder

Free(k, t) == holder[k] \in {NoTask, t}

Released(ts) ==
  [k \in Keys |-> IF holder[k] \in ts /\ contract[holder[k]].key = k
                    THEN NoTask
                    ELSE holder[k]]

Delegate(t, c) ==
  /\ status[t] = "absent"
  /\ c.writes # {} => c.key # NoKey
  /\ now < c.expires
  /\ WithinParent(c)
  /\ \A u \in Running : Disjoint(Active(u), PlacesOf(c.writes))
  /\ c.key # NoKey => Free(c.key, t)
  /\ status' = [status EXCEPT ![t] = "running"]
  /\ contract' = [contract EXCEPT ![t] = c]
  /\ reserved' = [reserved EXCEPT ![t] = PlacesOf(c.writes)]
  /\ holder' = [k \in Keys |-> IF k = c.key THEN t ELSE holder[k]]
  /\ UNCHANGED <<scopes, artifacts, world, report>>

Expired(t) == contract[t].expires <= now

\* Seeded fault: the artifacts are stored before the expiry is looked at.
CompleteStoresFirst(t, a) ==
  /\ status[t] = "running"
  /\ artifacts' = [artifacts EXCEPT ![t] = a]
  /\ IF Expired(t)
       THEN UNCHANGED <<status, holder>>
       ELSE /\ status' = [status EXCEPT ![t] = "completed"]
            /\ holder' = Released({t})
  /\ UNCHANGED <<scopes, contract, reserved, world, report>>

\* Only verified results complete a task.
Complete(t, a) ==
  /\ status[t] = "running"
  /\ ~Expired(t)
  /\ artifacts' = [artifacts EXCEPT ![t] = a]
  /\ status' = [status EXCEPT ![t] = "completed"]
  /\ holder' = Released({t})
  /\ UNCHANGED <<scopes, contract, reserved, world, report>>

Cascading(parent) ==
  {t \in Running : contract[t].parent = parent /\ contract[t].cascades}

CancelParent(parent) ==
  /\ status' = [t \in Tasks |-> IF t \in Cascading(parent) THEN "cancelled"
                                                           ELSE status[t]]
  /\ holder' = Released(Cascading(parent))
  /\ UNCHANGED <<scopes, contract, artifacts, reserved, world, report>>

-----------------------------------------------------------------------------
(* merge: the first task of the list that hands over a path decides it.    *)

Holding(ids, p) == {i \in DOMAIN ids : artifacts[ids[i]][p] # NoDigest}

Merged(ids, p) ==
  IF Holding(ids, p) = {}
    THEN NoDigest
    ELSE artifacts[ids[CHOOSE i \in Holding(ids, p) :
                         \A j \in Holding(ids, p) : i <= j]][p]

\* Seeded fault: only neighbours in the list are compared.
NeighboursConflict(ids) ==
  {i \in DOMAIN ids :
     \E p \in Paths : /\ i > 1 /\ {i - 1, i} \subseteq Holding(ids, p)
                      /\ artifacts[ids[i]][p] # artifacts[ids[i - 1]][p]}

\* The places in the list whose task disagrees on some path.
Conflicts(ids) ==
  {i \in DOMAIN ids :
     \E p \in Paths : /\ i \in Holding(ids, p)
                      /\ artifacts[ids[i]][p] # Merged(ids, p)}

Merge(ids) ==
  /\ \A i \in DOMAIN ids : status[ids[i]] = "completed"
  /\ report' = [ids |-> ids,
                status |-> IF Conflicts(ids) = {} THEN "pass" ELSE "blocked",
                artifacts |-> [p \in Paths |-> Merged(ids, p)]]
  /\ UNCHANGED <<coordinator, world>>

-----------------------------------------------------------------------------
Tick ==
  /\ now < MaxClock
  /\ now' = now + 1
  /\ UNCHANGED <<coordinator, place, retargets, report>>

\* A symbolic link on the way to a root is replaced.
Retarget(n, p) ==
  /\ retargets < MaxRetargets
  /\ place' = [place EXCEPT ![n] = p]
  /\ retargets' = retargets + 1
  /\ UNCHANGED <<coordinator, now, report>>

Next ==
  \/ \E p \in Parents, s \in Scopes : RegisterParentScope(p, s)
  \/ \E t \in Tasks, c \in Contracts : Delegate(t, c)
  \/ \E t \in Tasks, a \in Artifacts : Complete(t, a)
  \/ \E p \in Parents : CancelParent(p)
  \/ \E ids \in MergeLists : Merge(ids)
  \/ Tick
  \/ \E n \in Names, p \in Places : Retarget(n, p)

Spec == Init /\ [][Next]_vars

-----------------------------------------------------------------------------
Statuses == {"absent", "running", "completed", "cancelled"}

\* Every variable has its type, and only a completed task has handed anything
\* over: a completion that is refused, because the task was cancelled or has
\* expired, leaves none of its artifacts behind.
TypeOK ==
  /\ now \in Nat /\ retargets \in Nat
  /\ place \in [Names -> Places]
  /\ scopes \in [Parents -> PlacedScope]
  /\ status \in [Tasks -> Statuses]
  /\ contract \in [Tasks -> Contract]
  /\ artifacts \in [Tasks -> Artifacts]
  /\ \A t \in Tasks : artifacts[t] # NoArtifacts => status[t] = "completed"
  /\ reserved \in [Tasks -> SUBSET Places]
  /\ holder \in [Keys -> Tasks \cup {NoTask}]
  /\ report \in [ids : Seq(Tasks), status : {"none", "pass", "blocked"},
                 artifacts : Artifacts]

\* Two running tasks never reserve the same place, or a place and one inside
\* it, however long ago and under whatever links they were delegated, and also
\* when one of them has expired.
WritersDisjoint ==
  \A t, u \in Running : t # u => Disjoint(reserved[t], reserved[u])

\* A writer key is held by exactly the running task that was delegated with
\* it: nobody holds a key after completion or cancellation, and no running
\* writer, expired or not, has lost its key to another.
LeasesMatchWriters ==
  \A k \in Keys, t \in Tasks :
    holder[k] = t <=> status[t] = "running" /\ contract[t].key = k

\* When a task starts, its write roots are apart from what every running task
\* writes now, even if a link of that task was retargeted since.
DisjointAtDelegation ==
  [][\A t, u \in Tasks :
       status[t] = "absent" /\ status'[t] = "running" /\ status[u] = "running"
       => Disjoint(reserved'[t], PlacesOf(contract[u].writes))]_vars

\* A held key becomes free only when its holder completes in time or is
\* cancelled, and never passes directly to another task: an expired lease is
\* not given away.
LeaseOnlyYielded ==
  [][\A k \in Keys :
       holder[k] # NoTask /\ holder'[k] # holder[k] =>
         /\ holder'[k] = NoTask
         /\ \/ status'[holder[k]] = "cancelled"
            \/ /\ status'[holder[k]] = "completed"
               /\ now < contract[holder[k]].expires]_vars

\* A merge passes exactly when the listed tasks agree on every path two of
\* them hand over, whatever the order of the list; completed results do not
\* change after the merge that reported them.  complete stores the dict it is
\* given, so the last part also needs a caller that leaves that dict alone.
MergeSound ==
  report.status # "none" =>
    /\ \A i \in DOMAIN report.ids : status[report.ids[i]] = "completed"
    /\ report.status = "pass" <=>
         \A i, j \in DOMAIN report.ids, p \in Paths :
           LET a == artifacts[report.ids[i]][p]
               b == artifacts[report.ids[j]][p]
           IN  a = b \/ a = NoDigest \/ b = NoDigest

=============================================================================
