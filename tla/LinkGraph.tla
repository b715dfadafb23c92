------------------------------ MODULE LinkGraph ------------------------------
(***************************************************************************)
(* descriptor_errors of migration_links.py, which accepts or refuses the   *)
(* relative links of a package, and the part of restore_relative_links     *)
(* (migration_link_restore.py) that puts accepted links in order, makes    *)
(* them and compares each with what the operating system makes of it.      *)
(* Claims, receipts and the flock of that adapter are in RestoreStaging.   *)
(*                                                                         *)
(* A path is the sequence of its components, the root is <<>>.  Hashes are *)
(* represented by what they tell apart: a link row records the kind and    *)
(* hash of the entry its chain ends in, or others.                         *)
(***************************************************************************)
EXTENDS Naturals, Sequences, FiniteSets, SequencesExt

CONSTANTS
  Inventory,    \* path of a file or directory -> "file" or "directory"
  SortedPaths,  \* the paths that links may have, in the order of their names
  Policies,     \* the link policies: rows by path, and the order of the list
  MaxDepth,     \* 64: the links a chain may have
  MaxFollow,    \* the links the operating system follows in one resolution
  MaxText       \* the components that 1024 bytes of link text can hold

\* What relative_path makes sure of.
RelativePath(path) ==
  path \in Seq(STRING) /\ path # <<>> /\ ToSet(path) \cap {"", ".", ".."} = {}

ASSUME LinkAssumption ==
  /\ MaxDepth \in Nat \ {0} /\ MaxFollow \in Nat /\ MaxText \in Nat
  /\ \A e \in DOMAIN Inventory : RelativePath(e)
  /\ SortedPaths \in Seq(ToSet(SortedPaths))
  /\ \A l \in ToSet(SortedPaths) : RelativePath(l)
  /\ \A p \in Policies :
       /\ DOMAIN p.row \subseteq ToSet(SortedPaths)
       /\ p.list \in Seq(DOMAIN p.row) /\ ToSet(p.list) = DOMAIN p.row
       /\ \A l \in DOMAIN p.row : p.row[l].target \in Seq(STRING)
                                 /\ Len(p.row[l].target) \in 1 .. MaxText

VARIABLES
  policy,     \* the policy under consideration
  linkPhase,  \* "new", "refused", "accepted", "placing", "stopped", "failed" or "restored"
  placed,     \* the links that exist in the staging directory
  nextLink    \* position in Ordered of the link to make next

linkVars == <<policy, linkPhase, placed, nextLink>>

LinkInit ==
  /\ policy \in Policies
  /\ linkPhase = "new" /\ placed = {} /\ nextLink = 1

-----------------------------------------------------------------------------
(* target_path.                                                            *)

Links == DOMAIN policy.row
Entries == DOMAIN Inventory
Parents(path) == {SubSeq(path, 1, n) : n \in 1 .. Len(path) - 1}

Directories ==
  {<<>>} \cup {e \in Entries : Inventory[e] = "directory"}
         \cup UNION {Parents(p) : p \in Entries \cup Links}

Nowhere == <<"">>

Refuse(w) == [w EXCEPT !.ok = FALSE]

Component(w, part) ==
  CASE part = "." -> w
    [] part = ".." -> IF w.parts = <<>> THEN Refuse(w)
                                        ELSE [w EXCEPT !.parts = Front(@)]
    [] OTHER -> [w EXCEPT !.parts = Append(@, part)]

\* Seeded fault: only the path that remains is checked, after ".." removed
\* components that the operating system goes through.
ThroughNormalised(w, part) ==
  IF ~w.ok THEN w ELSE Component(w, part)

\* Each component is taken from a directory that is not a link.
Through(w, part) ==
  IF ~w.ok \/ w.parts \in Links \/ w.parts \notin Directories
    THEN Refuse(w) ELSE Component(w, part)

\* Where the text has led after each of its components.
Lexical(l) ==
  LET text == policy.row[l].target
      w[n \in 0 .. Len(text)] ==
        IF n = 0 THEN [parts |-> Front(l), ok |-> TRUE]
                 ELSE Through(w[n - 1], text[n])
  IN  w

Target(l) ==
  LET w == Lexical(l)[Len(policy.row[l].target)]
  IN  IF w.ok /\ w.parts # <<>> THEN w.parts ELSE Nowhere

-----------------------------------------------------------------------------
(* descriptor_errors.                                                      *)

Follow(path) == IF path \in Links THEN Target(path) ELSE path

\* The path a link leads to, the one that leads to, and so on.
Chain(l) ==
  LET c[n \in 0 .. Cardinality(Links)] == IF n = 0 THEN l ELSE Follow(c[n - 1])
  IN  c

End(l) == Chain(l)[Cardinality(Links)]

\* How far the chain goes up to an entry or a link that was met before.
Ahead(l, met) ==
  Min({n \in 0 .. Cardinality(Links) : Chain(l)[n] \notin Links \ met}
        \cup {Cardinality(Links)})

\* resolve(): goes along the chain up to an entry or a link resolved before,
\* and has every link it visits agree with what the chain ends in.
Resolve(done, l) ==
  LET c == Chain(l)
      stop == Ahead(l, done.links)
      visited == {c[n] : n \in 0 .. stop - 1}
  IN  [ok |-> /\ done.ok
              /\ End(l) \in Entries
              /\ IF c[stop] \in Links THEN stop < MaxDepth ELSE stop <= MaxDepth
              /\ \A v \in visited : /\ Parents(Target(v)) \cap Links = {}
                                    /\ policy.row[v].matches,
       links |-> done.links \cup visited]

Resolution ==
  LET r[n \in 0 .. Len(policy.list)] ==
        IF n = 0 THEN [ok |-> TRUE, links |-> {}]
                 ELSE Resolve(r[n - 1], policy.list[n])
  IN  r

Resolvable == Resolution[Len(policy.list)].ok

\* The parents of all paths are directories, and no link has a path twice.
WellPlaced ==
  /\ Links \cap Entries = {}
  /\ \A p \in Entries \cup Links : \A q \in Parents(p) :
       q \notin Links /\ (q \in Entries => Inventory[q] = "directory")

Edges ==
  {<<Front(d), d>> : d \in Directories \ {<<>>}}
    \cup {<<Front(l), End(l)>> : l \in {k \in Links : End(k) \in Directories}}

\* Directories are taken away once nothing leads to them; none must remain.
NoDirectoryCycle ==
  LET rest[n \in 0 .. Cardinality(Directories)] ==
        IF n = 0 THEN Directories
        ELSE {d \in rest[n - 1] : \E e \in rest[n - 1] : <<e, d>> \in Edges}
  IN  rest[Cardinality(Directories)] = {}

Validate ==
  /\ linkPhase = "new"
  /\ linkPhase' = IF WellPlaced /\ Resolvable /\ NoDirectoryCycle
                    THEN "accepted" ELSE "refused"
  /\ UNCHANGED <<policy, placed, nextLink>>

-----------------------------------------------------------------------------
(* restore_relative_links.                                                 *)

\* order(): a link comes after the link it leads to.
Behind(done, l) ==
  LET n == Ahead(l, ToSet(done))
  IN  done \o [i \in 1 .. n |-> Chain(l)[n - i]]

Ordering ==
  LET o[n \in 0 .. Len(SortedPaths)] ==
        IF n = 0 THEN <<>> ELSE Behind(o[n - 1], SortedPaths[n])
  IN  o

Ordered == Ordering[Len(SortedPaths)]

\* verify_target(): the links further along the chain are there.
Verified(l) ==
  LET further == {Chain(l)[n] : n \in 1 .. Cardinality(Links)} \cap Links
  IN  /\ further \subseteq placed
      /\ Cardinality(further) <= MaxDepth
      /\ policy.row[l].matches

\* The operating system takes the components one by one and puts the text of
\* every link it meets before those that are left.
Step(w, live) ==
  LET part == Head(w.todo)
      path == Append(w.at, part)
      To(at, failed) == [at |-> at, todo |-> Tail(w.todo), follows |-> w.follows,
                         failed |-> failed]
  IN  IF w.failed \/ w.todo = <<>> THEN w
      ELSE IF w.at \notin Directories THEN [w EXCEPT !.failed = TRUE]
      ELSE IF part = "." THEN To(w.at, FALSE)
      ELSE IF part = ".." THEN IF w.at = <<>> THEN To(w.at, TRUE) ELSE To(Front(w.at), FALSE)
      ELSE IF path \in live
        THEN [at |-> w.at, todo |-> policy.row[path].target \o Tail(w.todo),
              follows |-> w.follows + 1, failed |-> w.follows >= MaxFollow]
      ELSE To(path, path \notin Entries \cup Directories)

\* No resolution takes longer: each link that is followed adds its text.
LongestWalk == MaxFollow * MaxText + 1

Walk(l, live) ==
  LET w[n \in 0 .. LongestWalk] ==
        IF n = 0
          THEN [at |-> Front(l), todo |-> <<Last(l)>>, follows |-> 0, failed |-> FALSE]
          ELSE Step(w[n - 1], live)
  IN  w

\* verify_actual_link()
Actual(l, live) ==
  LET w == Walk(l, live)[LongestWalk]
  IN  ~w.failed /\ w.todo = <<>> /\ w.at = End(l)

StartLinks ==
  /\ linkPhase \in {"accepted", "stopped", "failed"}
  /\ linkPhase' = "placing" /\ nextLink' = 1
  /\ UNCHANGED <<policy, placed>>

\* One row: the checks, the link unless an earlier call made it, the checks.
Place ==
  /\ linkPhase = "placing" /\ nextLink <= Len(Ordered)
  /\ LET l == Ordered[nextLink]
     IN  /\ placed' = IF Verified(l) THEN placed \cup {l} ELSE placed
         /\ linkPhase' = IF Verified(l) /\ Actual(l, placed \cup {l})
                           THEN linkPhase ELSE "failed"
  /\ nextLink' = nextLink + 1
  /\ UNCHANGED policy

CertifyPlaced ==
  /\ linkPhase = "placing" /\ nextLink > Len(Ordered)
  /\ linkPhase' = IF \A l \in Links : Verified(l) /\ Actual(l, placed)
                    THEN "restored" ELSE "failed"
  /\ UNCHANGED <<policy, placed, nextLink>>

\* An error, an interrupt or the death of the process.
StopLinks ==
  /\ linkPhase = "placing"
  /\ linkPhase' = "stopped"
  /\ UNCHANGED <<policy, placed, nextLink>>

LinkNext == Validate \/ StartLinks \/ Place \/ CertifyPlaced \/ StopLinks

LinkSpec == LinkInit /\ [][LinkNext]_linkVars

-----------------------------------------------------------------------------
(* Properties.                                                             *)

ChainLength(l) ==
  Cardinality({Chain(l)[n] : n \in 0 .. Cardinality(Links)} \cap Links)

\* A policy that descriptor_errors accepts can be restored: links in the
\* order of the code find their targets, and the operating system resolves
\* each to the entry the lexical check found, across stops and resumes.  This
\* is promised for chains within both depth limits.
AcceptedRestores ==
  linkPhase = "failed" =>
    \E l \in Links : ChainLength(l) > MaxDepth \/ ChainLength(l) > MaxFollow

\* TRACE-DM-MIGRATION.ko.md says that a descriptor has chains of at most 64
\* links.  The code counts the links of a chain from where it was resolved
\* before, so a list that names the end of a chain first has no limit.
ChainsBounded ==
  linkPhase \in {"accepted", "placing", "stopped", "failed", "restored"} =>
    \A l \in Links : ChainLength(l) <= MaxDepth

=============================================================================
