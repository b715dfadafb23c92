------------------------ MODULE MigrationTransaction ------------------------
(***************************************************************************)
(* transition and transaction_errors of src/trace_gate/migration.py: the   *)
(* stages of a document migration, the evidence each needs, failures,      *)
(* abort, cutover and activation of the destination.                       *)
(*                                                                         *)
(* transition is a pure comparison: value is the state a caller keeps in   *)
(* a store with compare-and-set, and a step is an accepted candidate.  A   *)
(* refused candidate and the replay of the present value change nothing.   *)
(*                                                                         *)
(* Abstractions.  The identity of transaction, plan and scope is fixed, as *)
(* a candidate of another one is refused.  A receipt fails when its result *)
(* is not "pass".  The phase "failed" is checked exactly as "blocked" is,  *)
(* which stands for both.  One package digest stands for the archive,      *)
(* package-set and reference-manifest digests, of which a transaction has  *)
(* one by its mode; the modes differ in the tables Required and Bound.     *)
(***************************************************************************)
EXTENDS Naturals, Sequences, FiniteSets

CONSTANTS
  Kinds,        \* kinds of evidence
  Required,     \* REQUIRED: stage -> the kinds it adds
  Bound,        \* kinds whose subject must be the package
  Archives,     \* package digests
  FirstEpoch,
  NoArchive, NoCutover,
  MaxReceipts,  \* bound: evidence receipts
  MaxEpoch      \* bound: epochs callers propose

PHASES == <<"planned", "migrating_frozen", "packaged", "delivered",
            "relocated", "received_complete", "cutover_pending", "completed">>

Stages == {PHASES[i] : i \in DOMAIN PHASES}
Failures == {"blocked", "partial_commit"}
Phases == Stages \cup Failures \cup {"aborted"}

Rank(stage) == CHOOSE i \in DOMAIN PHASES : PHASES[i] = stage

ASSUME TableAssumption ==
  Required \in [Stages -> SUBSET Kinds] /\ Bound \subseteq Kinds
ASSUME NumberAssumption ==
  FirstEpoch \in Nat /\ MaxReceipts \in Nat /\ MaxEpoch \in Nat
ASSUME NullAssumption == NoArchive \notin Archives

Receipt ==
  [id : Nat, kind : Kinds, passed : BOOLEAN, subject : Archives,
   supersedes : SUBSET Nat]

\* bilateral stands for the conditions of a receipt that both sides confirm:
\* freeze, acceptance, verification, partitions and owners.
Cutover ==
  [expected : Nat, new : Nat, evidence : SUBSET Receipt,
   archive : Archives \cup {NoArchive}, bilateral : BOOLEAN]

WriteStates == {"active", "frozen", "preservation_frozen"}
Owners == {"source", "destination", "unknown"}

Transaction ==
  [phase : Phases,
   checkpoint : Stages,        \* last_verified_phase
   evidence : Seq(Receipt),
   source : WriteStates,       \* source_write_state
   activated : BOOLEAN,        \* destination_business_writes
   owner : Owners,             \* canonical_owner
   epoch : Nat,                \* authority_epoch
   fenced : BOOLEAN,           \* every condition of fencing holds
   blockers : BOOLEAN,         \* blockers is not empty
   archive : Archives \cup {NoArchive},
   approved : BOOLEAN,         \* has the approval that its phase asks for
   cutover : Cutover \cup {NoCutover}]

VARIABLES
  value,        \* the transaction in the caller's store
  recorded      \* every receipt any value ever held

vars == <<value, recorded>>

-----------------------------------------------------------------------------
(* transaction_errors: what a single value must satisfy.                   *)

Receipts(v) == {v.evidence[i] : i \in DOMAIN v.evidence}

ReachedRank(v) == Rank(IF v.phase \in Stages THEN v.phase ELSE v.checkpoint)

CheckpointOK(v) == v.phase \in Stages => v.checkpoint = v.phase

DistinctIds(v) ==
  \A i, j \in DOMAIN v.evidence :
    v.evidence[i].id = v.evidence[j].id => i = j

\* Seeded faults: a correction may name a receipt of any kind; identities may
\* be used again.
SupersessionAnyKind(v) ==
  /\ DistinctIds(v)
  /\ \A i \in DOMAIN v.evidence : \A id \in v.evidence[i].supersedes :
       v.evidence[i].passed
SupersessionAnyId(v) ==
  \A i \in DOMAIN v.evidence : \A id \in v.evidence[i].supersedes :
    v.evidence[i].passed

\* A passing receipt may supersede earlier receipts of its kind.
SupersessionOK(v) ==
  /\ DistinctIds(v)
  /\ \A i \in DOMAIN v.evidence : \A id \in v.evidence[i].supersedes :
       /\ v.evidence[i].passed
       /\ \E j \in 1 .. i - 1 : /\ v.evidence[j].id = id
                                /\ v.evidence[j].kind = v.evidence[i].kind

Effective(v) ==
  {r \in Receipts(v) : \A s \in Receipts(v) : r.id \notin s.supersedes}

Needed(rank) == UNION {Required[PHASES[i]] : i \in 1 .. rank}

EvidenceOK(v) ==
  /\ SupersessionOK(v)
  /\ Needed(ReachedRank(v)) \subseteq {r.kind : r \in {r \in Effective(v) : r.passed}}
  /\ ReachedRank(v) >= Rank("packaged") =>
       /\ v.archive # NoArchive
       /\ \A r \in Effective(v) : r.kind \in Bound => r.subject = v.archive

Held(v) == v.source \in {"frozen", "preservation_frozen"}

\* Seeded fault: the freeze of the source is asked of normal stages only.
HoldOfStages(v) ==
  /\ v.phase \in Stages /\ ReachedRank(v) > 1 => Held(v) /\ v.fenced
  /\ v.phase # "completed" => ~v.activated
  /\ v.phase \in Failures => v.blockers

\* Who may write while the transaction is open, failed or aborted.
HoldOK(v) ==
  /\ ReachedRank(v) > 1 \/ v.phase = "aborted" => Held(v) /\ v.fenced
  /\ v.phase # "completed" =>
       /\ ~v.activated
       /\ v.phase \notin Failures => v.owner = "source"
  /\ v.phase \in Failures => v.blockers
  /\ v.phase = "partial_commit" => Held(v)
  /\ v.phase = "aborted" => v.approved

CompletionOK(v) ==
  v.phase = "completed" =>
    /\ ~v.blockers
    /\ \A r \in Effective(v) : r.passed
    /\ v.source = "preservation_frozen"
    /\ v.cutover # NoCutover
    /\ v.cutover.new > v.cutover.expected
    /\ v.cutover.bilateral
    /\ v.cutover.archive = v.archive
    /\ v.cutover.evidence = Receipts(v)
    /\ v.owner = "destination"
    /\ v.epoch = v.cutover.new
    /\ v.activated => v.approved

-----------------------------------------------------------------------------
(* transition: what a candidate may change.                                *)

\* Seeded fault: the stage that failed is passed over.
StageSkipped(v, c) ==
  c.phase \in Stages =>
    Rank(c.phase) \in {Rank(v.checkpoint) + 1, Rank(v.checkpoint) + 2}

\* A failure or an abort keeps the checkpoint.
CheckpointKept(v, c) == c.phase \notin Stages => c.checkpoint = v.checkpoint

\* A failure or an abort adds no passing receipt.
NoPassInjected(v, c) ==
  c.phase \notin Stages =>
    \A r \in Receipts(c) : r.id \in {s.id : s \in Receipts(v)} \/ ~r.passed

\* A normal stage is followed by itself or the next one, a failure by the
\* stage after the checkpoint.
StageAllowed(v, c) ==
  c.phase \in Stages =>
    IF v.phase \in Failures
      THEN Rank(c.phase) = Rank(v.checkpoint) + 1
      ELSE Rank(c.phase) \in {Rank(v.phase), Rank(v.phase) + 1}

EpochAllowed(v, c) ==
  IF c.phase = "completed" THEN c.cutover.expected = v.epoch
                           ELSE c.epoch = v.epoch

\* Seeded fault: a failure may leave history out.
HistoryOfStages(v, c) == c.phase \in Stages => Receipts(v) \subseteq Receipts(c)

HistoryKept(v, c) == Receipts(v) \subseteq Receipts(c)

\* A completed transaction changes once more, to open the destination.
Activation(v, c) ==
  /\ ~v.activated /\ c.activated
  /\ c = [v EXCEPT !.activated = TRUE, !.approved = c.approved]

\* The part of a candidate's checks that concerns its phase and checkpoint.
PhaseAllowed(v, c) ==
  /\ v.phase # "aborted"
  /\ CheckpointOK(c)
  /\ IF v.phase = "completed"
       THEN c.phase = "completed"
       ELSE CheckpointKept(v, c) /\ StageAllowed(v, c)

Accepted(v, c) ==
  /\ PhaseAllowed(v, c)
  /\ IF v.phase = "completed"
       THEN Activation(v, c)
       ELSE EpochAllowed(v, c) /\ HistoryKept(v, c) /\ NoPassInjected(v, c)
  /\ HoldOK(c) /\ CompletionOK(c) /\ EvidenceOK(c)

-----------------------------------------------------------------------------
Planned ==
  [phase |-> "planned", checkpoint |-> "planned", evidence |-> <<>>,
   source |-> "active", activated |-> FALSE, owner |-> "source",
   epoch |-> FirstEpoch, fenced |-> FALSE, blockers |-> FALSE,
   archive |-> NoArchive, approved |-> FALSE, cutover |-> NoCutover]

Init == value = Planned /\ recorded = {}

\* The receipts a caller may add, under an identity of their own or a used one.
NewReceipts(v) ==
  [id : {1, Len(v.evidence) + 1},
   kind : IF Len(v.evidence) < MaxReceipts THEN Kinds ELSE {},
   passed : BOOLEAN, subject : Archives,
   supersedes : {{}} \cup {{i} : i \in 1 .. Len(v.evidence)}]

Passed(r) == [r EXCEPT !.passed = TRUE]

\* Histories a caller may submit: the present one, with a receipt more, or
\* with a receipt lost or rewritten.
Histories(v) ==
  {v.evidence}
  \cup {Append(v.evidence, r) : r \in NewReceipts(v)}
  \cup {SubSeq(v.evidence, 1, n) : n \in 0 .. Len(v.evidence) - 1}
  \cup {[v.evidence EXCEPT ![i] = Passed(v.evidence[i])] : i \in DOMAIN v.evidence}

\* Receipts of a cutover: prepared against some epoch, for some evidence.
Cutovers(c) ==
  IF c.phase # "completed"
    THEN {NoCutover}
    ELSE [expected : 0 .. MaxEpoch, new : 0 .. MaxEpoch,
          evidence : {Receipts(value), Receipts(c)},
          archive : {value.archive, c.archive}, bilateral : BOOLEAN]

\* Nobody names blockers, an approval or an unknown owner where they are not
\* asked for: there they are never read.
Tidy(c) ==
  /\ c.blockers => c.phase \in Failures \cup {"completed"}
  /\ c.approved => c.phase \in {"completed", "aborted"}
  /\ c.owner = "unknown" => c.phase = "partial_commit"

Submit(c) ==
  /\ c # value
  /\ Accepted(value, c)
  /\ value' = c
  /\ recorded' = recorded \cup Receipts(c)

\* Histories and package digests that pass the checks of evidence.
Documents(c) ==
  {x \in Histories(value) \X (Archives \cup {NoArchive}) :
     EvidenceOK([c EXCEPT !.evidence = x[1], !.archive = x[2]])}

\* A caller fills in a candidate: the stage, who may write, the history and
\* the cutover.  A part that is refused by itself is not completed.
Staged(p, q) == [value EXCEPT !.phase = p, !.checkpoint = q]

Governed(c, s, o, f, b, a, ok) ==
  [c EXCEPT !.source = s, !.owner = o, !.fenced = f, !.blockers = b,
            !.activated = a, !.approved = ok]

Documented(c, x) == [c EXCEPT !.evidence = x[1], !.archive = x[2]]

SubmitCutover(c) ==
  \E t \in Cutovers(c), e \in FirstEpoch .. MaxEpoch :
    Submit([c EXCEPT !.cutover = t, !.epoch = e])

SubmitGoverned(c, documents) ==
  /\ Tidy(c)
  /\ HoldOK(c)
  /\ \E x \in documents : SubmitCutover(Documented(c, x))

SubmitStaged(c) ==
  /\ PhaseAllowed(value, c)
  /\ \E documents \in {Documents(c)},
        s \in WriteStates, o \in Owners, f, b, a, ok \in BOOLEAN :
       SubmitGoverned(Governed(c, s, o, f, b, a, ok), documents)

Next == \E p \in Phases, q \in Stages : SubmitStaged(Staged(p, q))

Spec == Init /\ [][Next]_vars

-----------------------------------------------------------------------------
(* Properties.                                                             *)

\* The stored value is a transaction of the schema, and an identity names one
\* receipt.
TypeOK ==
  value \in Transaction /\ DistinctIds(value) /\ recorded \subseteq Receipt

\* No receipt that was ever stored is lost or rewritten, through failures,
\* abort, completion and activation.
NothingForgotten == recorded = Receipts(value)

\* A completed migration has, for every failure ever recorded, a later passing
\* receipt of the same kind that names it, and no cutover leaves one out.
CompletionCorrectsFailures ==
  value.phase = "completed" =>
    \A r \in recorded :
      /\ r \in value.cutover.evidence
      /\ ~r.passed =>
           \E s \in Receipts(value) :
             s.passed /\ s.kind = r.kind /\ r.id \in s.supersedes

\* The checkpoint moves one stage at a time, only into a normal stage, whatever
\* failures come between: no stage is passed over.
StageByStage ==
  [][value'.checkpoint # value.checkpoint =>
       /\ Rank(value'.checkpoint) = Rank(value.checkpoint) + 1
       /\ value'.phase = value'.checkpoint]_vars

-----------------------------------------------------------------------------
(* The transaction implements the transfer of ownership.                   *)

Transfer ==
  INSTANCE OwnershipTransfer WITH
    stage <- IF value.phase = "completed" THEN "moved"
             ELSE IF value.phase = "aborted" THEN "abandoned"
             ELSE IF value.checkpoint = "planned" THEN "planned" ELSE "held",
    sourceOpen <- value.source = "active",
    destOpen <- value.activated,
    epoch <- value.epoch

\* Ownership and the right to write pass once, from a source that never writes
\* again after the first verified stage, to a destination under a newer epoch:
\* stages, failures, resumes and aborts add nothing to OwnershipTransfer.
ImplementsTransfer == Transfer!Spec

\* TRACE-DM-MIGRATION.ko.md: a cutover is entered after confirming that the
\* destination's acceptance refers to the archive of the transaction.
AcceptedPackage ==
  Rank(value.checkpoint) >= Rank("cutover_pending") =>
    \A r \in Effective(value) :
      r.kind \in Required["received_complete"] => r.subject = value.archive

=============================================================================
