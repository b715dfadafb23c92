--------------------------- MODULE MigrationProofs ---------------------------
(* A migration keeps its evidence, its stages and the promise of            *)
(* OwnershipTransfer, for any kinds, tables, archives and bounds.           *)
EXTENDS MigrationTransaction, SequenceTheorems, TLAPS

\* What every stored value satisfies: its types, and the checks of
\* transaction_errors that the steps below rest on.
MigrationInv ==
  /\ value \in Transaction
  /\ recorded = Receipts(value)
  /\ CheckpointOK(value)
  /\ SupersessionOK(value)
  /\ HoldOK(value)
  /\ CompletionOK(value)

-----------------------------------------------------------------------------
(* Ranks.                                                                  *)

LEMMA RankOfStage ==
  ASSUME NEW s \in Stages
  PROVE  Rank(s) \in 1 .. 8 /\ PHASES[Rank(s)] = s
<1>1. DOMAIN PHASES = 1 .. 8
  BY DEF PHASES
<1>2. \E i \in DOMAIN PHASES : PHASES[i] = s
  BY DEF Stages
<1> QED
  BY <1>1, <1>2 DEF Rank

LEMMA Ranks ==
  /\ "planned" \in Stages /\ "completed" \in Stages
  /\ Rank("planned") = 1 /\ Rank("completed") = 8
  /\ "aborted" \notin Stages /\ "blocked" \notin Stages
  /\ "partial_commit" \notin Stages
<1>1. /\ "planned" \in Stages /\ "completed" \in Stages
      /\ "aborted" \notin Stages /\ "blocked" \notin Stages
      /\ "partial_commit" \notin Stages
  BY DEF Stages, PHASES
<1>2. \A i \in 1 .. 8 : /\ PHASES[i] = "planned" => i = 1
                        /\ PHASES[i] = "completed" => i = 8
  BY DEF PHASES
<1> QED
  BY <1>1, <1>2, RankOfStage

LEMMA RankIsOne ==
  ASSUME NEW s \in Stages
  PROVE  Rank(s) = 1 <=> s = "planned"
BY RankOfStage, Ranks DEF PHASES

-----------------------------------------------------------------------------
(* Histories and candidates.                                               *)

LEMMA PassedIsReceipt ==
  ASSUME NEW r \in Receipt
  PROVE  Passed(r) \in Receipt
BY DEF Passed, Receipt

LEMMA HistoriesAreReceipts ==
  ASSUME NEW v \in Transaction, NEW h \in Histories(v)
  PROVE  h \in Seq(Receipt)
<1>1. v.evidence \in Seq(Receipt)
  BY DEF Transaction
<1>2. ASSUME NEW r \in NewReceipts(v)
      PROVE  Append(v.evidence, r) \in Seq(Receipt)
  <2>1. Len(v.evidence) \in Nat
    BY <1>1
  <2>2. r \in Receipt
    BY <2>1 DEF NewReceipts, Receipt
  <2> QED
    BY <1>1, <2>2
<1>3. ASSUME NEW n \in 0 .. Len(v.evidence) - 1
      PROVE  SubSeq(v.evidence, 1, n) \in Seq(Receipt)
  <2>1. \A i \in 1 .. n : v.evidence[i] \in Receipt
    BY <1>1
  <2>2. n \in Int
    BY <1>1
  <2> QED
    BY <2>1, <2>2, SubSeqProperties
<1>4. ASSUME NEW i \in DOMAIN v.evidence
      PROVE  [v.evidence EXCEPT ![i] = Passed(v.evidence[i])] \in Seq(Receipt)
  <2>1. Passed(v.evidence[i]) \in Receipt
    BY <1>1, PassedIsReceipt
  <2> QED
    BY <1>1, <2>1
<1> QED
  BY <1>1, <1>2, <1>3, <1>4 DEF Histories

LEMMA ReceiptsOfTransaction ==
  ASSUME NEW v \in Transaction
  PROVE  Receipts(v) \in SUBSET Receipt
BY DEF Receipts, Transaction

\* A step stores a transaction that transition accepts.
LEMMA StepIsSubmit ==
  ASSUME value \in Transaction, Next
  PROVE  \E c \in Transaction : Submit(c)
<1>1. PICK p \in Phases, q \in Stages : SubmitStaged(Staged(p, q))
  BY DEF Next
<1> DEFINE c1 == Staged(p, q)
<1>2. c1 \in Transaction
  BY DEF Transaction, Staged
<1> HIDE DEF c1
<1>3. PICK s \in WriteStates, o \in Owners, f \in BOOLEAN, b \in BOOLEAN,
           a \in BOOLEAN, ok \in BOOLEAN :
        SubmitGoverned(Governed(c1, s, o, f, b, a, ok), Documents(c1))
  BY <1>1 DEF SubmitStaged, c1
<1> DEFINE c2 == Governed(c1, s, o, f, b, a, ok)
<1>4. c2 \in Transaction
  BY <1>2 DEF Transaction, Governed
<1> HIDE DEF c2
<1>5. PICK x \in Documents(c1) : SubmitCutover(Documented(c2, x))
  BY <1>3 DEF SubmitGoverned, c2
<1> DEFINE c3 == Documented(c2, x)
<1>6. c3 \in Transaction
  <2>1. x[1] \in Histories(value) /\ x[2] \in Archives \cup {NoArchive}
    BY DEF Documents
  <2>2. x[1] \in Seq(Receipt)
    BY <2>1, HistoriesAreReceipts
  <2> QED
    BY <1>4, <2>1, <2>2 DEF Transaction, Documented
<1> HIDE DEF c3
<1>7. PICK t \in Cutovers(c3), e \in FirstEpoch .. MaxEpoch :
        Submit([c3 EXCEPT !.cutover = t, !.epoch = e])
  BY <1>5 DEF SubmitCutover, c3
<1>8. t \in Cutover \cup {NoCutover}
  <2>1. /\ Receipts(value) \in SUBSET Receipt /\ Receipts(c3) \in SUBSET Receipt
        /\ value.archive \in Archives \cup {NoArchive}
        /\ c3.archive \in Archives \cup {NoArchive}
    BY <1>6, ReceiptsOfTransaction DEF Transaction
  <2>2. 0 .. MaxEpoch \subseteq Nat
    BY NumberAssumption
  <2> QED
    BY <2>1, <2>2 DEF Cutovers, Cutover
<1>9. [c3 EXCEPT !.cutover = t, !.epoch = e] \in Transaction
  <2>1. e \in Nat
    BY NumberAssumption
  <2> QED
    BY <1>6, <1>8, <2>1 DEF Transaction
<1> QED
  BY <1>7, <1>9

-----------------------------------------------------------------------------
(* The invariant.                                                          *)

LEMMA MigrationInvInit == Init => MigrationInv
<1> SUFFICES ASSUME Init
             PROVE  MigrationInv
  OBVIOUS
<1>1. value = Planned
  BY DEF Init
<1>2. Planned \in Transaction
  BY Ranks, NumberAssumption DEF Planned, Transaction, Phases, WriteStates, Owners
<1>3. Receipts(value) = {} /\ DOMAIN value.evidence = {}
  BY <1>1 DEF Planned, Receipts
<1>4. SupersessionOK(value)
  BY <1>3 DEF SupersessionOK, DistinctIds
<1>5. value.phase = "planned" /\ value.checkpoint = "planned" /\ ReachedRank(value) = 1
  BY <1>1, Ranks DEF Planned, ReachedRank
<1>6. HoldOK(value)
  BY <1>1, <1>5 DEF HoldOK, Planned, Failures
<1> QED
  BY <1>1, <1>2, <1>3, <1>4, <1>5, <1>6 DEF Init, MigrationInv, CheckpointOK, CompletionOK

\* What transition accepts keeps every receipt.
LEMMA KeepsReceipts ==
  ASSUME MigrationInv, NEW c \in Transaction, Submit(c)
  PROVE  recorded' = Receipts(c)
<1>1. recorded' = Receipts(value) \cup Receipts(c)
  BY DEF MigrationInv, Submit
<1>2. Receipts(value) \subseteq Receipts(c)
  <2>1. CASE value.phase = "completed"
    <3>1. c = [value EXCEPT !.activated = TRUE, !.approved = c.approved]
      BY <2>1 DEF Submit, Accepted, Activation
    <3>2. c.evidence = value.evidence
      BY <3>1 DEF MigrationInv, Transaction
    <3> QED
      BY <3>2 DEF Receipts
  <2>2. CASE value.phase # "completed"
    BY <2>2 DEF Submit, Accepted, HistoryKept
  <2> QED
    BY <2>1, <2>2
<1> QED
  BY <1>1, <1>2

LEMMA MigrationInvStep ==
  ASSUME MigrationInv, NEW c \in Transaction, Submit(c)
  PROVE  MigrationInv'
<1>1. value' = c
  BY DEF Submit
<1>2. CheckpointOK(c) /\ SupersessionOK(c) /\ HoldOK(c) /\ CompletionOK(c)
  BY DEF Submit, Accepted, PhaseAllowed, EvidenceOK
<1>3. (CheckpointOK(value) /\ SupersessionOK(value) /\ HoldOK(value) /\ CompletionOK(value))'
  BY <1>1, <1>2 DEF CheckpointOK, SupersessionOK, DistinctIds, HoldOK, Held, ReachedRank,
                    CompletionOK, Effective, Receipts
<1>4. recorded' = Receipts(value)'
  BY <1>1, KeepsReceipts DEF Receipts
<1> QED
  BY <1>1, <1>3, <1>4 DEF MigrationInv

LEMMA MigrationInvNext == MigrationInv /\ [Next]_vars => MigrationInv'
<1> SUFFICES ASSUME MigrationInv, [Next]_vars
             PROVE  MigrationInv'
  OBVIOUS
<1>1. CASE UNCHANGED vars
  BY <1>1 DEF vars, MigrationInv, CheckpointOK, SupersessionOK, DistinctIds, HoldOK, Held,
              ReachedRank, CompletionOK, Effective, Receipts
<1>2. CASE Next
  BY <1>2, StepIsSubmit, MigrationInvStep DEF MigrationInv
<1> QED
  BY <1>1, <1>2

THEOREM MigrationInvariant == Spec => []MigrationInv
BY MigrationInvInit, MigrationInvNext, PTL DEF Spec

\* The stored value is a transaction of the schema, whatever callers submit.
THEOREM MigrationTypes == Spec => []TypeOK
<1>1. MigrationInv => TypeOK
  BY ReceiptsOfTransaction DEF MigrationInv, TypeOK, SupersessionOK
<1> QED
  BY <1>1, MigrationInvariant, PTL

\* No receipt is lost or rewritten, through failures, abort and completion.
THEOREM KeepsEvidence == Spec => []NothingForgotten
<1>1. MigrationInv => NothingForgotten
  BY DEF MigrationInv, NothingForgotten
<1> QED
  BY <1>1, MigrationInvariant, PTL

\* A completed migration has corrected every failure that was ever recorded.
THEOREM FailuresCorrected == Spec => []CompletionCorrectsFailures
<1>1. MigrationInv => CompletionCorrectsFailures
  <2> SUFFICES ASSUME MigrationInv, value.phase = "completed", NEW r \in recorded
               PROVE  /\ r \in value.cutover.evidence
                      /\ ~r.passed =>
                           \E s \in Receipts(value) :
                             s.passed /\ s.kind = r.kind /\ r.id \in s.supersedes
    BY DEF CompletionCorrectsFailures
  <2>1. r \in Receipts(value) /\ r \in value.cutover.evidence
    BY DEF MigrationInv, CompletionOK
  <2>2. ASSUME ~r.passed
        PROVE  \E s \in Receipts(value) :
                 s.passed /\ s.kind = r.kind /\ r.id \in s.supersedes
    <3>1. r \notin Effective(value)
      BY <2>2 DEF MigrationInv, CompletionOK
    <3>2. PICK i \in DOMAIN value.evidence : r.id \in value.evidence[i].supersedes
      BY <2>1, <3>1 DEF Effective, Receipts
    <3>3. PICK j \in 1 .. i - 1 : /\ value.evidence[j].id = r.id
                                  /\ value.evidence[j].kind = value.evidence[i].kind
      BY <3>2 DEF MigrationInv, SupersessionOK
    <3>4. value.evidence[i].passed
      BY <3>2 DEF MigrationInv, SupersessionOK
    <3>5. j \in DOMAIN value.evidence
      <4>1. value.evidence \in Seq(Receipt)
        BY DEF MigrationInv, Transaction
      <4>2. DOMAIN value.evidence = 1 .. Len(value.evidence) /\ Len(value.evidence) \in Nat
        BY <4>1
      <4> QED
        BY <4>2
    <3>6. value.evidence[j] = r
      BY <2>1, <3>3, <3>5 DEF MigrationInv, SupersessionOK, DistinctIds, Receipts
    <3> QED
      BY <3>2, <3>3, <3>4, <3>6 DEF Receipts
  <2> QED
    BY <2>1, <2>2
<1> QED
  BY <1>1, MigrationInvariant, PTL

-----------------------------------------------------------------------------
(* Steps.                                                                  *)

\* Where a candidate may stand: the checkpoint stays, or moves to the next
\* stage, which is then the phase.
LEMMA CheckpointMoves ==
  ASSUME MigrationInv, NEW c \in Transaction, Submit(c)
  PROVE  \/ c.checkpoint = value.checkpoint
         \/ c.phase = c.checkpoint /\ Rank(c.checkpoint) = Rank(value.checkpoint) + 1
<1>1. CASE value.phase = "completed"
  <2>1. c = [value EXCEPT !.activated = TRUE, !.approved = c.approved]
    BY <1>1 DEF Submit, Accepted, Activation
  <2> QED
    BY <2>1 DEF MigrationInv, Transaction
<1>2. CASE value.phase # "completed" /\ c.phase \notin Stages
  BY <1>2 DEF Submit, Accepted, PhaseAllowed, CheckpointKept
<1>3. CASE value.phase # "completed" /\ c.phase \in Stages
  <2>1. c.checkpoint = c.phase /\ StageAllowed(value, c) /\ value.phase # "aborted"
    BY <1>3 DEF Submit, Accepted, PhaseAllowed, CheckpointOK
  <2>2. value.phase \in Phases /\ value.checkpoint \in Stages
    BY DEF MigrationInv, Transaction
  <2>3. CASE value.phase \in Failures
    BY <1>3, <2>1, <2>3 DEF StageAllowed
  <2>4. CASE value.phase \in Stages
    <3>1. value.checkpoint = value.phase
      BY <2>4 DEF MigrationInv, CheckpointOK
    <3>2. value.phase \notin Failures
      BY <2>4, Ranks DEF Failures
    <3>3. Rank(c.phase) \in {Rank(value.checkpoint), Rank(value.checkpoint) + 1}
      BY <1>3, <2>1, <3>1, <3>2 DEF StageAllowed
    <3>4. Rank(c.phase) = Rank(value.checkpoint) => c.phase = value.checkpoint
      BY <1>3, <2>2, RankOfStage
    <3> QED
      BY <2>1, <3>3, <3>4
  <2> QED
    BY <2>1, <2>2, <2>3, <2>4 DEF Phases
<1> QED
  BY <1>1, <1>2, <1>3

\* No stage is passed over, whatever failures come between.
THEOREM NoStageSkipped == Spec => StageByStage
<1>1. MigrationInv /\ [Next]_vars =>
        [value'.checkpoint # value.checkpoint =>
           /\ Rank(value'.checkpoint) = Rank(value.checkpoint) + 1
           /\ value'.phase = value'.checkpoint]_vars
  <2> SUFFICES ASSUME MigrationInv, Next, value'.checkpoint # value.checkpoint
               PROVE  /\ Rank(value'.checkpoint) = Rank(value.checkpoint) + 1
                      /\ value'.phase = value'.checkpoint
    BY DEF vars
  <2>1. PICK c \in Transaction : Submit(c)
    BY StepIsSubmit DEF MigrationInv
  <2>2. value' = c
    BY <2>1 DEF Submit
  <2> QED
    BY <2>1, <2>2, CheckpointMoves
<1> QED
  BY <1>1, MigrationInvariant, PTL DEF Spec, StageByStage

-----------------------------------------------------------------------------
(* The transfer of ownership.                                              *)

\* A source whose hold has been verified does not write.
LEMMA HeldIsClosed ==
  ASSUME NEW v \in Transaction, HoldOK(v), CheckpointOK(v), CompletionOK(v),
         v.phase \in {"completed", "aborted"} \/ v.checkpoint # "planned"
  PROVE  v.source # "active"
<1>1. v.phase \in Phases /\ v.checkpoint \in Stages
  BY DEF Transaction
<1>2. CASE v.phase = "aborted"
  BY <1>2 DEF HoldOK, Held
<1>3. CASE v.phase = "completed"
  BY <1>3 DEF CompletionOK
<1>4. CASE v.checkpoint # "planned"
  <2>1. ReachedRank(v) = Rank(v.checkpoint)
    BY DEF ReachedRank, CheckpointOK
  <2>2. ReachedRank(v) > 1
    BY <1>1, <1>4, <2>1, RankIsOne, RankOfStage
  <2> QED
    BY <2>2 DEF HoldOK, Held
<1> QED
  BY <1>2, <1>3, <1>4

LEMMA OpenWhenCompleted ==
  ASSUME NEW v \in Transaction, HoldOK(v), v.phase # "completed"
  PROVE  v.activated = FALSE
BY DEF HoldOK, Transaction

LEMMA TransferInit == Init => Transfer!Init
<1> SUFFICES ASSUME Init
             PROVE  Transfer!Init
  OBVIOUS
<1>1. value.phase = "planned" /\ value.checkpoint = "planned"
  BY DEF Init, Planned
<1>2. (value.source = "active") \in BOOLEAN
  OBVIOUS
<1>3. value.activated = FALSE /\ value.epoch = FirstEpoch
  BY DEF Init, Planned
<1> QED
  BY <1>1, <1>2, <1>3 DEF Transfer!Init

\* Outside completion and abort the owner, its epoch and the destination stay.
LEMMA OpenStays ==
  ASSUME MigrationInv, NEW c \in Transaction, Submit(c), c.phase # "completed"
  PROVE  /\ value.phase \notin {"completed", "aborted"}
         /\ c.epoch = value.epoch
         /\ value.activated = FALSE /\ c.activated = FALSE
<1>1. value.phase \notin {"completed", "aborted"}
  BY DEF Submit, Accepted, PhaseAllowed
<1>2. c.epoch = value.epoch
  BY <1>1 DEF Submit, Accepted, EpochAllowed
<1>3. HoldOK(c) /\ HoldOK(value) /\ value \in Transaction
  BY DEF Submit, Accepted, MigrationInv
<1> QED
  BY <1>1, <1>2, <1>3, OpenWhenCompleted

LEMMA TransferStep ==
  ASSUME MigrationInv, NEW c \in Transaction, Submit(c)
  PROVE  Transfer!Next \/ UNCHANGED Transfer!vars
<1>1. value' = c
  BY DEF Submit
<1>2. /\ value \in Transaction /\ HoldOK(value) /\ CheckpointOK(value)
      /\ CompletionOK(value)
  BY DEF MigrationInv
<1>3. HoldOK(c) /\ CheckpointOK(c) /\ CompletionOK(c)
  BY DEF Submit, Accepted, PhaseAllowed
<1>4. value.checkpoint \in Stages /\ c.checkpoint \in Stages
  BY <1>2 DEF Transaction
<1>5. \/ c.phase \in {"completed", "aborted"}
      \/ c.checkpoint # "planned" => c.source # "active"
  BY <1>3, HeldIsClosed
<1>6. CASE c.phase = "aborted"
  <2>1. /\ value.phase \notin {"completed", "aborted"} /\ c.epoch = value.epoch
        /\ value.activated = FALSE /\ c.activated = FALSE
    BY <1>6, OpenStays
  <2>2. c.source # "active"
    BY <1>3, <1>6, HeldIsClosed
  <2>3. Transfer!Abandon
    BY <1>1, <1>6, <2>1, <2>2 DEF Transfer!Abandon
  <2> QED
    BY <2>3 DEF Transfer!Next
<1>7. CASE c.phase = "completed" /\ value.phase = "completed"
  <2>1. ~value.activated /\ c.activated /\ c = [value EXCEPT !.activated = TRUE, !.approved = c.approved]
    BY <1>7 DEF Submit, Accepted, Activation
  <2>2. /\ c.source = value.source /\ c.epoch = value.epoch
        /\ value.activated \in BOOLEAN /\ c.activated \in BOOLEAN
    BY <1>2, <2>1 DEF Transaction
  <2>3. Transfer!Activate
    BY <1>1, <1>7, <2>1, <2>2 DEF Transfer!Activate
  <2> QED
    BY <2>3 DEF Transfer!Next
<1>8. CASE c.phase = "completed" /\ value.phase # "completed"
  <2>1. c.checkpoint = "completed"
    BY <1>3, <1>8, Ranks DEF CheckpointOK
  <2>2. value.checkpoint # "planned"
    <3>1. c.checkpoint = value.checkpoint \/ Rank(c.checkpoint) = Rank(value.checkpoint) + 1
      BY CheckpointMoves
    <3> QED
      BY <2>1, <3>1, Ranks
  <2>3. value.phase # "aborted"
    BY DEF Submit, Accepted, PhaseAllowed
  <2>4. value.source # "active" /\ c.source # "active"
    BY <1>2, <1>3, <1>8, <2>2, HeldIsClosed
  <2>5. c.epoch \in Nat /\ c.epoch > value.epoch
    <3>1. c.cutover.expected = value.epoch
      BY <1>8 DEF Submit, Accepted, EpochAllowed
    <3>2. c.cutover.new > c.cutover.expected /\ c.epoch = c.cutover.new
      BY <1>3, <1>8 DEF CompletionOK
    <3>3. c.epoch \in Nat
      BY DEF Transaction
    <3> QED
      BY <3>1, <3>2, <3>3
  <2>6. c.activated \in BOOLEAN
    BY DEF Transaction
  <2>7. Transfer!Move
    BY <1>1, <1>8, <2>2, <2>3, <2>4, <2>5, <2>6 DEF Transfer!Move
  <2> QED
    BY <2>7 DEF Transfer!Next
<1>9. CASE c.phase \notin {"completed", "aborted"}
  <2>1. /\ value.phase \notin {"completed", "aborted"} /\ c.epoch = value.epoch
        /\ value.activated = FALSE /\ c.activated = FALSE
    BY <1>9, OpenStays
  <2>2. value.checkpoint # "planned" => c.checkpoint # "planned"
    <3>1. c.checkpoint = value.checkpoint \/ Rank(c.checkpoint) = Rank(value.checkpoint) + 1
      BY CheckpointMoves
    <3>2. Rank(value.checkpoint) \in 1 .. 8
      BY <1>4, RankOfStage
    <3>3. Rank(c.checkpoint) = Rank(value.checkpoint) + 1 => c.checkpoint # "planned"
      BY <1>4, <3>2, RankIsOne
    <3> QED
      BY <3>1, <3>3
  <2>3. CASE c.checkpoint = "planned"
    <3>1. Transfer!Plan
      BY <1>1, <1>9, <2>1, <2>2, <2>3 DEF Transfer!Plan
    <3> QED
      BY <3>1 DEF Transfer!Next
  <2>4. CASE c.checkpoint # "planned" /\ value.checkpoint = "planned"
    <3>1. Transfer!Hold
      BY <1>1, <1>5, <1>9, <2>1, <2>4 DEF Transfer!Hold
    <3> QED
      BY <3>1 DEF Transfer!Next
  <2>5. CASE c.checkpoint # "planned" /\ value.checkpoint # "planned"
    <3>1. value.source # "active" /\ c.source # "active"
      BY <1>2, <1>5, <1>9, <2>5, HeldIsClosed
    <3> QED
      BY <1>1, <1>9, <2>1, <2>5, <3>1 DEF Transfer!vars
  <2> QED
    BY <2>3, <2>4, <2>5
<1> QED
  BY <1>6, <1>7, <1>8, <1>9

\* Stages, failures, resumes, aborts and corrections add nothing to the
\* transfer of ownership.
THEOREM TransferImplemented == Spec => ImplementsTransfer
<1>1. MigrationInv /\ [Next]_vars => [Transfer!Next]_(Transfer!vars)
  <2> SUFFICES ASSUME MigrationInv, [Next]_vars
               PROVE  Transfer!Next \/ UNCHANGED Transfer!vars
    OBVIOUS
  <2>1. CASE UNCHANGED vars
    BY <2>1 DEF vars, Transfer!vars
  <2>2. CASE Next
    BY <2>2, StepIsSubmit, TransferStep DEF MigrationInv
  <2> QED
    BY <2>1, <2>2
<1> QED
  BY <1>1, TransferInit, MigrationInvariant, PTL DEF Spec, ImplementsTransfer, Transfer!Spec

\* The source is closed from the first verified stage on, and the destination
\* writes only as the owner, under an epoch above the first.
THEOREM OneSideWrites == Spec => []Transfer!TransferInv
<1> DEFINE Inv == Transfer!TransferTypeOK /\ Transfer!TransferInv
<1>1. Transfer!Init => Inv
  <2> SUFFICES ASSUME Transfer!Init
               PROVE  Inv
    OBVIOUS
  <2>1. value.activated = FALSE /\ value.epoch = FirstEpoch
        /\ value.phase \notin {"completed", "aborted"} /\ value.checkpoint = "planned"
    BY DEF Transfer!Init
  <2>2. ~value.activated /\ value.activated \in BOOLEAN
    BY <2>1, Zenon
  <2>3. Transfer!TransferTypeOK
    BY <2>1, <2>2, NumberAssumption DEF Transfer!TransferTypeOK
  <2>4. Transfer!TransferInv
    BY <2>1, <2>2, NumberAssumption DEF Transfer!TransferInv
  <2> QED
    BY <2>3, <2>4
<1>2. Inv /\ [Transfer!Next]_(Transfer!vars) => Inv'
  <2> SUFFICES ASSUME Inv, [Transfer!Next]_(Transfer!vars)
               PROVE  Inv'
    OBVIOUS
  <2> USE NumberAssumption DEF Transfer!TransferTypeOK, Transfer!TransferInv
  <2>1. CASE Transfer!Plan
    BY <2>1 DEF Transfer!Plan
  <2>2. CASE Transfer!Hold
    BY <2>2 DEF Transfer!Hold
  <2>3. CASE Transfer!Abandon
    BY <2>3 DEF Transfer!Abandon
  <2>4. CASE Transfer!Move
    BY <2>4 DEF Transfer!Move
  <2>5. CASE Transfer!Activate
    BY <2>5 DEF Transfer!Activate
  <2>6. CASE UNCHANGED Transfer!vars
    BY <2>6 DEF Transfer!vars
  <2> QED
    BY <2>1, <2>2, <2>3, <2>4, <2>5, <2>6 DEF Transfer!Next
<1>3. Inv => Transfer!TransferInv
  OBVIOUS
<1> HIDE DEF Inv
<1> QED
  BY <1>1, <1>2, <1>3, TransferImplemented, PTL DEF ImplementsTransfer, Transfer!Spec

=============================================================================
