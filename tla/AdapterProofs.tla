---------------------------- MODULE AdapterProofs ----------------------------
(***************************************************************************)
(* Theorems about four adapters that share no state: the authority a gate  *)
(* grants is backed, for any policies, facts and records; a receipt of an  *)
(* extraction stands for a whole tree, for any archives and manifests; a   *)
(* prompt holds what intent and profile allow, and the candidates kept are *)
(* the best, for any documents and answers of a search; a link policy that *)
(* is accepted is restored as far as the system's limits let it be, for    *)
(* any links, directories and texts.                                       *)
(***************************************************************************)
EXTENDS GateEvaluation, ArchiveExtraction, ContextPipeline, LinkGraph, Positions,
        FiniteSetTheorems, SequenceTheorems, TLAPS

-----------------------------------------------------------------------------
(* Gates.                                                                  *)

\* What the resolver vouches for was observed.
Vouched == \A r \in Refs : trusted[r] # None => <<r, trusted[r]>> \in observations

GateInv ==
  /\ requirement \in Requirements
  /\ trusted \in [Refs -> Record \cup {None}]
  /\ Vouched
  /\ AuthorityIsBacked

\* compare() passes only values that meet the requirement: six operators, and
\* no value of one kind passes for another.
LEMMA CompareIsSound ==
  ASSUME NEW k \in Keys, NEW f \in FactSets, f[k] # None,
         NEW q \in Requirements, Compare(f[k], q[k])
  PROVE  Meets(f[k], q[k])
<1>1. /\ f[k] \in [type : STRING, num : Int]
      /\ q[k] \in [op : {"==", "!=", ">=", "<=", ">", "<"},
                   value : [type : STRING, num : Int]]
  BY GateAssumption
<1>2. f[k].num \in Int /\ q[k].value.num \in Int
      /\ q[k].op \in {"==", "!=", ">=", "<=", ">", "<"}
  BY <1>1
<1>3. f[k].type = q[k].value.type \/ {f[k].type, q[k].value.type} \subseteq {"int", "float"}
  BY DEF Compare, Compatible, Numbers
<1>4. /\ f[k].num < q[k].value.num => q[k].op \in {"<", "<=", "!="}
      /\ f[k].num > q[k].value.num => q[k].op \in {">", ">=", "!="}
      /\ f[k].num = q[k].value.num => q[k].op \in {"==", ">=", "<="}
  BY <1>2 DEF Compare
<1> QED
  BY <1>3, <1>4 DEF Meets

\* A receipt whose status is pass has facts that meet the whole policy.
LEMMA PassMeets ==
  ASSUME requirement \in Requirements,
         NEW facts \in FactSets, NEW rs \in SUBSET Refs, Status(facts, rs) = "pass"
  PROVE  rs # {} /\ \A k \in Keys : Meets(facts[k], requirement[k])
<1>1. Missing(facts) = {} /\ rs # {}
  BY DEF Status
<1>2. \A k \in Keys : Compare(facts[k], requirement[k])
  BY <1>1 DEF Status
<1>3. \A k \in Keys : facts[k] # None
  BY <1>1 DEF Missing
<1> QED
  BY <1>1, <1>2, <1>3, CompareIsSound

\* A record that backs a reference was observed, in time.
LEMMA BackedByObservation ==
  ASSUME GateInv, NEW r \in Held(trusted), NEW f \in FactSets, NEW t \in Targets,
         NEW at \in 0 .. MaxTime, Backs(r, f, t, at)
  PROVE  \E o \in observations :
           /\ o[1] = r /\ o[2].passed
           /\ o[2].facts = f /\ o[2].target = t
           /\ o[2].observed <= at /\ at <= o[2].observed + MaxAge
           /\ at < o[2].expires
<1>1. r \in Refs /\ trusted[r] # None
  BY DEF Held
<1>2. trusted[r] \in Record /\ <<r, trusted[r]>> \in observations
  BY <1>1 DEF GateInv, Vouched
<1>3. trusted[r].observed \in Int /\ MaxAge \in Int /\ at \in Int
  BY <1>2, GateAssumption DEF Record
<1>4. /\ trusted[r].passed
      /\ trusted[r].facts = f /\ trusted[r].target = t
      /\ at - trusted[r].observed \in 0 .. MaxAge
      /\ at < trusted[r].expires
  BY DEF Backs
<1>5. trusted[r].observed <= at /\ at <= trusted[r].observed + MaxAge
  BY <1>3, <1>4
<1> DEFINE o == <<r, trusted[r]>>
<1>6. o[1] = r /\ o[2] = trusted[r]
  OBVIOUS
<1> HIDE DEF o
<1> QED
  BY <1>2, <1>4, <1>5, <1>6 DEF o

LEMMA GateInvInit == GateInit => GateInv
BY DEF GateInit, GateInv, Vouched, AuthorityIsBacked, Unevaluated

LEMMA GateInvNext == GateInv /\ [GateNext]_gateVars => GateInv'
<1> SUFFICES ASSUME GateInv, [GateNext]_gateVars
             PROVE  GateInv'
  OBVIOUS
<1>1. CASE UNCHANGED gateVars
  BY <1>1 DEF gateVars, GateInv, Vouched, AuthorityIsBacked
<1>2. ASSUME NEW f \in FactSets, NEW rs \in SUBSET Refs, NEW at \in 0 .. MaxTime,
             EvaluateGate(f, rs, at)
      PROVE  GateInv'
  <2>1. AuthorityIsBacked'
    BY <1>2, PassMeets DEF EvaluateGate, Issue, AuthorityIsBacked, GateInv
  <2> QED
    BY <1>2, <2>1 DEF EvaluateGate, GateInv, Vouched
<1>3. ASSUME NEW f \in FactSets, NEW rs \in SUBSET Refs, NEW at \in 0 .. MaxTime,
             NEW t \in Targets, EvaluateBoundGate(f, rs, t, at)
      PROVE  GateInv'
  <2>1. UNCHANGED <<requirement, evidence, trusted, observations, rewrites>>
    BY <1>3 DEF EvaluateBoundGate
  <2>2. AuthorityIsBacked'
    <3>1. CASE receipt' = [Unevaluated EXCEPT !.status = "raised"]
      BY <3>1 DEF AuthorityIsBacked, Unevaluated
    <3>2. CASE /\ receipt' = Issue(TRUE, f, rs, t, at)
               /\ rs = Held(trusted) /\ \A r \in rs : Backs(r, f, t, at)
      <4>1. /\ receipt'.facts = f /\ receipt'.refs = rs /\ receipt'.target = t
            /\ receipt'.at = at /\ receipt'.bound
            /\ receipt'.authority => Status(f, rs) = "pass"
        BY <3>2 DEF Issue
      <4>2. receipt'.authority =>
              rs # {} /\ \A k \in Keys : Meets(f[k], requirement[k])
        BY <4>1, PassMeets DEF GateInv
      <4>3. \A r \in rs : \E o \in observations :
              /\ o[1] = r /\ o[2].passed
              /\ o[2].facts = f /\ o[2].target = t
              /\ o[2].observed <= at /\ at <= o[2].observed + MaxAge
              /\ at < o[2].expires
        BY <3>2, BackedByObservation
      <4> QED
        BY <2>1, <4>1, <4>2, <4>3 DEF AuthorityIsBacked
    <3> QED
      BY <1>3, <3>1, <3>2 DEF EvaluateBoundGate
  <2> QED
    BY <2>1, <2>2 DEF GateInv, Vouched
<1>4. ASSUME NEW r \in Refs, NEW record \in Record, MakeObservation(r, record),
             receipt.status = "none"
      PROVE  GateInv'
  <2>1. /\ trusted' = [trusted EXCEPT ![r] = record]
        /\ observations' = observations \cup {<<r, record>>}
        /\ UNCHANGED <<requirement, receipt>>
    BY <1>4 DEF MakeObservation
  <2>2. trusted' \in [Refs -> Record \cup {None}] /\ Vouched'
    BY <2>1 DEF GateInv, Vouched
  <2>3. AuthorityIsBacked'
    BY <2>1 DEF GateInv, AuthorityIsBacked
  <2> QED
    BY <2>1, <2>2, <2>3 DEF GateInv
<1>5. ASSUME NEW r \in Refs, RewriteRecord(r)
      PROVE  GateInv'
  BY <1>5 DEF RewriteRecord, GateInv, Vouched, AuthorityIsBacked
<1>6. ASSUME NEW r \in Refs, NEW f \in FactSets, NEW t \in Targets,
             NEW n \in 0 .. MaxTime, NEW p \in BOOLEAN
      PROVE  [facts |-> f, target |-> t, observed |-> n,
              expires |-> n + Validity, passed |-> p] \in Record
  BY GateAssumption DEF Record
<1> QED
  BY <1>1, <1>2, <1>3, <1>4, <1>5, <1>6 DEF GateNext

\* evaluate_gate grants authority only for facts that meet the policy, and
\* evaluate_bound_gate only for those that were observed for its target, in
\* time and as passed: whatever is observed, replaced or rewritten before.
THEOREM GateAuthority == GateSpec => []AuthorityIsBacked
<1>1. GateInv => AuthorityIsBacked
  BY DEF GateInv
<1> QED
  BY GateInvInit, GateInvNext, <1>1, PTL DEF GateSpec

-----------------------------------------------------------------------------
(* Extraction.                                                             *)

\* The caller made the destination and is writing it.
Writes(p) == extractor[p] \in {"enter", "write", "flush", "reread"}

\* It is at a member that is a file.
AtFile(p) == extractor[p] \in {"write", "flush", "reread"}

FilesBefore(a, k) == {a[j].path : j \in {i \in DOMAIN a : i < k /\ ~a[i].dir}}

\* What is known of a destination: below it there is nothing without it, and
\* what survives a loss of power is in it.
SoundDestination ==
  /\ Root \notin DOMAIN tree => DOMAIN tree = {}
  /\ flushed \subseteq FilesThere
  /\ settled \subseteq DOMAIN tree

\* What is known of a caller past the checks: what it holds is what was
\* approved, and the files there are those of the members before its own.
SoundExtraction(p) ==
  /\ extractor[p] \in {"copy", "verify", "make"} => member[p] = 1
  /\ extractor[p] = "make" \/ Writes(p) => Verifies(snapshot[p])
  /\ Writes(p) =>
       /\ Root \in DOMAIN tree
       /\ \A q \in FilesBefore(snapshot[p], member[p]) :
            q \in flushed /\ tree[q] = Expected(q)
       /\ FilesThere = FilesBefore(snapshot[p], member[p]) \cup
                         (IF AtFile(p) THEN {Current(p).path} ELSE {})
  /\ AtFile(p) => member[p] \in DOMAIN snapshot[p] /\ ~Current(p).dir
  /\ extractor[p] \in {"flush", "reread"} => tree[Current(p).path] = Current(p).data
  /\ extractor[p] = "reread" => Current(p).path \in flushed

ArchiveInv ==
  /\ approved \in [archive : Archives, manifest : Manifests]
  /\ archiveFile \in Archives
  /\ extractor \in [Callers -> {"idle", "copy", "verify", "make", "enter",
                                "write", "flush", "reread"}]
  /\ snapshot \in [Callers -> Archives \cup {Mixed}]
  /\ member \in [Callers -> Nat \ {0}]
  /\ SoundDestination
  /\ \A p \in Callers : SoundExtraction(p)
  \* One caller makes the destination; after a receipt nobody does.
  /\ \A p, q \in Callers : Writes(p) /\ Writes(q) => p = q
  /\ receipts # {} => /\ \A p \in Callers : ~Writes(p)
                      /\ Root \in settled
                      /\ FilesThere \subseteq flushed
  /\ ReceiptIsTree

-----------------------------------------------------------------------------
(* What the checks of a snapshot say of its members.                       *)

LEMMA MemberTypes ==
  ASSUME NEW a \in Archives \cup {Mixed}
  PROVE  /\ a \in Seq([path : Seq(STRING), dir : BOOLEAN,
                       data : STRING \ {IsDirectory}])
         /\ Len(a) \in Nat /\ DOMAIN a = 1 .. Len(a)
         /\ \A i \in DOMAIN a : a[i].data # IsDirectory
<1> DEFINE M == [path : Seq(STRING), dir : BOOLEAN, data : STRING \ {IsDirectory}]
<1>1. \A b \in Archives : b \in Seq(M)
  BY ArchiveAssumption
<1>2. \A m \in M : m.data # IsDirectory
  OBVIOUS
<1> HIDE DEF M
<1>3. a \in Seq(M)
  BY <1>1, EmptySeq DEF Mixed
<1>4. Len(a) \in Nat /\ DOMAIN a = 1 .. Len(a) /\ \A i \in DOMAIN a : a[i] \in M
  BY <1>3
<1> QED
  BY <1>2, <1>3, <1>4 DEF M

\* No path is in an archive twice.
LEMMA PathsDistinct ==
  ASSUME NEW a \in Archives, WellFormed(a),
         NEW i \in DOMAIN a, NEW j \in DOMAIN a, a[i].path = a[j].path
  PROVE  i = j
<1> DEFINE f == [k \in 1 .. Len(a) |-> a[k].path]
<1>1. Len(a) \in Nat /\ DOMAIN a = 1 .. Len(a)
  BY MemberTypes
<1>2. f \in Surjection(1 .. Len(a), Paths(a))
  <2>1. f \in [1 .. Len(a) -> Paths(a)]
    BY <1>1 DEF Paths
  <2>2. \A q \in Paths(a) : \E k \in 1 .. Len(a) : f[k] = q
    BY <1>1 DEF Paths
  <2> QED
    BY <2>1, <2>2 DEF Surjection
<1>3. IsFiniteSet(1 .. Len(a)) /\ Cardinality(1 .. Len(a)) = Len(a)
  <2> DEFINE n == Len(a)
  <2>1. n \in Nat
    BY <1>1
  <2> HIDE DEF n
  <2>2. /\ IsFiniteSet(1 .. n)
        /\ Cardinality(1 .. n) = IF 1 > n THEN 0 ELSE n - 1 + 1
    BY <2>1, FS_Interval
  <2>3. Cardinality(1 .. n) = n
    BY <2>1, <2>2
  <2> QED
    BY <2>2, <2>3 DEF n
<1>4. Cardinality(Paths(a)) = Len(a)
  BY DEF WellFormed
<1> HIDE DEF f
<1>5. f \in Injection(1 .. Len(a), Paths(a))
  BY <1>2, <1>3, <1>4, FS_SurjSameCardinalityImpliesInj
<1> QED
  BY <1>1, <1>5 DEF Injection, IsInjective, f

\* The files of a verified snapshot are those approved, with their data.
LEMMA VerifiedFiles ==
  ASSUME approved \in [archive : Archives, manifest : Manifests],
         NEW a, Verifies(a)
  PROVE  /\ a \in Archives
         /\ FilesIn(a) = ApprovedFiles
         /\ \A i \in DOMAIN a : ~a[i].dir => a[i].data = Expected(a[i].path)
<1>1. a \in Archives /\ WellFormed(a)
  BY DEF Verifies
<1>2. PICK m \in DOMAIN a : a[m] = [path |-> ManifestPath, dir |-> FALSE,
                                    data |-> approved.manifest]
  BY DEF Verifies
<1>3. a[m].path = ManifestPath /\ ~a[m].dir /\ a[m].data = approved.manifest
  BY <1>2
<1>4. FilesIn(a) = ApprovedFiles
  BY <1>3 DEF Verifies, Covers, FilesIn, ApprovedFiles
<1>5. ASSUME NEW i \in DOMAIN a, ~a[i].dir
      PROVE  a[i].data = Expected(a[i].path)
  <2>1. CASE a[i].path = ManifestPath
    BY <1>1, <1>3, <2>1, PathsDistinct DEF Expected
  <2>2. CASE a[i].path # ManifestPath
    BY <1>5, <2>2 DEF Verifies, FilesIn, Expected
  <2> QED
    BY <2>1, <2>2
<1> QED
  BY <1>1, <1>4, <1>5

LEMMA FilesBeforeNext ==
  ASSUME NEW a \in Archives, NEW k \in DOMAIN a
  PROVE  FilesBefore(a, k + 1) =
           FilesBefore(a, k) \cup (IF a[k].dir THEN {} ELSE {a[k].path})
<1>1. DOMAIN a = 1 .. Len(a) /\ Len(a) \in Nat
  BY MemberTypes
<1>2. \A i \in DOMAIN a : i < k + 1 <=> i < k \/ i = k
  BY <1>1
<1> QED
  BY <1>2 DEF FilesBefore

LEMMA FilesBeforeEnd ==
  ASSUME NEW a \in Archives, NEW k \in Nat, k > Len(a)
  PROVE  FilesBefore(a, k) = FilesIn(a)
<1>1. DOMAIN a = 1 .. Len(a) /\ Len(a) \in Nat
  BY MemberTypes
<1>2. \A i \in DOMAIN a : i < k
  BY <1>1
<1> QED
  BY <1>2 DEF FilesBefore, FilesIn

\* The file a caller is at is none of those before it.
LEMMA CurrentIsNew ==
  ASSUME NEW a \in Archives, WellFormed(a), NEW k \in DOMAIN a
  PROVE  a[k].path \notin FilesBefore(a, k)
<1>1. DOMAIN a = 1 .. Len(a) /\ Len(a) \in Nat
  BY MemberTypes
<1> QED
  BY <1>1, PathsDistinct DEF FilesBefore

-----------------------------------------------------------------------------
(* Initially, and step by step.                                            *)

LEMMA ArchiveInvInit == ArchiveInit => ArchiveInv
<1> SUFFICES ASSUME ArchiveInit
             PROVE  ArchiveInv
  OBVIOUS
<1>1. /\ approved \in [archive : Archives, manifest : Manifests]
      /\ archiveFile \in Archives
  BY DEF ArchiveInit
<1>2. /\ extractor \in [Callers -> {"idle", "copy", "verify", "make", "enter",
                                    "write", "flush", "reread"}]
      /\ snapshot \in [Callers -> Archives \cup {Mixed}]
      /\ member \in [Callers -> Nat \ {0}]
  BY DEF ArchiveInit
<1>3. SoundDestination
  BY DEF ArchiveInit, SoundDestination
<1>4. \A p \in Callers : extractor[p] = "idle"
  BY DEF ArchiveInit
<1>5. receipts = {}
  BY DEF ArchiveInit
<1> QED
  BY <1>1, <1>2, <1>3, <1>4, <1>5
     DEF ArchiveInv, SoundExtraction, Writes, AtFile, ReceiptIsTree

\* A step that leaves the destination alone and after which a caller does not
\* write it, having passed the checks if it is about to make one.
LEMMA DestinationUntouched ==
  ASSUME ArchiveInv, NEW p \in Callers,
         UNCHANGED <<approved, receipts, destinationVars>>,
         archiveFile' \in Archives,
         NEW point \in {"idle", "copy", "verify", "make"}, To(p, point),
         NEW s \in Archives \cup {Mixed}, snapshot' = [snapshot EXCEPT ![p] = s],
         NEW k \in Nat \ {0}, member' = [member EXCEPT ![p] = k],
         point \in {"copy", "verify", "make"} => k = 1,
         point = "make" => Verifies(s)
  PROVE  ArchiveInv'
<1>1. /\ approved' = approved /\ receipts' = receipts /\ tree' = tree
      /\ flushed' = flushed /\ settled' = settled /\ powerLost' = powerLost
  BY DEF destinationVars
<1>2. /\ extractor' \in [Callers -> {"idle", "copy", "verify", "make", "enter",
                                     "write", "flush", "reread"}]
      /\ snapshot' \in [Callers -> Archives \cup {Mixed}]
      /\ member' \in [Callers -> Nat \ {0}]
  BY DEF ArchiveInv, To
<1>3. /\ extractor'[p] = point /\ snapshot'[p] = s /\ member'[p] = k
      /\ \A q \in Callers \ {p} : /\ extractor'[q] = extractor[q]
                                  /\ snapshot'[q] = snapshot[q]
                                  /\ member'[q] = member[q]
  BY DEF ArchiveInv, To
<1>4. SoundDestination' /\ FilesThere' = FilesThere
  BY <1>1 DEF ArchiveInv, SoundDestination, FilesThere
<1>5. ReceiptIsTree'
  BY <1>1, <1>4 DEF ArchiveInv, ReceiptIsTree, ApprovedFiles, Expected
<1>6. ~Writes(p)' /\ \A q \in Callers \ {p} : Writes(q)' = Writes(q)
  BY <1>3 DEF Writes
<1>7. SoundExtraction(p)'
  BY <1>1, <1>3, <1>6 DEF SoundExtraction, Verifies, Writes, AtFile
<1>8. ASSUME NEW q \in Callers \ {p}
      PROVE  SoundExtraction(q)'
  <2>1. SoundExtraction(q)
    BY DEF ArchiveInv
  <2>2. /\ extractor'[q] = extractor[q] /\ snapshot'[q] = snapshot[q]
        /\ member'[q] = member[q]
    BY <1>3
  <2>3. /\ Current(q)' = Current(q) /\ Writes(q)' = Writes(q)
        /\ AtFile(q)' = AtFile(q)
    BY <2>2 DEF Current, Writes, AtFile
  <2>4. \A x : Expected(x)' = Expected(x)
    BY <1>1 DEF Expected
  <2>5. Verifies(snapshot[q])' = Verifies(snapshot[q])
    BY <1>1, <2>2 DEF Verifies
  <2> QED
    BY <1>1, <1>4, <2>1, <2>2, <2>3, <2>4, <2>5 DEF SoundExtraction
<1>9. \A q \in Callers : SoundExtraction(q)'
  BY <1>7, <1>8
<1>10. \A q, r \in Callers : Writes(q)' /\ Writes(r)' => q = r
  BY <1>6 DEF ArchiveInv
<1>11. receipts' # {} => /\ \A q \in Callers : ~Writes(q)'
                         /\ Root \in settled'
                         /\ FilesThere' \subseteq flushed'
  BY <1>1, <1>4, <1>6 DEF ArchiveInv
<1> QED
  BY <1>1, <1>2, <1>4, <1>5, <1>9, <1>10, <1>11 DEF ArchiveInv

\* A step of the caller that writes the destination and goes on writing it:
\* what has to be shown of it, and of the destination.
LEMMA DestinationWritten ==
  ASSUME ArchiveInv, NEW p \in Callers, Writes(p) \/ Root \notin DOMAIN tree,
         receipts = {}, SoundExtraction(p)', SoundDestination',
         UNCHANGED <<approved, archiveFile, snapshot, receipts>>,
         NEW point \in {"enter", "write", "flush", "reread"}, To(p, point),
         NEW k \in Nat \ {0}, member' = [member EXCEPT ![p] = k]
  PROVE  ArchiveInv'
<1>1. \A q \in Callers \ {p} : ~Writes(q)
  BY DEF ArchiveInv, SoundExtraction
<1>2. /\ extractor' \in [Callers -> {"idle", "copy", "verify", "make", "enter",
                                     "write", "flush", "reread"}]
      /\ member' \in [Callers -> Nat \ {0}]
  BY DEF ArchiveInv, To
<1>3. \A q \in Callers \ {p} : extractor'[q] = extractor[q] /\ member'[q] = member[q]
  BY DEF ArchiveInv, To
<1>4. \A q \in Callers \ {p} : ~Writes(q)'
  BY <1>1, <1>3 DEF Writes
<1>5. ASSUME NEW q \in Callers \ {p}
      PROVE  SoundExtraction(q)'
  <2>1. /\ SoundExtraction(q) /\ ~Writes(q)'
        /\ extractor'[q] = extractor[q] /\ member'[q] = member[q]
    BY <1>3, <1>4 DEF ArchiveInv
  <2>2. Verifies(snapshot[q])' = Verifies(snapshot[q])
    BY DEF Verifies
  <2> QED
    BY <2>1, <2>2 DEF SoundExtraction, Writes, AtFile
<1>6. \A q \in Callers : SoundExtraction(q)'
  BY <1>5
<1>7. ReceiptIsTree'
  BY DEF ReceiptIsTree
<1> QED
  BY <1>2, <1>4, <1>6, <1>7 DEF ArchiveInv

\* No receipt was returned while a caller is writing the destination.
LEMMA NoReceiptWhileWritten ==
  ASSUME ArchiveInv, NEW p \in Callers, Writes(p)
  PROVE  receipts = {}
BY DEF ArchiveInv

LEMMA MakesDestination ==
  ASSUME ArchiveInv, NEW p \in Callers, MakeDestination(p)
  PROVE  ArchiveInv'
<1>1. /\ At(p, "make")
      /\ UNCHANGED <<archiveFile, approved, snapshot, member, receipts, flushed,
                     settled, powerLost>>
  BY DEF MakeDestination
<1>2. /\ snapshot[p] \in Archives \cup {Mixed} /\ member[p] \in Nat \ {0}
      /\ snapshot' = [snapshot EXCEPT ![p] = snapshot[p]]
      /\ member' = [member EXCEPT ![p] = member[p]]
      /\ archiveFile \in Archives
  BY <1>1 DEF ArchiveInv
<1>3. CASE To(p, "idle") /\ UNCHANGED tree
  BY <1>1, <1>2, <1>3, DestinationUntouched DEF destinationVars
<1>4. CASE /\ Root \notin DOMAIN tree /\ To(p, "enter")
           /\ tree' = [q \in {Root} |-> IsDirectory]
  <2>1. DOMAIN tree = {} /\ FilesThere = {} /\ flushed = {} /\ settled = {}
    BY <1>4 DEF ArchiveInv, SoundDestination, FilesThere
  <2>2. receipts = {}
    BY <2>1 DEF ArchiveInv
  <2>3. DOMAIN tree' = {Root} /\ FilesThere' = {}
    BY <1>4 DEF FilesThere
  <2>4. SoundDestination'
    BY <1>1, <2>1, <2>3 DEF SoundDestination
  <2>5. extractor'[p] = "enter" /\ snapshot'[p] = snapshot[p] /\ member'[p] = 1
    BY <1>1, <1>4 DEF At, To, ArchiveInv, SoundExtraction
  <2>6. Verifies(snapshot[p]) /\ Verifies(snapshot[p])'
    BY <1>1 DEF At, ArchiveInv, SoundExtraction, Verifies
  <2>7. snapshot[p] \in Archives
    BY <2>6, VerifiedFiles DEF ArchiveInv
  <2>8. FilesBefore(snapshot[p], 1) = {}
    BY <2>7, MemberTypes DEF FilesBefore
  <2>9. SoundExtraction(p)'
    BY <1>1, <2>3, <2>5, <2>6, <2>8 DEF SoundExtraction, Writes, AtFile
  <2> QED
    BY <1>1, <1>2, <1>4, <2>2, <2>4, <2>9, DestinationWritten
<1> QED
  BY <1>3, <1>4 DEF MakeDestination

\* What a caller that writes knows, in the words of the steps that use it.
LEMMA WhileWritten ==
  ASSUME ArchiveInv, NEW p \in Callers, Writes(p)
  PROVE  /\ snapshot[p] \in Archives /\ member[p] \in Nat \ {0}
         /\ Verifies(snapshot[p]) /\ WellFormed(snapshot[p])
         /\ Root \in DOMAIN tree /\ receipts = {}
         /\ SoundExtraction(p) /\ SoundDestination
         /\ \A i \in DOMAIN snapshot[p] :
              ~snapshot[p][i].dir => /\ snapshot[p][i].data # IsDirectory
                                     /\ snapshot[p][i].data =
                                          Expected(snapshot[p][i].path)
<1>1. /\ Verifies(snapshot[p]) /\ Root \in DOMAIN tree /\ member[p] \in Nat \ {0}
      /\ SoundExtraction(p) /\ SoundDestination
  BY DEF ArchiveInv, SoundExtraction
<1>2. snapshot[p] \in Archives /\ WellFormed(snapshot[p])
  BY <1>1, VerifiedFiles DEF ArchiveInv, Verifies
<1>3. \A i \in DOMAIN snapshot[p] : snapshot[p][i].data # IsDirectory
  BY <1>2, MemberTypes
<1> QED
  BY <1>1, <1>2, <1>3, VerifiedFiles, NoReceiptWhileWritten DEF ArchiveInv

LEMMA EntersMember ==
  ASSUME ArchiveInv, NEW p \in Callers, EnterMember(p)
  PROVE  ArchiveInv'
<1> DEFINE a == snapshot[p]
           k == member[p]
           m == Current(p)
           above == Above(m.path) \cup (IF m.dir THEN {m.path} ELSE {})
<1>1. /\ At(p, "enter") /\ k <= Len(a)
      /\ UNCHANGED <<archiveFile, approved, snapshot, receipts, flushed, settled,
                     powerLost>>
  BY DEF EnterMember
<1>2. Writes(p) /\ ~AtFile(p)
  BY <1>1 DEF At, Writes, AtFile
<1>3. /\ a \in Archives /\ k \in Nat \ {0} /\ k + 1 \in Nat \ {0}
      /\ Verifies(a) /\ WellFormed(a) /\ receipts = {}
      /\ Root \in DOMAIN tree /\ SoundExtraction(p) /\ SoundDestination
  BY <1>2, WhileWritten
<1>4. k \in DOMAIN a /\ m = a[k]
  BY <1>1, <1>3, MemberTypes DEF Current
<1>5. FilesThere = FilesBefore(a, k)
  BY <1>2, <1>3 DEF SoundExtraction
<1>6. /\ snapshot' = [snapshot EXCEPT ![p] = a]
      /\ archiveFile \in Archives
      /\ member = [member EXCEPT ![p] = k]
  BY <1>1 DEF ArchiveInv
<1>7. /\ Verifies(snapshot[p])' /\ snapshot'[p] = a
      /\ \A q : Expected(q)' = Expected(q)
  BY <1>1, <1>3 DEF Verifies, Expected
<1> HIDE DEF above, m, a, k
<1>8. CASE To(p, "idle") /\ UNCHANGED <<tree, member>>
  BY <1>1, <1>3, <1>6, <1>8, DestinationUntouched DEF destinationVars
<1>9. CASE /\ m.dir /\ tree' = With(above, IsDirectory)
           /\ member' = [member EXCEPT ![p] = @ + 1] /\ UNCHANGED extractor
  <2>1. /\ DOMAIN tree' = DOMAIN tree \cup above
        /\ \A q \in DOMAIN tree : tree'[q] = tree[q]
        /\ \A q \in above \ DOMAIN tree : tree'[q] = IsDirectory
    BY <1>9 DEF With
  <2>2. FilesThere' = FilesThere
    BY <2>1 DEF FilesThere
  <2>3. SoundDestination'
    BY <1>1, <1>3, <2>1, <2>2 DEF SoundDestination
  <2>4. FilesBefore(a, k + 1) = FilesBefore(a, k)
    BY <1>3, <1>4, <1>9, FilesBeforeNext
  <2>5. /\ member' = [member EXCEPT ![p] = k + 1] /\ member'[p] = k + 1
        /\ To(p, "enter") /\ extractor'[p] = "enter"
    BY <1>1, <1>9 DEF At, To, ArchiveInv, k
  <2>6. \A q \in FilesBefore(a, k) : q \in flushed /\ tree'[q] = Expected(q)
    BY <1>2, <1>3, <1>5, <2>1 DEF SoundExtraction, FilesThere, a, k
  <2>7. SoundExtraction(p)'
    BY <1>1, <1>3, <1>5, <1>7, <2>1, <2>2, <2>4, <2>5, <2>6
       DEF SoundExtraction, Writes, AtFile
  <2> QED
    BY <1>1, <1>2, <1>3, <2>3, <2>5, <2>7, DestinationWritten
<1>10. CASE /\ ~m.dir /\ m.path \notin DOMAIN tree
            /\ tree' = [q \in DOMAIN tree \cup above \cup {m.path} |->
                          IF q = m.path THEN Torn ELSE With(above, IsDirectory)[q]]
            /\ To(p, "write") /\ UNCHANGED member
  <2>1. /\ DOMAIN tree' = DOMAIN tree \cup above \cup {m.path}
        /\ \A q \in DOMAIN tree : tree'[q] = tree[q]
        /\ \A q \in above \ (DOMAIN tree \cup {m.path}) : tree'[q] = IsDirectory
        /\ tree'[m.path] # IsDirectory
    BY <1>10 DEF With, Torn, IsDirectory
  <2>2. FilesThere' = FilesThere \cup {m.path}
    BY <1>10, <2>1 DEF FilesThere
  <2>3. SoundDestination'
    BY <1>1, <1>3, <2>1, <2>2 DEF SoundDestination
  <2>4. /\ member' = [member EXCEPT ![p] = k] /\ member'[p] = k
        /\ extractor'[p] = "write"
    BY <1>6, <1>10 DEF To, ArchiveInv, k
  <2>5. Current(p)' = m
    BY <1>4, <1>7, <2>4 DEF Current
  <2>6. \A q \in FilesBefore(a, k) : q \in flushed /\ tree'[q] = Expected(q)
    BY <1>2, <1>3, <1>5, <2>1 DEF SoundExtraction, FilesThere, a, k
  <2>7. SoundExtraction(p)'
    BY <1>1, <1>3, <1>4, <1>5, <1>7, <1>10, <2>1, <2>2, <2>4, <2>5, <2>6
       DEF SoundExtraction, Writes, AtFile
  <2> QED
    BY <1>1, <1>2, <1>3, <1>10, <2>3, <2>4, <2>7, DestinationWritten
<1> QED
  BY <1>8, <1>9, <1>10 DEF EnterMember, above, m

\* The steps of a caller at a member that is a file: what they keep.
LEMMA AtMember ==
  ASSUME ArchiveInv, NEW p \in Callers, AtFile(p),
         UNCHANGED <<archiveFile, approved, snapshot, receipts>>
  PROVE  /\ Writes(p) /\ member[p] \in DOMAIN snapshot[p]
         /\ Current(p) = snapshot[p][member[p]] /\ ~Current(p).dir
         /\ Current(p).data = Expected(Current(p).path)
         /\ Current(p).data # IsDirectory
         /\ Current(p).path \in FilesThere
         /\ Current(p).path \notin FilesBefore(snapshot[p], member[p])
         /\ FilesThere = FilesBefore(snapshot[p], member[p]) \cup {Current(p).path}
         /\ \A q \in FilesBefore(snapshot[p], member[p]) :
              q \in flushed /\ tree[q] = Expected(q)
         /\ Verifies(snapshot[p])' /\ \A q : Expected(q)' = Expected(q)
         /\ snapshot' = [snapshot EXCEPT ![p] = snapshot[p]]
         /\ member = [member EXCEPT ![p] = member[p]] /\ archiveFile \in Archives
         /\ snapshot[p] \in Archives
<1>1. Writes(p)
  BY DEF Writes, AtFile
<1>2. /\ snapshot[p] \in Archives /\ WellFormed(snapshot[p])
      /\ Verifies(snapshot[p]) /\ SoundExtraction(p)
      /\ \A i \in DOMAIN snapshot[p] :
           ~snapshot[p][i].dir => /\ snapshot[p][i].data # IsDirectory
                                  /\ snapshot[p][i].data =
                                       Expected(snapshot[p][i].path)
  BY <1>1, WhileWritten
<1>3. /\ member[p] \in DOMAIN snapshot[p] /\ ~Current(p).dir
      /\ Current(p) = snapshot[p][member[p]]
  BY <1>2 DEF SoundExtraction, Current
<1>4. /\ FilesThere = FilesBefore(snapshot[p], member[p]) \cup {Current(p).path}
      /\ \A q \in FilesBefore(snapshot[p], member[p]) :
           q \in flushed /\ tree[q] = Expected(q)
  BY <1>1, <1>2 DEF SoundExtraction
<1>5. Current(p).path \notin FilesBefore(snapshot[p], member[p])
  BY <1>2, <1>3, CurrentIsNew
<1>6. Verifies(snapshot[p])' /\ \A q : Expected(q)' = Expected(q)
  BY <1>2 DEF Verifies, Expected
<1>7. /\ snapshot' = [snapshot EXCEPT ![p] = snapshot[p]]
      /\ member = [member EXCEPT ![p] = member[p]] /\ archiveFile \in Archives
  BY DEF ArchiveInv
<1> QED
  BY <1>1, <1>2, <1>3, <1>4, <1>5, <1>6, <1>7

LEMMA WritesMember ==
  ASSUME ArchiveInv, NEW p \in Callers, WriteMember(p)
  PROVE  ArchiveInv'
<1> DEFINE a == snapshot[p]
           k == member[p]
           m == Current(p)
<1>1. /\ extractor[p] = "write" /\ To(p, "flush")
      /\ tree' = [tree EXCEPT ![m.path] = m.data]
      /\ UNCHANGED <<archiveFile, approved, snapshot, member, receipts, flushed,
                     settled>>
  BY DEF WriteMember, At
<1>2. AtFile(p)
  BY <1>1 DEF AtFile
<1>3. /\ Writes(p) /\ k \in DOMAIN a /\ m = a[k] /\ ~m.dir
      /\ m.data # IsDirectory /\ m.path \in FilesThere
      /\ m.path \notin FilesBefore(a, k)
      /\ FilesThere = FilesBefore(a, k) \cup {m.path}
      /\ \A q \in FilesBefore(a, k) : q \in flushed /\ tree[q] = Expected(q)
      /\ Verifies(snapshot[p])' /\ \A q : Expected(q)' = Expected(q)
      /\ member' = [member EXCEPT ![p] = k]
  BY <1>1, <1>2, AtMember
<1>4. k \in Nat \ {0} /\ Root \in DOMAIN tree /\ receipts = {} /\ SoundDestination
  BY <1>3, WhileWritten
<1>5. snapshot'[p] = a /\ member'[p] = k /\ extractor'[p] = "flush" /\ Current(p)' = m
  BY <1>1 DEF To, ArchiveInv, Current
<1> HIDE DEF a, k, m
<1>6. /\ DOMAIN tree' = DOMAIN tree
      /\ \A q \in DOMAIN tree \ {m.path} : tree'[q] = tree[q]
      /\ tree'[m.path] = m.data
  BY <1>1, <1>3 DEF FilesThere
<1>7. FilesThere' = FilesThere
  BY <1>3, <1>6 DEF FilesThere
<1>8. SoundDestination'
  BY <1>1, <1>4, <1>6, <1>7 DEF SoundDestination
<1>9. \A q \in FilesBefore(a, k) : q \in flushed' /\ tree'[q] = Expected(q)
  BY <1>1, <1>3, <1>6 DEF FilesThere
<1>10. SoundExtraction(p)'
  BY <1>1, <1>3, <1>4, <1>5, <1>6, <1>7, <1>9 DEF SoundExtraction, Writes, AtFile
<1> QED
  BY <1>1, <1>3, <1>4, <1>8, <1>10, DestinationWritten

LEMMA FlushesMember ==
  ASSUME ArchiveInv, NEW p \in Callers, FlushMember(p)
  PROVE  ArchiveInv'
<1> DEFINE a == snapshot[p]
           k == member[p]
           m == Current(p)
<1>1. /\ extractor[p] = "flush" /\ To(p, "reread")
      /\ flushed' = flushed \cup {m.path}
      /\ UNCHANGED <<archiveFile, approved, snapshot, member, receipts, tree,
                     settled>>
  BY DEF FlushMember, At
<1>2. AtFile(p)
  BY <1>1 DEF AtFile
<1>3. /\ Writes(p) /\ k \in DOMAIN a /\ m = a[k] /\ ~m.dir
      /\ m.path \in FilesThere
      /\ FilesThere = FilesBefore(a, k) \cup {m.path}
      /\ \A q \in FilesBefore(a, k) : q \in flushed /\ tree[q] = Expected(q)
      /\ Verifies(snapshot[p])' /\ \A q : Expected(q)' = Expected(q)
      /\ member' = [member EXCEPT ![p] = k]
  BY <1>1, <1>2, AtMember
<1>4. /\ k \in Nat \ {0} /\ Root \in DOMAIN tree /\ receipts = {}
      /\ SoundDestination /\ tree[m.path] = m.data
  BY <1>1, <1>3, WhileWritten DEF SoundExtraction
<1>5. snapshot'[p] = a /\ member'[p] = k /\ extractor'[p] = "reread" /\ Current(p)' = m
  BY <1>1 DEF To, ArchiveInv, Current
<1> HIDE DEF a, k, m
<1>6. FilesThere' = FilesThere
  BY <1>1 DEF FilesThere
<1>7. SoundDestination'
  BY <1>1, <1>3, <1>4, <1>6 DEF SoundDestination
<1>8. SoundExtraction(p)'
  BY <1>1, <1>3, <1>4, <1>5, <1>6 DEF SoundExtraction, Writes, AtFile
<1> QED
  BY <1>1, <1>3, <1>4, <1>7, <1>8, DestinationWritten

LEMMA RereadsMember ==
  ASSUME ArchiveInv, NEW p \in Callers, RereadMember(p)
  PROVE  ArchiveInv'
<1> DEFINE a == snapshot[p]
           k == member[p]
           m == Current(p)
<1>1. /\ extractor[p] = "reread"
      /\ UNCHANGED <<archiveFile, approved, snapshot, receipts, tree, flushed,
                     powerLost>>
  BY DEF RereadMember, At
<1>2. AtFile(p)
  BY <1>1 DEF AtFile
<1>3. /\ Writes(p) /\ k \in DOMAIN a /\ m = a[k] /\ ~m.dir
      /\ m.data = Expected(m.path)
      /\ FilesThere = FilesBefore(a, k) \cup {m.path}
      /\ \A q \in FilesBefore(a, k) : q \in flushed /\ tree[q] = Expected(q)
      /\ Verifies(snapshot[p])' /\ \A q : Expected(q)' = Expected(q)
      /\ snapshot' = [snapshot EXCEPT ![p] = a]
      /\ member = [member EXCEPT ![p] = k]
      /\ archiveFile \in Archives /\ a \in Archives
  BY <1>1, <1>2, AtMember
<1>4. /\ k \in Nat \ {0} /\ Root \in DOMAIN tree /\ receipts = {}
      /\ SoundDestination /\ m.path \in flushed
  BY <1>1, <1>3, WhileWritten DEF SoundExtraction
<1>5. snapshot'[p] = a /\ FilesThere' = FilesThere
  BY <1>1 DEF FilesThere
<1>6. CASE To(p, "idle") /\ UNCHANGED <<settled, member>>
  BY <1>1, <1>3, <1>4, <1>6, DestinationUntouched DEF destinationVars
<1>7. CASE /\ tree[m.path] = m.data
           /\ settled' = settled \cup EntriesOf(Up(m.path))
           /\ member' = [member EXCEPT ![p] = @ + 1] /\ To(p, "enter")
  <2>1. /\ member' = [member EXCEPT ![p] = k + 1] /\ member'[p] = k + 1
        /\ extractor'[p] = "enter" /\ k + 1 \in Nat \ {0}
    BY <1>4, <1>7 DEF To, ArchiveInv
  <2> HIDE DEF a, k, m
  <2>2. FilesBefore(a, k + 1) = FilesBefore(a, k) \cup {m.path}
    BY <1>3, FilesBeforeNext
  <2>3. SoundDestination'
    BY <1>1, <1>4, <1>5, <1>7 DEF SoundDestination, EntriesOf
  <2>4. \A q \in FilesBefore(a, k + 1) : q \in flushed' /\ tree'[q] = Expected(q)
    BY <1>1, <1>3, <1>4, <1>7, <2>2
  <2>5. SoundExtraction(p)'
    BY <1>1, <1>3, <1>4, <1>5, <2>1, <2>2, <2>4 DEF SoundExtraction, Writes, AtFile
  <2> QED
    BY <1>1, <1>3, <1>4, <1>7, <2>1, <2>3, <2>5, DestinationWritten
<1> QED
  BY <1>6, <1>7 DEF RereadMember

LEMMA ReturnsReceipt ==
  ASSUME ArchiveInv, NEW p \in Callers, ReturnReceipt(p)
  PROVE  ArchiveInv'
<1>1. /\ extractor[p] = "enter" /\ member[p] > Len(snapshot[p]) /\ To(p, "idle")
      /\ settled' = settled \cup EntriesOf(Root) \cup {Root}
      /\ UNCHANGED <<archiveFile, approved, snapshot, member, tree, flushed,
                     powerLost>>
  BY DEF ReturnReceipt, At
<1>2. Writes(p) /\ ~AtFile(p)
  BY <1>1 DEF Writes, AtFile
<1>3. /\ snapshot[p] \in Archives /\ member[p] \in Nat
      /\ Verifies(snapshot[p]) /\ Root \in DOMAIN tree
      /\ SoundDestination /\ SoundExtraction(p)
  BY <1>2, WhileWritten
<1>4. /\ FilesThere = ApprovedFiles
      /\ \A q \in FilesThere : q \in flushed /\ tree[q] = Expected(q)
  <2>1. FilesBefore(snapshot[p], member[p]) = ApprovedFiles
    BY <1>1, <1>3, FilesBeforeEnd, VerifiedFiles DEF ArchiveInv
  <2> QED
    BY <1>2, <1>3, <2>1 DEF SoundExtraction
<1>5. FilesThere' = FilesThere /\ ApprovedFiles' = ApprovedFiles
  BY <1>1 DEF FilesThere, ApprovedFiles
<1>6. \A q : Expected(q)' = Expected(q)
  BY <1>1 DEF Expected
<1>7. ReceiptIsTree'
  BY <1>1, <1>4, <1>5, <1>6 DEF ReceiptIsTree
<1>8. SoundDestination'
  BY <1>1, <1>3, <1>5 DEF SoundDestination, EntriesOf
<1>9. /\ extractor'[p] = "idle"
      /\ \A q \in Callers \ {p} : extractor'[q] = extractor[q] /\ ~Writes(q)
  BY <1>1, <1>2 DEF To, ArchiveInv
<1>10. \A q \in Callers : ~Writes(q)'
  BY <1>9 DEF Writes
<1>11. ASSUME NEW q \in Callers
       PROVE  SoundExtraction(q)'
  <2>1. SoundExtraction(q) /\ Verifies(snapshot[q])' = Verifies(snapshot[q])
    BY <1>1 DEF ArchiveInv, Verifies
  <2>2. member'[q] = member[q] /\ (q # p => extractor'[q] = extractor[q])
    BY <1>1, <1>9
  <2> QED
    BY <1>9, <1>10, <2>1, <2>2 DEF SoundExtraction, Writes, AtFile
<1>12. /\ extractor' \in [Callers -> {"idle", "copy", "verify", "make", "enter",
                                      "write", "flush", "reread"}]
       /\ Root \in settled' /\ FilesThere' \subseteq flushed'
  BY <1>1, <1>4, <1>5 DEF To, ArchiveInv
<1> QED
  BY <1>1, <1>7, <1>8, <1>10, <1>11, <1>12 DEF ArchiveInv

LEMMA LosesPower ==
  ASSUME ArchiveInv, LosePower
  PROVE  ArchiveInv'
<1>1. /\ powerLost' = TRUE
      /\ extractor' = [p \in Callers |-> "idle"]
      /\ UNCHANGED <<archiveFile, approved, snapshot, member, receipts>>
  BY DEF LosePower
<1>2. PICK gone \in SUBSET (DOMAIN tree \ settled),
           short \in SUBSET (FilesThere \ flushed) :
        LET kept == {q \in DOMAIN tree : (Above(q) \cup {Root, q}) \cap gone = {}}
        IN  /\ tree' = [q \in kept |-> IF q \in short THEN Torn ELSE tree[q]]
            /\ flushed' = (FilesThere \cap kept) \ short
            /\ settled' = kept
  BY DEF LosePower
<1> DEFINE kept == {q \in DOMAIN tree : (Above(q) \cup {Root, q}) \cap gone = {}}
<1>3. /\ DOMAIN tree' = kept /\ settled' = kept
      /\ \A q \in kept : tree'[q] = IF q \in short THEN Torn ELSE tree[q]
      /\ flushed' = (FilesThere \cap kept) \ short
  BY <1>2
<1>4. kept \subseteq DOMAIN tree /\ \A q \in kept : Root \notin gone
  OBVIOUS
<1>5. Root \in DOMAIN tree /\ Root \notin gone => Root \in kept
  <2>1. Above(Root) = {}
    BY DEF Above, Root
  <2> QED
    BY <2>1
<1> HIDE DEF kept
<1>6. FilesThere' \subseteq FilesThere \cap kept
  BY <1>3, <1>4 DEF FilesThere
<1>7. SoundDestination'
  <2>1. Root \notin kept => kept = {}
    BY <1>4, <1>5 DEF ArchiveInv, SoundDestination
  <2>2. flushed' \subseteq FilesThere'
    BY <1>3, <1>4 DEF FilesThere
  <2> QED
    BY <1>3, <2>1, <2>2 DEF SoundDestination
<1>8. \A p \in Callers : ~Writes(p)' /\ ~AtFile(p)' /\ extractor'[p] = "idle"
  BY <1>1 DEF Writes, AtFile
<1>9. \A p \in Callers : SoundExtraction(p)'
  BY <1>8 DEF SoundExtraction
<1>10. ASSUME receipts' # {}
       PROVE  Root \in settled' /\ FilesThere' \subseteq flushed' /\ short = {}
  <2>1. Root \in settled /\ FilesThere \subseteq flushed
    BY <1>1, <1>10 DEF ArchiveInv
  <2>2. Root \in DOMAIN tree /\ Root \notin gone
    BY <2>1 DEF ArchiveInv, SoundDestination
  <2> QED
    BY <1>3, <1>5, <1>6, <2>1, <2>2
<1>11. ReceiptIsTree'
  <2>1. ApprovedFiles' = ApprovedFiles /\ \A q : Expected(q)' = Expected(q)
    BY <1>1 DEF ApprovedFiles, Expected
  <2>2. ASSUME receipts' # {}
        PROVE  /\ FilesThere' \subseteq ApprovedFiles
               /\ \A q \in FilesThere' : tree'[q] = Expected(q)
    <3>1. /\ FilesThere \subseteq ApprovedFiles
          /\ \A q \in FilesThere : tree[q] = Expected(q)
      BY <1>1, <2>2 DEF ArchiveInv, ReceiptIsTree
    <3> QED
      BY <1>3, <1>6, <1>10, <2>2, <3>1
  <2> QED
    BY <1>1, <2>1, <2>2 DEF ReceiptIsTree
<1>12. extractor' \in [Callers -> {"idle", "copy", "verify", "make", "enter",
                                   "write", "flush", "reread"}]
  BY <1>1
<1> QED
  BY <1>1, <1>7, <1>8, <1>9, <1>10, <1>11, <1>12 DEF ArchiveInv

LEMMA ArchiveInvNext == ArchiveInv /\ [ArchiveNext]_archiveVars => ArchiveInv'
<1> SUFFICES ASSUME ArchiveInv, [ArchiveNext]_archiveVars
             PROVE  ArchiveInv'
  OBVIOUS
<1>1. ASSUME archiveFile' \in Archives, UNCHANGED <<approved, callVars, destinationVars>>
      PROVE  ArchiveInv'
  <2>1. /\ approved' = approved /\ extractor' = extractor /\ snapshot' = snapshot
        /\ member' = member /\ receipts' = receipts /\ tree' = tree
        /\ flushed' = flushed /\ settled' = settled /\ powerLost' = powerLost
    BY <1>1 DEF callVars, destinationVars
  <2>2. SoundDestination'
    BY <2>1 DEF ArchiveInv, SoundDestination, FilesThere
  <2>3. ASSUME NEW p \in Callers
        PROVE  SoundExtraction(p)' /\ Writes(p)' = Writes(p)
    <3>1. SoundExtraction(p)
      BY DEF ArchiveInv
    <3> QED
      BY <2>1, <3>1 DEF SoundExtraction, Writes, AtFile, Current, Verifies, Expected,
                        FilesThere
  <2>4. ReceiptIsTree'
    BY <2>1 DEF ArchiveInv, ReceiptIsTree, FilesThere, ApprovedFiles, Expected
  <2>5. FilesThere' = FilesThere
    BY <2>1 DEF FilesThere
  <2> QED
    BY <1>1, <2>1, <2>2, <2>3, <2>4, <2>5 DEF ArchiveInv
<1>2. ASSUME NEW p \in Callers, OpenArchive(p)
      PROVE  ArchiveInv'
  <2>1. /\ To(p, "copy") /\ snapshot' = [snapshot EXCEPT ![p] = archiveFile]
        /\ member' = [member EXCEPT ![p] = 1]
        /\ UNCHANGED <<archiveFile, approved, receipts, destinationVars>>
    BY <1>2 DEF OpenArchive
  <2>2. /\ archiveFile \in Archives \cup {Mixed} /\ archiveFile' \in Archives
        /\ 1 \in Nat \ {0}
    BY <2>1 DEF ArchiveInv
  <2> QED
    BY <2>1, <2>2, DestinationUntouched
<1>3. ASSUME NEW p \in Callers
      PROVE  /\ snapshot[p] \in Archives \cup {Mixed} /\ member[p] \in Nat \ {0}
             /\ member = [member EXCEPT ![p] = member[p]]
             /\ snapshot = [snapshot EXCEPT ![p] = snapshot[p]]
             /\ archiveFile \in Archives
             /\ extractor[p] \in {"copy", "verify", "make"} => member[p] = 1
  BY DEF ArchiveInv, SoundExtraction
<1>4. ASSUME NEW p \in Callers, CopyRest(p)
      PROVE  ArchiveInv'
  <2>1. /\ To(p, "verify") /\ extractor[p] = "copy" /\ UNCHANGED member
        /\ UNCHANGED <<archiveFile, approved, receipts, destinationVars>>
        /\ snapshot' = [snapshot EXCEPT ![p] =
                          IF snapshot[p] = archiveFile THEN snapshot[p] ELSE Mixed]
    BY <1>4 DEF CopyRest, At
  <2>2. (IF snapshot[p] = archiveFile THEN snapshot[p] ELSE Mixed)
          \in Archives \cup {Mixed}
    BY <1>3
  <2> QED
    BY <1>3, <2>1, <2>2, DestinationUntouched
<1>5. ASSUME NEW p \in Callers, VerifySnapshot(p)
      PROVE  ArchiveInv'
  <2>1. /\ extractor[p] = "verify" /\ UNCHANGED <<snapshot, member>>
        /\ UNCHANGED <<archiveFile, approved, receipts, destinationVars>>
        /\ To(p, "idle") \/ (Verifies(snapshot[p]) /\ To(p, "make"))
    BY <1>5 DEF VerifySnapshot, At
  <2>2. CASE To(p, "idle")
    BY <1>3, <2>1, <2>2, DestinationUntouched
  <2>3. CASE Verifies(snapshot[p]) /\ To(p, "make")
    <3>1. member[p] = 1
      BY <1>3, <2>1
    <3> QED
      BY <1>3, <2>1, <2>3, <3>1, DestinationUntouched
  <2> QED
    BY <2>1, <2>2, <2>3
<1>6. ASSUME NEW p \in Callers, Stop(p)
      PROVE  ArchiveInv'
  <2>1. /\ To(p, "idle") /\ UNCHANGED <<snapshot, member>>
        /\ UNCHANGED <<archiveFile, approved, receipts, destinationVars>>
    BY <1>6 DEF Stop
  <2> QED
    BY <1>3, <2>1, DestinationUntouched
<1>7. ASSUME ReplaceArchive
      PROVE  ArchiveInv'
  BY <1>1, <1>7 DEF ReplaceArchive
<1>8. CASE UNCHANGED archiveVars
  <2>1. archiveFile' \in Archives /\ UNCHANGED <<approved, callVars, destinationVars>>
    BY <1>8 DEF archiveVars, ArchiveInv
  <2> QED
    BY <1>1, <2>1
<1> QED
  BY <1>2, <1>4, <1>5, <1>6, <1>7, <1>8, MakesDestination, EntersMember,
     WritesMember, FlushesMember, RereadsMember, ReturnsReceipt, LosesPower
     DEF ArchiveNext, Extract

\* Once extract_verified has returned a receipt, the destination holds nothing
\* but files of the approved manifest, each whole, and all of them if the power
\* stayed on: whatever the archive file is replaced by, however many calls
\* there are, and wherever they stop.
THEOREM ReceiptStandsForTree == ArchiveSpec => []ReceiptIsTree
<1>1. ArchiveInv => ReceiptIsTree
  BY DEF ArchiveInv
<1> QED
  BY ArchiveInvInit, ArchiveInvNext, <1>1, PTL DEF ArchiveSpec

-----------------------------------------------------------------------------
(* Selection: sizes.                                                       *)

\* The sizes of the first n items, added up.
LEMMA SizesAdd ==
  ASSUME NEW U, \A u \in U : u.size \in Nat, NEW items \in Seq(U)
  PROVE  /\ Sizes(items)[0] = 0
         /\ \A n \in 1 .. Len(items) : Sizes(items)[n] = Sizes(items)[n - 1] + items[n].size
         /\ \A n \in 0 .. Len(items) : Sizes(items)[n] \in Nat
<1> DEFINE N == Len(items)
           F(f) == [n \in 0 .. N |-> IF n = 0 THEN 0 ELSE f[n - 1] + items[n].size]
           step == [x \in (1 .. N) \X Nat |-> x[2] + items[x[1]].size]
           s == Sizes(items)
<1>1. N \in Nat /\ \A n \in 1 .. N : items[n].size \in Nat
  BY ElementOfSeq, LenProperties
<1>2. s = CHOOSE f : f = F(f)
  BY DEF Sizes
<1> HIDE DEF N, s
<1>3. step \in [(1 .. N) \X Nat -> Nat]
  BY <1>1
<1>4. \A n \in 1 .. N : \A k \in Nat : step[<<n, k>>] = k + items[n].size
  OBVIOUS
<1> HIDE DEF step
<1>5. PICK g \in [0 .. N -> Nat] :
        g[0] = 0 /\ \A n \in 1 .. N : g[n] = step[<<n, g[n - 1]>>]
  <2> DEFINE A == Nat
             a0 == 0
  <2>1. a0 \in A /\ step \in [(1 .. N) \X A -> A] /\ N \in Nat
    BY <1>1, <1>3
  <2> HIDE DEF A, a0
  <2>2. \E g : Recursion(g, N, A, a0, step)
    BY <2>1, RecursionExists
  <2> QED
    BY <2>2 DEF Recursion, A, a0
<1>6. ASSUME NEW n \in 1 .. N PROVE g[n] = g[n - 1] + items[n].size
  <2>1. n - 1 \in 0 .. N
    BY <1>1
  <2>2. g[n - 1] \in Nat
    BY <2>1
  <2> QED
    BY <1>4, <1>5, <2>2
<1>7. g = F(g)
  BY <1>1, <1>5, <1>6
<1> HIDE DEF F
<1>8. s = F(s)
  BY <1>2, <1>7
<1>9. s = [n \in 0 .. N |-> IF n = 0 THEN 0 ELSE s[n - 1] + items[n].size]
  BY <1>8 DEF F
<1>10. s[0] = 0 /\ \A n \in 1 .. N : s[n] = s[n - 1] + items[n].size
  BY <1>1, <1>9
<1>11. ASSUME NEW n \in 1 .. N, s[n - 1] \in Nat PROVE s[n] \in Nat
  <2>1. items[n].size \in Nat /\ s[n] = s[n - 1] + items[n].size
    BY <1>1, <1>10
  <2> QED
    BY <1>11, <2>1
<1>12. \A n \in 0 .. N : s[n] \in Nat
  <2> DEFINE A == Nat
  <2>1. s[0] \in A /\ \A n \in 1 .. N : s[n - 1] \in A => s[n] \in A
    BY <1>10, <1>11
  <2> HIDE DEF A
  <2>2. \A n \in 0 .. N : s[n] \in A
    BY <1>1, <2>1, RecursionTyped
  <2> QED
    BY <2>2 DEF A
<1> QED
  BY <1>10, <1>12 DEF s, N

\* One more item adds its size.
LEMMA SizeOfAppend ==
  ASSUME NEW U, \A u \in U : u.size \in Nat, NEW items \in Seq(U), NEW x \in U
  PROVE  /\ SizeOf(items) \in Nat /\ SizeOf(<<>>) = 0
         /\ SizeOf(Append(items, x)) = SizeOf(items) + x.size
<1> DEFINE N == Len(items)
           L == Append(items, x)
           s == Sizes(items)
           t == Sizes(L)
           G == {n \in 0 .. N : t[n] = s[n]}
<1>1. /\ N \in Nat /\ L \in Seq(U) /\ Len(L) = N + 1 /\ L[N + 1] = x
      /\ \A n \in 1 .. N : L[n] = items[n]
  BY AppendProperties, LenProperties
<1> HIDE DEF N, L
<1>2. /\ s[0] = 0 /\ \A n \in 1 .. N : s[n] = s[n - 1] + items[n].size
      /\ \A n \in 0 .. N : s[n] \in Nat
  BY SizesAdd DEF N
<1>3. t[0] = 0 /\ \A n \in 1 .. N + 1 : t[n] = t[n - 1] + L[n].size
  BY <1>1, SizesAdd
<1> HIDE DEF s, t
<1>4. \A n \in 0 .. N : n \in G
  <2>1. 0 \in G
    BY <1>1, <1>2, <1>3
  <2>2. ASSUME NEW n \in 1 .. N, n - 1 \in G PROVE n \in G
    <3>1. n \in 1 .. N + 1 /\ n \in 0 .. N
      BY <1>1
    <3>2. t[n - 1] = s[n - 1]
      BY <2>2
    <3>3. t[n] = s[n]
      BY <1>1, <1>2, <1>3, <3>1, <3>2
    <3> QED
      BY <3>1, <3>3
  <2> HIDE DEF G
  <2> QED
    BY <1>1, <2>1, <2>2, UpTo
<1>5. t[N] = s[N] /\ s[N] \in Nat
  <2>1. N \in 0 .. N
    BY <1>1
  <2> QED
    BY <1>2, <1>4, <2>1
<1>6. t[N + 1] = s[N] + x.size
  <2>1. N + 1 \in 1 .. N + 1 /\ (N + 1) - 1 = N
    BY <1>1
  <2> QED
    BY <1>1, <1>3, <1>5, <2>1
<1>7. SizeOf(<<>>) = 0
  <2>1. <<>> \in Seq(U) /\ Len(<<>>) = 0
    BY EmptySeq
  <2>2. Sizes(<<>>)[0] = 0
    BY <2>1, SizesAdd
  <2> QED
    BY <2>1, <2>2 DEF SizeOf
<1> QED
  BY <1>1, <1>5, <1>6, <1>7 DEF SizeOf, s, t, L, N

-----------------------------------------------------------------------------
(* The members of a set of positions, in order.                            *)

\* Picked(q, S) holds what q has at the positions in S, each at its rank.
LEMMA PickedIs ==
  ASSUME NEW n \in Nat, NEW S \in SUBSET (1 .. n), NEW q
  PROVE  /\ Cardinality(S) \in Nat /\ Len(Picked(q, S)) = Cardinality(S)
         /\ Picked(q, S) = [k \in 1 .. Cardinality(S) |-> q[Nth(S, k)]]
         /\ \A k \in 1 .. Cardinality(S) : Nth(S, k) \in S /\ Rank(S, Nth(S, k)) = k
         /\ \A i \in S : Rank(S, i) \in 1 .. Cardinality(S) /\ Nth(S, Rank(S, i)) = i
<1>1. IsFiniteSet(S) /\ Cardinality(S) \in Nat
  <2>1. 0 \in Nat
    OBVIOUS
  <2> QED
    BY <2>1, RankType
<1>2. Picked(q, S) = [k \in 1 .. Cardinality(S) |-> q[Nth(S, k)]]
  BY DEF Picked
<1>3. ASSUME NEW i \in S
      PROVE  Rank(S, i) \in 1 .. Cardinality(S) /\ Nth(S, Rank(S, i)) = i
  <2>1. i \in Nat
    OBVIOUS
  <2>2. /\ IsFiniteSet({j \in S : j <= i}) /\ Rank(S, i) \in Nat
        /\ Rank(S, i) <= Cardinality(S)
    BY <2>1, RankType
  <2>3. i \in {j \in S : j <= i}
    BY <2>1
  <2>4. Rank(S, i) # 0
    BY <2>2, <2>3, FS_EmptySet DEF Rank
  <2>5. Nth(S, Rank(S, i)) = i
    BY RankChosen DEF Nth, Rank
  <2> QED
    BY <1>1, <2>2, <2>4, <2>5
<1>4. ASSUME NEW k \in 1 .. Cardinality(S)
      PROVE  Nth(S, k) \in S /\ Rank(S, Nth(S, k)) = k
  <2>1. PICK i \in S : Rank(S, i) = k
    BY RankExists
  <2> QED
    BY <1>3, <2>1
<1>5. Len(Picked(q, S)) = Cardinality(S)
  BY <1>1, <1>2
<1> QED
  BY <1>1, <1>2, <1>3, <1>4, <1>5

-----------------------------------------------------------------------------
(* What a behaviour never changes.                                         *)

Given ==
  /\ intent \in Intents /\ profile \in Profiles /\ embedding \in Embeddings
  /\ documents \in Library

LEMMA GivenLimits ==
  ASSUME Given
  PROVE  /\ intent.level \in Int /\ intent.budget \in Int
         /\ profile.level \in Int /\ profile.budget \in Nat
         /\ profile.minimumScore \in Int /\ profile.maxRecords \in Nat
         /\ profile.maxCandidates \in Nat /\ profile.tiers \in Seq(STRING)
         /\ embedding # Absent =>
              embedding.minimumScore \in Int /\ embedding.maxCandidates \in Nat
BY ContextAssumption DEF Given, ContextAssumption

-----------------------------------------------------------------------------
(* The candidates kept are the best.                                       *)

\* The places of acceptable candidates, and how many of them are kept.
Places(q) == {i \in DOMAIN q : Acceptable(q[i])}
Kept(q) == Least(Cardinality(Places(q)), MaxCandidates)

\* Keep(q) has the acceptable positions of q up to both limits, in order.
LEMMA KeepIs ==
  ASSUME Given, embedding # Absent, NEW n \in Nat, NEW q, DOMAIN q = 1 .. n
  PROVE  /\ Keep(q) = [k \in 1 .. Kept(q) |-> q[Nth(Places(q), k)]]
         /\ Kept(q) \in Nat /\ Len(Keep(q)) = Kept(q)
         /\ Kept(q) <= Cardinality(Places(q))
         /\ Kept(q) <= profile.maxCandidates /\ Kept(q) <= embedding.maxCandidates
         /\ \/ Kept(q) = Cardinality(Places(q))
            \/ Kept(q) \in {profile.maxCandidates, embedding.maxCandidates}
<1> DEFINE S == Places(q)
           m == Kept(q)
<1>1. S \in SUBSET (1 .. n)
  BY DEF Places
<1> HIDE DEF S, m
<1>2. /\ Cardinality(S) \in Nat /\ Len(Picked(q, S)) = Cardinality(S)
      /\ Picked(q, S) = [k \in 1 .. Cardinality(S) |-> q[Nth(S, k)]]
  <2> DEFINE U == S
  <2>1. U \in SUBSET (1 .. n)
    BY <1>1
  <2> HIDE DEF U
  <2>2. Cardinality(U) \in Nat /\ Len(Picked(q, U)) = Cardinality(U)
    BY <2>1, PickedIs
  <2> QED
    BY <2>2 DEF U, Picked
<1>3. profile.maxCandidates \in Nat /\ embedding.maxCandidates \in Nat
  BY GivenLimits
<1>4. /\ MaxCandidates \in Nat
      /\ MaxCandidates <= profile.maxCandidates /\ MaxCandidates <= embedding.maxCandidates
      /\ MaxCandidates \in {profile.maxCandidates, embedding.maxCandidates}
  BY <1>3 DEF MaxCandidates, Least
<1>5. m \in Nat /\ m <= Cardinality(S) /\ m <= MaxCandidates
      /\ (m = Cardinality(S) \/ m = MaxCandidates)
  <2>1. Cardinality(S) \in Nat /\ MaxCandidates \in Nat
    BY <1>2, <1>4
  <2> QED
    BY <2>1 DEF Least, Kept, S, m
<1>6. Keep(q) = [k \in 1 .. m |-> Picked(q, S)[k]]
  BY <1>2 DEF Keep, Kept, Places, S, m
<1>7. \A k \in 1 .. m : Picked(q, S)[k] = q[Nth(S, k)]
  BY <1>2, <1>5
<1>8. Keep(q) = [k \in 1 .. m |-> q[Nth(S, k)]]
  BY <1>6, <1>7
<1>9. Len(Keep(q)) = m
  BY <1>5, <1>8
<1> QED
  BY <1>3, <1>4, <1>5, <1>8, <1>9 DEF S, m

\* Each candidate kept is one of q.
LEMMA KeepsFound ==
  ASSUME Given, embedding # Absent, NEW n \in Nat, NEW q, DOMAIN q = 1 .. n
  PROVE  \E m \in Nat :
           /\ DOMAIN Keep(q) = 1 .. m
           /\ \A k \in 1 .. m : \E i \in 1 .. n : Keep(q)[k] = q[i]
<1> DEFINE S == Places(q)
           m == Kept(q)
<1>1. S \in SUBSET (1 .. n)
  BY DEF Places
<1>2. Keep(q) = [k \in 1 .. m |-> q[Nth(S, k)]] /\ m \in Nat /\ m <= Cardinality(S)
  BY KeepIs
<1> HIDE DEF S, m
<1>4. Cardinality(S) \in Nat /\ \A k \in 1 .. Cardinality(S) : Nth(S, k) \in S
  BY <1>1, PickedIs
<1>5. ASSUME NEW k \in 1 .. m PROVE Nth(S, k) \in 1 .. n /\ Keep(q)[k] = q[Nth(S, k)]
  <2>1. k \in 1 .. Cardinality(S)
    BY <1>2, <1>4
  <2>2. Nth(S, k) \in S
    BY <1>4, <2>1
  <2> QED
    BY <1>1, <1>2, <2>2
<1>6. DOMAIN Keep(q) = 1 .. m
  BY <1>2
<1> QED
  BY <1>2, <1>5, <1>6

\* An acceptable candidate has a score that is a number.
LEMMA AcceptableScore ==
  ASSUME NEW c, Acceptable(c)
  PROVE  c.score \in Int
<1>1. c.score \in 0 .. TopScore /\ TopScore \in Nat
  BY ContextAssumption DEF Acceptable, ContextAssumption
<1> QED
  BY <1>1

\* An order of a finite list leaves out nothing.
LEMMA OrderIsOnto ==
  ASSUME NEW n \in Nat, NEW p \in [1 .. n -> 1 .. n], IsInjective(p), NEW i \in 1 .. n
  PROVE  \E j \in 1 .. n : p[j] = i
<1>1. p \in Injection(1 .. n, 1 .. n)
  BY DEF Injection
<1>2. IsFiniteSet(1 .. n)
  BY FS_Interval
<1>3. p \in Surjection(1 .. n, 1 .. n)
  BY <1>1, <1>2, FS_Injection
<1> QED
  BY <1>3 DEF Surjection

\* The first acceptable ones of a list in order of its scores are the best of it:
\* what is left out comes after all of them.
LEMMA KeepsBest ==
  ASSUME Given, embedding # Absent, NEW found \in Found, NEW q \in BestFirst(found),
         \A i \in DOMAIN found : found[i].score # NotANumber
  PROVE  Best(Keep(q), found)
<1> DEFINE n == Len(found)
           S == Places(q)
           m == Kept(q)
<1>1. n \in Nat /\ DOMAIN found = 1 .. n
  <2>1. found \in Seq(ToSet(found))
    BY ContextAssumption DEF ContextAssumption
  <2> QED
    BY <2>1, LenProperties
<1>2. PICK p \in Orders(found) : q = [i \in DOMAIN found |-> found[p[i]]]
  BY DEF BestFirst
<1> HIDE DEF n
<1>3. /\ p \in [1 .. n -> 1 .. n] /\ IsInjective(p)
      /\ \A i, j \in 1 .. n : i < j => Before(found[p[i]], p[i], found[p[j]], p[j])
  BY <1>1, <1>2 DEF Orders
<1>4. DOMAIN q = 1 .. n /\ \A i \in 1 .. n : q[i] = found[p[i]]
  BY <1>1, <1>2
<1>5. S \in SUBSET (1 .. n) /\ S = {i \in DOMAIN q : Acceptable(q[i])}
  BY <1>4 DEF Places
<1>6. \A i \in 1 .. n : found[i].score \in Int
  <2>1. \A i \in DOMAIN found : found[i].score \in Int \cup {NotANumber}
    BY ContextAssumption DEF ContextAssumption
  <2> QED
    BY <1>1, <2>1
<1>7. /\ Keep(q) = [k \in 1 .. m |-> q[Nth(S, k)]]
      /\ m \in Nat /\ Len(Keep(q)) = m /\ m <= Cardinality(S)
      /\ m <= profile.maxCandidates /\ m <= embedding.maxCandidates
      /\ m = Cardinality(S) \/ m \in {profile.maxCandidates, embedding.maxCandidates}
  BY <1>1, <1>4, KeepIs
<1> HIDE DEF m, S
<1>8. /\ Cardinality(S) \in Nat
      /\ \A k \in 1 .. Cardinality(S) : Nth(S, k) \in S /\ Rank(S, Nth(S, k)) = k
      /\ \A i \in S : Rank(S, i) \in 1 .. Cardinality(S) /\ Nth(S, Rank(S, i)) = i
  BY <1>1, <1>5, PickedIs
<1>9. \A i \in S : i \in 1 .. n /\ Acceptable(q[i])
  BY <1>4, <1>5
<1>10. \A j \in 1 .. n : Acceptable(q[j]) => j \in S
  BY <1>4, <1>5
<1>11. ToSet(Keep(q)) = {q[Nth(S, k)] : k \in 1 .. m}
  BY <1>7 DEF ToSet
<1>12. ASSUME NEW i \in DOMAIN found, Acceptable(found[i])
       PROVE  \/ found[i] \in ToSet(Keep(q))
              \/ /\ Len(Keep(q)) \in {profile.maxCandidates, embedding.maxCandidates}
                 /\ \A c \in ToSet(Keep(q)) : c.score >= found[i].score
  <2>1. PICK j \in 1 .. n : p[j] = i
    BY <1>1, <1>3, OrderIsOnto
  <2>2. q[j] = found[i] /\ j \in S
    BY <1>4, <1>10, <1>12, <2>1
  <2> DEFINE r == Rank(S, j)
  <2>3. r \in 1 .. Cardinality(S) /\ Nth(S, r) = j
    BY <1>8, <2>2
  <2> HIDE DEF r
  <2>4. CASE r <= m
    <3>1. r \in 1 .. m
      BY <1>7, <1>8, <2>3, <2>4
    <3> QED
      BY <1>11, <2>2, <2>3, <3>1
  <2>5. CASE ~(r <= m)
    <3>1. Len(Keep(q)) \in {profile.maxCandidates, embedding.maxCandidates}
      BY <1>7, <1>8, <2>3, <2>5
    <3>2. ASSUME NEW k \in 1 .. m
          PROVE  q[Nth(S, k)].score >= found[i].score
      <4> DEFINE a == Nth(S, k)
      <4>1. k \in 1 .. Cardinality(S)
        BY <1>7, <1>8
      <4>2. a \in S /\ Rank(S, a) = k
        BY <1>8, <4>1
      <4>3. k < r
        BY <1>7, <1>8, <2>3, <2>5
      <4> HIDE DEF a
      <4>4. a \in 1 .. n /\ j \in 1 .. n /\ a \in Nat /\ j \in Nat
        BY <1>9, <2>2, <4>2
      <4>5. a < j
        <5>1. CASE j < a
          <6>1. Rank(S, j) < Rank(S, a)
            BY <1>1, <1>5, <2>2, <4>2, <5>1, RankUnique
          <6> QED
            BY <1>8, <2>3, <4>2, <4>3, <6>1 DEF r
        <5>2. CASE j = a
          BY <1>8, <2>3, <4>2, <4>3, <5>2 DEF r
        <5> QED
          BY <4>4, <5>1, <5>2
      <4>6. Before(found[p[a]], p[a], found[p[j]], p[j])
        BY <1>3, <4>4, <4>5
      <4>7. found[p[a]].score \in Int /\ found[p[j]].score \in Int
        BY <1>3, <1>6, <4>4
      <4>8. found[p[a]].score >= found[p[j]].score
        BY <4>6, <4>7 DEF Before
      <4> QED
        BY <1>4, <2>1, <4>4, <4>8 DEF a
    <3> QED
      BY <1>11, <3>1, <3>2
  <2> QED
    BY <2>4, <2>5
<1> QED
  BY <1>7, <1>12 DEF Best

-----------------------------------------------------------------------------
(* The loop over the artifacts.                                            *)

ArtifactsOK ==
  /\ artifacts \in Seq(ToSet(artifacts))
  /\ \A a \in ToSet(artifacts) : a.size \in Nat /\ a.level \in Int

ItemOf(a) == [id |-> a.id, rev |-> a.rev, tier |-> TierOf(a), size |-> a.size]
Items == {ItemOf(a) : a \in ToSet(artifacts)}

\* The item is what intent and profile allow of the artifact.
Drawn(item, a, now) ==
  /\ <<a.id, a.rev, a.size>> = <<item.id, item.rev, item.size>>
  /\ a.id \in intent.targets /\ Eligible(a, now)
  /\ a.level <= intent.level /\ a.level <= profile.level
  /\ item.tier \in a.tiers
  /\ item.tier = "raw" => intent.raw /\ profile.raw

\* The artifact is among the items, or there is a reason why it is not.
Explained(a, items, now) ==
  \/ \E item \in ToSet(items) : item.id = a.id
  \/ a.id \notin intent.targets \/ ~Eligible(a, now)
  \/ Len(items) = profile.maxRecords
  \/ SizeOf(items) + a.size > intent.budget
  \/ SizeOf(items) + a.size > profile.budget

\* What PromptWithinPolicy says of a prompt, when the artifacts seen so far are
\* those in seen.
Sound(items, now, seen) ==
  /\ \A item \in ToSet(items) : \E a \in ToSet(artifacts) : Drawn(item, a, now)
  /\ \A i, j \in DOMAIN items : items[i].id = items[j].id => i = j
  /\ Len(items) <= profile.maxRecords
  /\ items # <<>> => SizeOf(items) <= intent.budget /\ SizeOf(items) <= profile.budget
  /\ \A a \in seen : Explained(a, items, now)

LEMMA TierIsOne ==
  ASSUME Given, NEW a, TierAllowed(a)
  PROVE  TierOf(a) \in a.tiers
<1> DEFINE tiers == profile.tiers
           S == {i \in DOMAIN tiers : tiers[i] \in a.tiers}
<1>1. tiers \in Seq(STRING)
  BY GivenLimits
<1>2. Len(tiers) \in Nat /\ DOMAIN tiers = 1 .. Len(tiers)
  BY <1>1, LenProperties
<1>3. S \in SUBSET (1 .. Len(tiers)) /\ \A i \in S : tiers[i] \in a.tiers
  BY <1>2
<1>4. PICK i \in S : TRUE
  BY DEF TierAllowed, ToSet
<1>5. TierOf(a) = tiers[Nth(S, 1)]
  BY DEF TierOf
<1> HIDE DEF S, tiers
<1>6. /\ Cardinality(S) \in Nat /\ Rank(S, i) \in 1 .. Cardinality(S)
      /\ \A k \in 1 .. Cardinality(S) : Nth(S, k) \in S
  BY <1>2, <1>3, <1>4, PickedIs
<1>7. 1 \in 1 .. Cardinality(S)
  BY <1>6
<1> QED
  BY <1>3, <1>5, <1>6, <1>7

LEMMA AllowedIsDrawn ==
  ASSUME Given, NEW a, NEW now, a.level \in Int, a.id \in intent.targets, Eligible(a, now)
  PROVE  Drawn(ItemOf(a), a, now)
<1>1. intent.level \in Int /\ profile.level \in Int
  BY GivenLimits
<1>2. a.level <= Least(intent.level, profile.level) /\ TierAllowed(a)
  BY DEF Eligible
<1>3. a.level <= intent.level /\ a.level <= profile.level
  BY <1>1, <1>2 DEF Least
<1>4. TierOf(a) \in a.tiers
  BY <1>2, TierIsOne
<1>5. TierOf(a) = "raw" => intent.raw /\ profile.raw
  BY <1>2 DEF TierAllowed
<1>6. /\ ItemOf(a).id = a.id /\ ItemOf(a).rev = a.rev /\ ItemOf(a).size = a.size
      /\ ItemOf(a).tier = TierOf(a)
  BY DEF ItemOf
<1> QED
  BY <1>3, <1>4, <1>5, <1>6 DEF Drawn

\* One turn of the loop keeps what is selected sound and accounts for one more
\* artifact: a budget or a limit that kept one out does so for good.
LEMMA ConsiderSound ==
  ASSUME Given, ArtifactsOK, NEW items \in Seq(Items), NEW now,
         NEW seen \in SUBSET ToSet(artifacts), Sound(items, now, seen),
         NEW a \in ToSet(artifacts)
  PROVE  /\ Consider(items, a, now) \in Seq(Items)
         /\ Sound(Consider(items, a, now), now, seen \cup {a})
<1> DEFINE x == ItemOf(a)
           C == /\ a.id \in intent.targets
                /\ \A item \in ToSet(items) : item.id # a.id
                /\ Len(items) < profile.maxRecords
                /\ Eligible(a, now)
                /\ Fits(items, a)
           L == Append(items, x)
<1>1. /\ intent.budget \in Int /\ profile.budget \in Int /\ profile.maxRecords \in Nat
  BY GivenLimits
<1>2. x \in Items /\ x.id = a.id /\ x.size = a.size /\ a.size \in Nat /\ a.level \in Int
  BY DEF Items, ItemOf, ArtifactsOK
<1>3. \A u \in Items : u.size \in Nat
  BY DEF Items, ItemOf, ArtifactsOK
<1>4. Consider(items, a, now) = IF C THEN L ELSE items
  BY DEF Consider, ItemOf
<1> HIDE DEF x
<1>5. Len(items) \in Nat /\ DOMAIN items = 1 .. Len(items)
  BY LenProperties
<1>6. SizeOf(items) \in Nat /\ SizeOf(L) = SizeOf(items) + a.size
  BY <1>2, <1>3, SizeOfAppend
<1>7. /\ Budget \in {intent.budget, profile.budget}
      /\ Budget <= intent.budget /\ Budget <= profile.budget
  BY <1>1 DEF Budget, Least
<1>8. CASE C
  <2>1. /\ L \in Seq(Items) /\ Len(L) = Len(items) + 1 /\ DOMAIN L = 1 .. Len(items) + 1
        /\ L[Len(items) + 1] = x /\ \A i \in 1 .. Len(items) : L[i] = items[i]
    BY <1>2, AppendProperties, LenProperties
  <2>2. ToSet(L) = ToSet(items) \cup {x}
    BY <1>5, <2>1 DEF ToSet
  <2>3. Drawn(x, a, now)
    BY <1>2, <1>8, AllowedIsDrawn DEF x
  <2>4. \A item \in ToSet(L) : \E b \in ToSet(artifacts) : Drawn(item, b, now)
    BY <2>2, <2>3 DEF Sound
  <2>5. ASSUME NEW i \in DOMAIN L, NEW j \in DOMAIN L, L[i].id = L[j].id
        PROVE  i = j
    <3>1. \A k \in DOMAIN items : items[k].id # a.id
      BY <1>8 DEF ToSet
    <3>2. \A k \in DOMAIN L : k = Len(items) + 1 \/ k \in DOMAIN items
      BY <1>5, <2>1
    <3>3. CASE i \in DOMAIN items /\ j \in DOMAIN items
      BY <1>5, <2>1, <2>5, <3>3 DEF Sound
    <3>4. CASE ~(i \in DOMAIN items /\ j \in DOMAIN items)
      BY <1>2, <1>5, <2>1, <2>5, <3>1, <3>2, <3>4
    <3> QED
      BY <3>3, <3>4
  <2>6. Len(L) <= profile.maxRecords
    BY <1>1, <1>5, <1>8, <2>1
  <2>7. SizeOf(L) <= intent.budget /\ SizeOf(L) <= profile.budget
    BY <1>1, <1>2, <1>6, <1>7, <1>8 DEF Fits
  <2>8. ASSUME NEW b \in seen PROVE Explained(b, L, now)
    <3>1. Explained(b, items, now) /\ b.size \in Nat
      BY DEF Sound, ArtifactsOK
    <3>2. Len(items) # profile.maxRecords
      BY <1>1, <1>5, <1>8
    <3>3. SizeOf(items) + b.size <= SizeOf(L) + b.size
      BY <1>2, <1>6, <3>1
    <3>4. CASE \E item \in ToSet(items) : item.id = b.id
      BY <2>2, <3>4 DEF Explained
    <3>5. CASE b.id \notin intent.targets \/ ~Eligible(b, now)
      BY <3>5 DEF Explained
    <3>6. CASE SizeOf(items) + b.size > intent.budget \/ SizeOf(items) + b.size > profile.budget
      <4>1. SizeOf(L) + b.size > intent.budget \/ SizeOf(L) + b.size > profile.budget
        BY <1>1, <1>2, <1>6, <3>1, <3>3, <3>6
      <4> QED
        BY <4>1 DEF Explained
    <3> QED
      BY <3>1, <3>2, <3>4, <3>5, <3>6 DEF Explained
  <2>9. Explained(a, L, now)
    BY <1>2, <2>2 DEF Explained
  <2>10. Sound(L, now, seen \cup {a})
    BY <2>4, <2>5, <2>6, <2>7, <2>8, <2>9 DEF Sound
  <2> QED
    BY <1>4, <1>8, <2>1, <2>10
<1>9. CASE ~C
  <2>1. Explained(a, items, now)
    <3>1. CASE a.id \notin intent.targets \/ ~Eligible(a, now)
      BY <3>1 DEF Explained
    <3>2. CASE \E item \in ToSet(items) : item.id = a.id
      BY <3>2 DEF Explained
    <3>3. CASE ~(Len(items) < profile.maxRecords)
      <4>1. Len(items) = profile.maxRecords
        BY <1>1, <1>5, <3>3 DEF Sound
      <4> QED
        BY <4>1 DEF Explained
    <3>4. CASE ~Fits(items, a)
      <4>1. SizeOf(items) + a.size > intent.budget \/ SizeOf(items) + a.size > profile.budget
        BY <1>1, <1>2, <1>6, <1>7, <3>4 DEF Fits
      <4> QED
        BY <4>1 DEF Explained
    <3> QED
      BY <1>9, <3>1, <3>2, <3>3, <3>4
  <2>2. Sound(items, now, seen \cup {a})
    BY <2>1 DEF Sound
  <2> QED
    BY <1>4, <1>9, <2>2
<1> QED
  BY <1>8, <1>9

\* The loop selects a sound list that accounts for every artifact.
LEMMA SelectedSound ==
  ASSUME Given, ArtifactsOK, NEW now
  PROVE  Sound(Selected(now)[Len(artifacts)], now, ToSet(artifacts))
<1> DEFINE N == Len(artifacts)
           A == Seq(Items)
           F(f) == [n \in 0 .. N |->
                      IF n = 0 THEN <<>> ELSE Consider(f[n - 1], artifacts[n], now)]
           step == [x \in (1 .. N) \X A |-> Consider(x[2], artifacts[x[1]], now)]
           h == Selected(now)
           Seen(n) == {artifacts[i] : i \in 1 .. n}
           G == {n \in 0 .. N : h[n] \in A /\ Sound(h[n], now, Seen(n))}
<1>1. /\ N \in Nat /\ DOMAIN artifacts = 1 .. N
      /\ \A n \in 1 .. N : artifacts[n] \in ToSet(artifacts)
      /\ ToSet(artifacts) = Seen(N)
  <2>1. N \in Nat /\ DOMAIN artifacts = 1 .. N
    BY LenProperties DEF ArtifactsOK
  <2> QED
    BY <2>1 DEF ToSet
<1>2. h = CHOOSE f : f = F(f)
  BY DEF Selected
<1>3. ASSUME NEW items \in A, NEW n \in 1 .. N
      PROVE  Consider(items, artifacts[n], now) \in A
  <2> DEFINE a == artifacts[n]
  <2>1. ItemOf(a) \in Items
    BY <1>1 DEF Items
  <2>2. Append(items, ItemOf(a)) \in Seq(Items)
    BY <2>1, AppendProperties
  <2> QED
    BY <2>2 DEF Consider, ItemOf
<1> HIDE DEF N, A, h
<1>4. step \in [(1 .. N) \X A -> A]
  BY <1>3
<1>5. \A n \in 1 .. N : \A items \in A : step[<<n, items>>] = Consider(items, artifacts[n], now)
  OBVIOUS
<1> HIDE DEF step
<1>6. <<>> \in A
  BY DEF A
<1>7. PICK g : Recursion(g, N, A, <<>>, step)
  BY <1>1, <1>4, <1>6, RecursionExists
<1>8. /\ g \in [0 .. N -> A] /\ g[0] = <<>>
      /\ \A n \in 1 .. N : g[n] = Consider(g[n - 1], artifacts[n], now)
  <2>1. /\ g \in [0 .. N -> A] /\ g[0] = <<>>
        /\ \A n \in 1 .. N : g[n] = step[<<n, g[n - 1]>>]
    BY <1>7 DEF Recursion
  <2>2. ASSUME NEW n \in 1 .. N PROVE g[n] = Consider(g[n - 1], artifacts[n], now)
    <3>1. n - 1 \in 0 .. N
      BY <1>1
    <3>2. g[n - 1] \in A
      BY <2>1, <3>1
    <3> QED
      BY <1>5, <2>1, <3>2
  <2> QED
    BY <2>1, <2>2
<1>9. g = F(g)
  BY <1>1, <1>8
<1> HIDE DEF F
<1>10. h = F(h)
  BY <1>2, <1>9
<1>11. /\ h[0] = <<>>
       /\ \A n \in 1 .. N : h[n] = Consider(h[n - 1], artifacts[n], now)
  <2>1. h = [n \in 0 .. N |->
               IF n = 0 THEN <<>> ELSE Consider(h[n - 1], artifacts[n], now)]
    BY <1>10 DEF F
  <2>2. h[0] = <<>>
    BY <1>1, <2>1
  <2>3. ASSUME NEW n \in 1 .. N PROVE h[n] = Consider(h[n - 1], artifacts[n], now)
    <3>1. n \in 0 .. N /\ n # 0
      BY <1>1
    <3> QED
      BY <2>1, <3>1
  <2> QED
    BY <2>2, <2>3
<1>12. 0 \in G
  <2>1. Sound(<<>>, now, Seen(0))
    <3>1. profile.maxRecords \in Nat /\ Len(<<>>) = 0 /\ ToSet(<<>>) = {}
          /\ DOMAIN <<>> = {} /\ Seen(0) = {}
      BY GivenLimits DEF ToSet
    <3> QED
      BY <3>1 DEF Sound
  <2> QED
    BY <1>1, <1>6, <1>11, <2>1
<1>13. ASSUME NEW n \in 1 .. N, n - 1 \in G PROVE n \in G
  <2> DEFINE a == artifacts[n]
             seen == Seen(n - 1)
             items == h[n - 1]
  <2>1. items \in Seq(Items) /\ Sound(items, now, seen)
    BY <1>13 DEF A
  <2>2. seen \in SUBSET ToSet(artifacts) /\ a \in ToSet(artifacts)
    BY <1>1
  <2>3. Seen(n) = seen \cup {a}
    <3>1. 1 .. n = (1 .. (n - 1)) \cup {n}
      BY <1>1
    <3> QED
      BY <3>1
  <2>4. h[n] = Consider(items, a, now)
    BY <1>11
  <2> HIDE DEF a, seen, items
  <2>5. /\ Consider(items, a, now) \in Seq(Items)
        /\ Sound(Consider(items, a, now), now, seen \cup {a})
    BY <2>1, <2>2, ConsiderSound
  <2>6. n \in 0 .. N
    BY <1>1
  <2> QED
    BY <2>3, <2>4, <2>5, <2>6 DEF A
<1> HIDE DEF G
<1>14. N \in G
  <2>1. \A n \in 0 .. N : n \in G
    BY <1>1, <1>12, <1>13, UpTo
  <2> QED
    BY <1>1, <2>1
<1> QED
  BY <1>1, <1>14 DEF G, h, N

-----------------------------------------------------------------------------
(* The invariant of the calls.                                             *)

\* What was chosen is a list of candidates whose documents may exist.
ChosenOK ==
  /\ \E n \in Nat : DOMAIN candidates.chosen = 1 .. n
  /\ \A k \in DOMAIN candidates.chosen : \A lib \in Library :
       candidates.chosen[k].id \in DOMAIN lib

PackOK ==
  /\ pack = [decision |-> pack.decision, items |-> pack.items, sealed |-> pack.sealed,
             at |-> pack.at]
  /\ pack.decision = "allow" => Sound(pack.sealed, pack.at, ToSet(artifacts))
  /\ contextStep \in {"search", "load", "select"} => pack.decision = "none"

PromptOK ==
  /\ contextStep # "done" => prompt = <<>>
  /\ prompt # <<>> => pack.decision = "allow" /\ prompt = pack.sealed

ContextInv ==
  /\ Given /\ documentChanges \in Nat
  /\ ChosenOK /\ ArtifactsOK /\ PackOK /\ PromptOK
  /\ BestCandidates

LEMMA ContextInvInit == ContextInit => ContextInv
<1> SUFFICES ASSUME ContextInit PROVE ContextInv
  OBVIOUS
<1>1. Given /\ documentChanges \in Nat /\ contextStep = "search" /\ prompt = <<>>
  BY DEF ContextInit, Given
<1>2. ChosenOK
  <2>1. candidates.chosen = <<>> /\ DOMAIN <<>> = 1 .. 0 /\ 0 \in Nat
    BY DEF ContextInit, NoCandidates
  <2> QED
    BY <2>1 DEF ChosenOK
<1>3. ArtifactsOK
  <2>1. ToSet(<<>>) = {} /\ <<>> \in Seq({})
    BY DEF ToSet
  <2> QED
    BY <2>1 DEF ContextInit, ArtifactsOK
<1>4. PackOK
  BY DEF ContextInit, PackOK, NoPack
<1>5. PromptOK /\ BestCandidates
  BY <1>1 DEF PromptOK, BestCandidates
<1> QED
  BY <1>1, <1>2, <1>3, <1>4, <1>5 DEF ContextInv

\* What is sealed stays sound while intent, profile and artifacts stay.
LEMMA SoundKept ==
  ASSUME UNCHANGED <<intent, profile, artifacts>>, NEW items, NEW now,
         pack'.sealed = items, pack'.at = now, Sound(items, now, ToSet(artifacts))
  PROVE  Sound(pack.sealed, pack.at, ToSet(artifacts))'
<1>1. artifacts' = artifacts /\ profile' = profile /\ intent' = intent
  OBVIOUS
<1>2. ASSUME NEW a
      PROVE  Eligible(a, pack.at)' <=> Eligible(a, now)
  <2>1. TierOf(a)' = TierOf(a)
    BY DEF TierOf
  <2>2. TierAllowed(a)' <=> TierAllowed(a)
    BY <2>1 DEF TierAllowed
  <2>3. FieldsAllowed(a)' <=> FieldsAllowed(a)
    BY DEF FieldsAllowed
  <2> QED
    BY <2>2, <2>3 DEF Eligible
<1>3. ASSUME NEW item, NEW a
      PROVE  Drawn(item, a, now) => Drawn(item, a, pack.at)'
  BY <1>1, <1>2 DEF Drawn
<1>4. ASSUME NEW a
      PROVE  Explained(a, items, now) => Explained(a, pack.sealed, pack.at)'
  BY <1>1, <1>2 DEF Explained
<1> QED
  BY <1>1, <1>3, <1>4 DEF Sound

\* What a search returns: candidates whose documents may exist, the best of them.
LEMMA SearchKeeps ==
  ASSUME ContextInv, NEW found \in Found, Search(found)
  PROVE  ContextInv'
<1>1. /\ contextStep = "search" /\ contextStep' = "load"
      /\ UNCHANGED <<intent, profile, embedding, documents, artifacts, pack, prompt,
                     documentChanges>>
  BY DEF Search
<1>2. Given' /\ documentChanges' \in Nat /\ ArtifactsOK' /\ PromptOK'
  BY <1>1 DEF ContextInv, Given, ArtifactsOK, PromptOK
<1>3. PackOK'
  <2>1. pack.decision = "none"
    BY <1>1 DEF ContextInv, PackOK
  <2> QED
    BY <1>1, <2>1 DEF ContextInv, PackOK
<1>4. CASE candidates' \in {[NoCandidates EXCEPT !.status = "raised"],
                            [NoCandidates EXCEPT !.status = "not_requested"]}
  <2>1. candidates'.chosen = <<>> /\ candidates'.status \in {"raised", "not_requested"}
    BY <1>4 DEF NoCandidates
  <2>2. DOMAIN <<>> = 1 .. 0 /\ 0 \in Nat
    OBVIOUS
  <2>3. ChosenOK'
    BY <2>1, <2>2 DEF ChosenOK
  <2>4. BestCandidates'
    BY <2>1 DEF BestCandidates
  <2> QED
    BY <1>2, <1>3, <2>3, <2>4 DEF ContextInv
<1>5. CASE /\ Retrievable
           /\ \E q \in BestFirst(found) :
                candidates' = [status |-> StatusOf(Keep(q)), chosen |-> Keep(q),
                               from |-> found]
  <2>1. PICK q \in BestFirst(found) :
          candidates' = [status |-> StatusOf(Keep(q)), chosen |-> Keep(q), from |-> found]
    BY <1>5
  <2>2. candidates'.chosen = Keep(q) /\ candidates'.from = found
    BY <2>1
  <2>3. embedding # Absent
    BY <1>5 DEF Retrievable
  <2>4. Given
    BY DEF ContextInv
  <2>5. ChosenOK'
    <3> DEFINE n == Len(found)
    <3>1. n \in Nat /\ DOMAIN found = 1 .. n
      <4>1. found \in Seq(ToSet(found))
        BY ContextAssumption DEF ContextAssumption
      <4> QED
        BY <4>1, LenProperties
    <3>2. DOMAIN q = 1 .. n /\ \A i \in 1 .. n : \E j \in 1 .. n : q[i] = found[j]
      BY <3>1 DEF BestFirst, Orders
    <3> HIDE DEF n
    <3>3. PICK m \in Nat :
            /\ DOMAIN Keep(q) = 1 .. m
            /\ \A k \in 1 .. m : \E i \in 1 .. n : Keep(q)[k] = q[i]
      <4>1. n \in Nat /\ DOMAIN q = 1 .. n
        BY <3>1, <3>2
      <4>2. \E m \in Nat :
              /\ DOMAIN Keep(q) = 1 .. m
              /\ \A k \in 1 .. m : \E i \in 1 .. n : Keep(q)[k] = q[i]
        BY <2>3, <2>4, <4>1, KeepsFound
      <4> QED
        BY <4>2
    <3>4. ASSUME NEW k \in 1 .. m, NEW lib \in Library
          PROVE  Keep(q)[k].id \in DOMAIN lib
      <4>1. PICK j \in 1 .. n : Keep(q)[k] = found[j]
        BY <3>2, <3>3
      <4> QED
        BY <3>1, <4>1, ContextAssumption DEF ContextAssumption
    <3> QED
      BY <2>2, <3>3, <3>4 DEF ChosenOK
  <2> DEFINE kept == Keep(q)
  <2>6. candidates'.chosen = kept
    BY <2>2
  <2>7. ASSUME \A i \in DOMAIN found : found[i].score # NotANumber
        PROVE  Best(kept, found)
    BY <2>3, <2>4, <2>7, KeepsBest
  <2> HIDE DEF kept
  <2>8. BestCandidates'
    <3>1. ASSUME \A i \in DOMAIN found : found[i].score # NotANumber
          PROVE  Best(candidates.chosen, candidates.from)'
      <4>1. Best(kept, found)
        BY <2>7, <3>1
      <4>2. ASSUME NEW c PROVE Acceptable(c)' <=> Acceptable(c)
        BY <1>1 DEF Acceptable, MinimumScore, Most
      <4>3. /\ profile' = profile /\ embedding' = embedding
            /\ candidates'.chosen = kept /\ candidates'.from = found
        BY <1>1, <2>2, <2>6
      <4> QED
        BY <4>1, <4>2, <4>3 DEF Best
    <3> QED
      BY <2>2, <3>1 DEF BestCandidates
  <2> QED
    BY <1>2, <1>3, <2>5, <2>8 DEF ContextInv
<1>6. candidates' \in {[NoCandidates EXCEPT !.status = "raised"],
                       [NoCandidates EXCEPT !.status = "not_requested"]}
      \/ /\ Retrievable
         /\ \E q \in BestFirst(found) :
              candidates' = [status |-> StatusOf(Keep(q)), chosen |-> Keep(q),
                             from |-> found]
  BY DEF Search
<1> QED
  BY <1>4, <1>5, <1>6

\* Of what the adapter loads every document is there.
LEMMA LoadsDocuments ==
  ASSUME ContextInv, Load
  PROVE  ContextInv'
<1>1. /\ contextStep = "load" /\ contextStep' = "select"
      /\ candidates.status \notin {"raised", "blocked"}
      /\ UNCHANGED <<intent, profile, embedding, documents, candidates, pack, prompt,
                     documentChanges>>
  BY DEF Load
<1>2. Given' /\ documentChanges' \in Nat /\ ChosenOK' /\ PromptOK' /\ BestCandidates'
  BY <1>1 DEF ContextInv, Given, ChosenOK, PromptOK, BestCandidates
<1>3. PackOK'
  <2>1. pack.decision = "none"
    BY <1>1 DEF ContextInv, PackOK
  <2> QED
    BY <1>1, <2>1 DEF ContextInv, PackOK
<1>4. PICK ids \in IF candidates.status = "pass"
                     THEN {[i \in DOMAIN candidates.chosen |-> candidates.chosen[i].id]}
                     ELSE SetToSeqs(DOMAIN documents) :
        artifacts' = LET present == Picked(ids, {i \in DOMAIN ids : documents[ids[i]] # Absent})
                     IN  [i \in DOMAIN present |-> documents[present[i]]]
  BY DEF Load
<1>5. documents \in Library
  BY DEF ContextInv, Given
<1>6. \E n \in Nat : DOMAIN ids = 1 .. n /\ \A i \in 1 .. n : ids[i] \in DOMAIN documents
  <2>1. CASE candidates.status = "pass"
    <3>1. ids = [i \in DOMAIN candidates.chosen |-> candidates.chosen[i].id]
      BY <1>4, <2>1
    <3>2. PICK n \in Nat : DOMAIN candidates.chosen = 1 .. n
      BY DEF ContextInv, ChosenOK
    <3>3. \A i \in 1 .. n : candidates.chosen[i].id \in DOMAIN documents
      BY <1>5, <3>2 DEF ContextInv, ChosenOK
    <3> QED
      BY <3>1, <3>2, <3>3
  <2>2. CASE candidates.status # "pass"
    <3>1. ids \in [1 .. Cardinality(DOMAIN documents) -> DOMAIN documents]
      BY <1>4, <2>2 DEF SetToSeqs
    <3>2. Cardinality(DOMAIN documents) \in Nat
      BY <1>5, ContextAssumption, FS_CardinalityType DEF ContextAssumption
    <3> QED
      BY <3>1, <3>2
  <2> QED
    BY <2>1, <2>2
<1>7. PICK n \in Nat : DOMAIN ids = 1 .. n /\ \A i \in 1 .. n : ids[i] \in DOMAIN documents
  BY <1>6
<1> DEFINE S == {i \in DOMAIN ids : documents[ids[i]] # Absent}
           present == Picked(ids, S)
           w == Cardinality(S)
<1>8. S \in SUBSET (1 .. n) /\ \A i \in S : documents[ids[i]] # Absent
  BY <1>7
<1>9. artifacts' = [i \in DOMAIN present |-> documents[present[i]]]
  BY <1>4
<1> HIDE DEF S
<1>10. /\ w \in Nat /\ present = [k \in 1 .. w |-> ids[Nth(S, k)]]
       /\ \A k \in 1 .. w : Nth(S, k) \in S
  <2>1. w \in Nat /\ \A k \in 1 .. w : Nth(S, k) \in S
    BY <1>8, PickedIs
  <2> QED
    BY <2>1 DEF Picked
<1> HIDE DEF present, w
<1>11. DOMAIN artifacts' = 1 .. w /\ artifacts' = [k \in 1 .. w |-> artifacts'[k]]
  BY <1>9, <1>10
<1>12. ASSUME NEW k \in 1 .. w
       PROVE  artifacts'[k].size \in Nat /\ artifacts'[k].level \in Int
  <2>1. /\ Nth(S, k) \in S /\ Nth(S, k) \in 1 .. n
        /\ artifacts'[k] = documents[ids[Nth(S, k)]]
    BY <1>8, <1>9, <1>10
  <2>2. ids[Nth(S, k)] \in DOMAIN documents /\ documents[ids[Nth(S, k)]] # Absent
    BY <1>7, <1>8, <2>1
  <2> QED
    BY <1>5, <2>1, <2>2, ContextAssumption DEF ContextAssumption
<1>13. ArtifactsOK'
  <2> DEFINE loaded == artifacts'
             T == ToSet(loaded)
  <2>1. \A k \in 1 .. w : loaded[k] \in T
    BY <1>11 DEF ToSet
  <2>2. \A a \in T : a.size \in Nat /\ a.level \in Int
    BY <1>11, <1>12 DEF ToSet
  <2>3. loaded = [k \in 1 .. w |-> loaded[k]]
    BY <1>11
  <2> HIDE DEF loaded, T
  <2>4. loaded \in [1 .. w -> T]
    BY <2>1, <2>3
  <2>5. loaded \in Seq(T)
    BY <1>10, <2>4
  <2> QED
    BY <2>2, <2>5 DEF ArtifactsOK, loaded, T
<1> QED
  BY <1>2, <1>3, <1>13 DEF ContextInv

LEMMA SelectsSoundly ==
  ASSUME ContextInv, NEW now \in Times, Select(now)
  PROVE  ContextInv'
<1> DEFINE items == Selected(now)[Len(artifacts)]
<1>1. /\ contextStep = "select" /\ contextStep' = "assemble"
      /\ UNCHANGED <<intent, profile, embedding, documents, candidates, artifacts,
                     prompt, documentChanges>>
  BY DEF Select
<1>2. /\ Given' /\ documentChanges' \in Nat /\ ChosenOK' /\ ArtifactsOK' /\ PromptOK'
      /\ BestCandidates'
  BY <1>1 DEF ContextInv, Given, ChosenOK, ArtifactsOK, PromptOK, BestCandidates
<1>3. Sound(items, now, ToSet(artifacts))
  BY SelectedSound DEF ContextInv
<1>4. pack' = [NoPack EXCEPT !.decision = "raised"]
      \/ pack' = [decision |-> IF items = <<>> THEN "blocked" ELSE "allow",
                  items |-> items, sealed |-> items, at |-> now]
  BY DEF Select
<1> HIDE DEF items
<1>5. /\ pack' = [decision |-> pack'.decision, items |-> pack'.items,
                  sealed |-> pack'.sealed, at |-> pack'.at]
      /\ pack'.decision = "allow" => pack'.sealed = items /\ pack'.at = now
  BY <1>4 DEF NoPack
<1>6. ASSUME pack'.decision = "allow"
      PROVE  Sound(pack.sealed, pack.at, ToSet(artifacts))'
  BY <1>1, <1>3, <1>5, <1>6, SoundKept
<1> QED
  BY <1>1, <1>2, <1>5, <1>6 DEF ContextInv, PackOK

\* A step that leaves intent, profile, artifacts and what is sealed alone.
LEMMA PackKept ==
  ASSUME ContextInv,
         UNCHANGED <<intent, profile, artifacts>>,
         pack'.sealed = pack.sealed, pack'.decision = pack.decision, pack'.at = pack.at,
         pack' = [decision |-> pack'.decision, items |-> pack'.items,
                  sealed |-> pack'.sealed, at |-> pack'.at],
         contextStep' = contextStep \/ contextStep' = "done"
  PROVE  PackOK'
<1>1. ASSUME pack'.decision = "allow"
      PROVE  Sound(pack.sealed, pack.at, ToSet(artifacts))'
  <2>1. Sound(pack.sealed, pack.at, ToSet(artifacts))
    BY <1>1 DEF ContextInv, PackOK
  <2> QED
    BY <2>1, SoundKept
<1> QED
  BY <1>1 DEF ContextInv, PackOK

LEMMA ContextInvNext ==
  ASSUME ContextInv, [ContextNext]_contextVars
  PROVE  ContextInv'
<1>1. ASSUME Tamper PROVE ContextInv'
  <2>1. /\ contextStep = "assemble" /\ documentChanges' = documentChanges + 1
        /\ UNCHANGED <<intent, profile, embedding, documents, candidates, artifacts,
                       prompt, contextStep>>
    BY <1>1 DEF Tamper
  <2>2. /\ Given' /\ documentChanges' \in Nat /\ ChosenOK' /\ ArtifactsOK'
        /\ BestCandidates'
    BY <2>1 DEF ContextInv, Given, ChosenOK, ArtifactsOK, BestCandidates
  <2>3. pack = [decision |-> pack.decision, items |-> pack.items, sealed |-> pack.sealed,
                at |-> pack.at]
    BY DEF ContextInv, PackOK
  <2>4. \E items : pack' = [pack EXCEPT !.items = items]
    BY <1>1 DEF Tamper
  <2>5. /\ pack'.sealed = pack.sealed /\ pack'.decision = pack.decision
        /\ pack'.at = pack.at
        /\ pack' = [decision |-> pack'.decision, items |-> pack'.items,
                    sealed |-> pack'.sealed, at |-> pack'.at]
    BY <2>3, <2>4
  <2>6. PackOK'
    BY <2>1, <2>5, PackKept
  <2>7. PromptOK'
    BY <2>1 DEF ContextInv, PromptOK
  <2> QED
    BY <2>2, <2>6, <2>7 DEF ContextInv
<1>2. ASSUME Assemble PROVE ContextInv'
  <2>1. /\ contextStep' = "done" /\ prompt' = IF UsablePack THEN pack.items ELSE <<>>
        /\ UNCHANGED <<intent, profile, embedding, documents, candidates, artifacts,
                       pack, documentChanges>>
    BY <1>2 DEF Assemble
  <2>2. /\ Given' /\ documentChanges' \in Nat /\ ChosenOK' /\ ArtifactsOK'
        /\ BestCandidates'
    BY <2>1 DEF ContextInv, Given, ChosenOK, ArtifactsOK, BestCandidates
  <2>3. PackOK'
    BY <2>1, PackKept DEF ContextInv, PackOK
  <2>4. PromptOK'
    BY <2>1 DEF PromptOK, UsablePack
  <2> QED
    BY <2>2, <2>3, <2>4 DEF ContextInv
<1>3. ASSUME ChangeDocuments PROVE ContextInv'
  <2>1. /\ documents' \in Library /\ documentChanges' = documentChanges + 1
        /\ UNCHANGED <<intent, profile, embedding, candidates, artifacts, pack, prompt,
                       contextStep>>
    BY <1>3 DEF ChangeDocuments
  <2>2. documentChanges \in Nat /\ documentChanges' # 0
    BY <2>1 DEF ContextInv
  <2>3. /\ Given' /\ documentChanges' \in Nat /\ ChosenOK' /\ ArtifactsOK' /\ PromptOK'
        /\ BestCandidates'
    BY <2>1, <2>2 DEF ContextInv, Given, ChosenOK, ArtifactsOK, PromptOK, BestCandidates
  <2>4. PackOK'
    BY <2>1, PackKept DEF ContextInv, PackOK
  <2> QED
    BY <2>3, <2>4 DEF ContextInv
<1>4. CASE UNCHANGED contextVars
  <2>1. UNCHANGED <<intent, profile, embedding, documents, candidates, artifacts, pack,
                    prompt, contextStep, documentChanges>>
    BY <1>4 DEF contextVars
  <2>2. /\ Given' /\ documentChanges' \in Nat /\ ChosenOK' /\ ArtifactsOK' /\ PromptOK'
    BY <2>1 DEF ContextInv, Given, ChosenOK, ArtifactsOK, PromptOK
  <2>3. PackOK'
    BY <2>1, PackKept DEF ContextInv, PackOK
  <2>4. BestCandidates'
    <3>1. ASSUME NEW c PROVE Acceptable(c)' <=> Acceptable(c)
      BY <2>1 DEF Acceptable, MinimumScore, Most
    <3> QED
      BY <2>1, <3>1 DEF ContextInv, BestCandidates, Best
  <2> QED
    BY <2>2, <2>3, <2>4 DEF ContextInv
<1> QED
  BY <1>1, <1>2, <1>3, <1>4, SearchKeeps, LoadsDocuments, SelectsSoundly
     DEF ContextNext

LEMMA ContextSafety == ContextSpec => []ContextInv
  BY ContextInvInit, ContextInvNext, PTL DEF ContextSpec

\* Whatever documents, requests and profiles there are, however the documents
\* change between the calls and the pack after selection, the prompt of
\* assemble_prompt holds what intent and profile allow, and all of it that fits.
THEOREM PromptsWithinPolicy == ContextSpec => []PromptWithinPolicy
<1>1. ASSUME ContextInv PROVE PromptWithinPolicy
  <2>1. prompt # <<>> => Sound(prompt, pack.at, ToSet(artifacts))
    BY <1>1 DEF ContextInv, PackOK, PromptOK
  <2> QED
    BY <2>1 DEF PromptWithinPolicy, Sound, Drawn, Explained
<1> QED
  BY <1>1, ContextSafety, PTL

\* For any answer of a search, in any order, select_semantic_candidates keeps
\* the best of it.
THEOREM CandidatesAreBest == ContextSpec => []BestCandidates
<1>1. ContextInv => BestCandidates
  BY DEF ContextInv
<1> QED
  BY <1>1, ContextSafety, PTL

-----------------------------------------------------------------------------
(* Links.                                                                  *)

AnyPaths == Seq(STRING)

\* What the assumption on the constants says of the rows of a policy.
LEMMA Rows ==
  ASSUME policy \in Policies
  PROVE  /\ Links \subseteq ToSet(SortedPaths)
         /\ IsFiniteSet(Links) /\ Cardinality(Links) \in Nat
         /\ \A l \in Links : /\ l \in AnyPaths \ {<<>>}
                             /\ \A i \in 1 .. Len(l) : l[i] \notin {"", ".", ".."}
                             /\ policy.row[l].target \in AnyPaths
                             /\ Len(policy.row[l].target) \in 1 .. MaxText
         /\ policy.list \in Seq(Links) /\ ToSet(policy.list) = Links
<1>1. Links \subseteq ToSet(SortedPaths)
  BY LinkAssumption DEF Links
<1>2. IsFiniteSet(Links)
  <2> DEFINE n == Len(SortedPaths)
             S == ToSet(SortedPaths)
  <2>1. SortedPaths \in Seq(S)
    BY LinkAssumption
  <2>2. n \in Nat /\ DOMAIN SortedPaths = 1 .. n /\ SortedPaths \in [1 .. n -> S]
    BY <2>1, LenProperties
  <2> HIDE DEF n
  <2>3. SortedPaths \in Surjection(1 .. n, S)
    BY <2>2 DEF ToSet, Surjection
  <2>4. IsFiniteSet(S)
    BY <2>2, <2>3, FS_Interval, FS_Surjection
  <2> QED
    BY <1>1, <2>4, FS_Subset
<1>3. ASSUME NEW l \in Links
      PROVE  l \in AnyPaths \ {<<>>} /\ \A i \in 1 .. Len(l) : l[i] \notin {"", ".", ".."}
  <2>1. l \in AnyPaths /\ l # <<>> /\ ToSet(l) \cap {"", ".", ".."} = {}
    BY <1>1, LinkAssumption DEF RelativePath, AnyPaths
  <2>2. DOMAIN l = 1 .. Len(l)
    BY <2>1, LenProperties DEF AnyPaths
  <2> QED
    BY <2>1, <2>2 DEF ToSet
<1> QED
  BY <1>1, <1>2, <1>3, LinkAssumption, FS_CardinalityType DEF Links, AnyPaths

\* A path that is not the root is its parent and its name.
LEMMA FrontFacts ==
  ASSUME NEW p \in AnyPaths, p # <<>>
  PROVE  /\ Front(p) \in AnyPaths /\ Len(Front(p)) = Len(p) - 1
         /\ Len(p) \in Nat \ {0} /\ Last(p) \in STRING
         /\ Append(Front(p), Last(p)) = p
<1>1. Len(p) \in Nat \ {0} /\ \A i \in 1 .. Len(p) : p[i] \in STRING
  BY EmptySeq, LenProperties, ElementOfSeq DEF AnyPaths
<1> DEFINE f == SubSeq(p, 1, Len(p) - 1)
<1>2. /\ f \in Seq(STRING) /\ Len(f) = Len(p) - 1
      /\ \A i \in 1 .. Len(p) - 1 : f[i] = p[i]
  <2> DEFINE n == Len(p) - 1
             S == STRING
  <2>1. n \in Int /\ n \in Nat /\ 1 \in Int /\ \A i \in 1 .. n : p[i] \in S
    BY <1>1
  <2> HIDE DEF n, S
  <2>2. /\ SubSeq(p, 1, n) \in Seq(S)
        /\ Len(SubSeq(p, 1, n)) = IF 1 <= n THEN n - 1 + 1 ELSE 0
        /\ \A i \in 1 .. n - 1 + 1 : SubSeq(p, 1, n)[i] = p[1 + i - 1]
    BY ONLY <2>1, SubSeqProperties
  <2>3. n - 1 + 1 = n /\ \A i \in 1 .. n : 1 + i - 1 = i
    BY <2>1
  <2>4. /\ Len(SubSeq(p, 1, n)) = n
        /\ \A i \in 1 .. n : SubSeq(p, 1, n)[i] = p[i]
    BY <2>1, <2>2, <2>3
  <2> QED
    BY <2>2, <2>4 DEF n, S
<1> HIDE DEF f
<1>3. /\ Append(f, p[Len(p)]) \in Seq(STRING)
      /\ Len(Append(f, p[Len(p)])) = Len(p)
      /\ \A i \in 1 .. Len(p) : Append(f, p[Len(p)])[i] = p[i]
  BY <1>1, <1>2, AppendProperties
<1>4. Append(f, p[Len(p)]) = p
  BY <1>3, SeqEqual DEF AnyPaths
<1> QED
  BY <1>1, <1>2, <1>4 DEF Front, Last, f, AnyPaths

LEMMA AppendCancel ==
  ASSUME NEW S, NEW f \in Seq(S), NEW p \in Seq(S), NEW c \in S,
         Append(f, c) = Append(p, c)
  PROVE  f = p
OBVIOUS

\* The parent and the name of a path below p.
LEMMA FrontOfAppend ==
  ASSUME NEW p \in AnyPaths, NEW c \in STRING
  PROVE  /\ Append(p, c) \in AnyPaths /\ Append(p, c) # <<>>
         /\ Front(Append(p, c)) = p /\ Last(Append(p, c)) = c
<1> DEFINE q == Append(p, c)
<1>1. q \in AnyPaths /\ q # <<>> /\ Len(q) = Len(p) + 1 /\ q[Len(p) + 1] = c
  BY AppendProperties DEF AnyPaths
<1>2. Last(q) = c
  BY <1>1 DEF Last
<1> HIDE DEF q
<1>3. Front(q) \in AnyPaths /\ Append(Front(q), c) = q
  BY <1>1, <1>2, FrontFacts
<1>4. Front(q) = p
  BY <1>3, AppendCancel DEF q, AnyPaths
<1> QED
  BY <1>1, <1>2, <1>4 DEF q

LEMMA ThroughType ==
  ASSUME NEW w \in [parts : AnyPaths, ok : BOOLEAN], NEW part \in STRING
  PROVE  Through(w, part) \in [parts : AnyPaths, ok : BOOLEAN]
<1>1. w.parts # <<>> => Front(w.parts) \in AnyPaths
  BY FrontFacts
<1>2. Append(w.parts, part) \in AnyPaths
  BY FrontOfAppend
<1> QED
  BY <1>1, <1>2 DEF Through, Component, Refuse

\* The text is taken component by component.
LEMMA LexicalSteps ==
  ASSUME policy \in Policies, NEW l \in Links
  PROVE  LET text == policy.row[l].target
             w == Lexical(l)
         IN  /\ w[0] = [parts |-> Front(l), ok |-> TRUE]
             /\ \A n \in 1 .. Len(text) : w[n] = Through(w[n - 1], text[n])
             /\ \A n \in 0 .. Len(text) : w[n] \in [parts : AnyPaths, ok : BOOLEAN]
<1> DEFINE text == policy.row[l].target
           N == Len(text)
           A == [parts : AnyPaths, ok : BOOLEAN]
           a0 == [parts |-> Front(l), ok |-> TRUE]
           F(f) == [n \in 0 .. N |-> IF n = 0 THEN a0 ELSE Through(f[n - 1], text[n])]
           step == [x \in (1 .. N) \X A |-> Through(x[2], text[x[1]])]
           w == Lexical(l)
<1>1. /\ N \in Nat /\ \A n \in 1 .. N : text[n] \in STRING
      /\ l \in AnyPaths /\ l # <<>>
  BY Rows, ElementOfSeq, LenProperties DEF AnyPaths
<1>2. w = CHOOSE f : f = F(f)
  BY DEF Lexical
<1> HIDE DEF N, w, text
<1>3. a0 \in A
  BY <1>1, FrontFacts
<1>4. ASSUME NEW a \in A, NEW c \in STRING PROVE Through(a, c) \in A
  BY ThroughType
<1> HIDE DEF A
<1>5. step \in [(1 .. N) \X A -> A]
  BY <1>1, <1>4
<1>6. \A n \in 1 .. N : \A a \in A : step[<<n, a>>] = Through(a, text[n])
  OBVIOUS
<1> HIDE DEF step, a0
<1>7. PICK g : Recursion(g, N, A, a0, step)
  BY <1>1, <1>3, <1>5, RecursionExists
<1>8. ASSUME NEW n \in 1 .. N PROVE g[n] = Through(g[n - 1], text[n])
  <2>1. n - 1 \in 0 .. N
    BY <1>1
  <2> QED
    BY <1>6, <1>7, <2>1 DEF Recursion
<1>9. g = F(g)
  BY <1>1, <1>7, <1>8 DEF Recursion
<1> HIDE DEF F
<1>10. w = F(w)
  BY <1>2, <1>9
<1>11. w[0] = a0 /\ \A n \in 1 .. N : w[n] = Through(w[n - 1], text[n])
  BY <1>1, <1>10 DEF F
<1>12. \A n \in 1 .. N : w[n - 1] \in A => w[n] \in A
  BY <1>1, <1>4, <1>11
<1>13. \A n \in 0 .. N : w[n] \in A
  BY <1>1, <1>3, <1>11, <1>12, RecursionTyped
<1> QED
  BY <1>11, <1>13 DEF N, A, a0, w, text

\* The chain goes from each link to its target.
LEMMA ChainSteps ==
  ASSUME policy \in Policies, NEW l
  PROVE  /\ Chain(l)[0] = l
         /\ \A n \in 1 .. Cardinality(Links) : Chain(l)[n] = Follow(Chain(l)[n - 1])
<1> DEFINE N == Cardinality(Links)
           A == {l} \cup {Target(x) : x \in Links}
           F(f) == [n \in 0 .. N |-> IF n = 0 THEN l ELSE Follow(f[n - 1])]
           step == [x \in (1 .. N) \X A |-> Follow(x[2])]
           c == Chain(l)
<1>1. N \in Nat
  BY Rows
<1>2. c = CHOOSE f : f = F(f)
  BY DEF Chain
<1> HIDE DEF N, c
<1>3. l \in A /\ \A a \in A : Follow(a) \in A
  BY DEF Follow
<1> HIDE DEF A
<1>4. step \in [(1 .. N) \X A -> A] /\ \A n \in 1 .. N, a \in A : step[<<n, a>>] = Follow(a)
  BY <1>3
<1> HIDE DEF step
<1>5. PICK g : Recursion(g, N, A, l, step)
  BY <1>1, <1>3, <1>4, RecursionExists
<1>6. ASSUME NEW n \in 1 .. N PROVE g[n] = Follow(g[n - 1])
  <2>1. n - 1 \in 0 .. N
    BY <1>1
  <2> QED
    BY <1>4, <1>5, <2>1 DEF Recursion
<1>7. g = F(g)
  BY <1>1, <1>5, <1>6 DEF Recursion
<1> HIDE DEF F
<1>8. c = F(c)
  BY <1>2, <1>7
<1> QED
  BY <1>1, <1>8 DEF F, N, c

\* A chain that ends outside the links goes through k different links and then
\* stays where it ends: one that came back to a link would never leave.
LEMMA ChainEnds ==
  ASSUME policy \in Policies, NEW l \in Links, End(l) \notin Links
  PROVE  \E k \in 1 .. Cardinality(Links) :
           /\ \A n \in 0 .. k - 1 : Chain(l)[n] \in Links /\ Target(Chain(l)[n]) = Chain(l)[n + 1]
           /\ \A n \in k .. Cardinality(Links) : Chain(l)[n] = End(l)
           /\ ChainLength(l) = k
<1> DEFINE N == Cardinality(Links)
           c == Chain(l)
           S == {n \in 1 .. N : c[n] \notin Links}
<1>1. /\ N \in Nat /\ c[0] = l /\ c[N] = End(l)
      /\ \A n \in 1 .. N : c[n] = Follow(c[n - 1])
  BY Rows, ChainSteps DEF End
<1>2. N # 0
  BY Rows, FS_EmptySet
<1> HIDE DEF N, c
<1>3. N \in S /\ S \in SUBSET (1 .. N)
  BY <1>1, <1>2
<1>4. PICK k \in S : \A j \in S : k <= j
  BY <1>1, <1>3, FirstExists
<1>5. k \in 1 .. N /\ c[k] \notin Links
  BY <1>4
<1>6. ASSUME NEW n \in 0 .. k - 1
      PROVE  c[n] \in Links /\ Target(c[n]) = c[n + 1]
  <2>1. c[n] \in Links
    <3>1. CASE n = 0
      BY <1>1, <3>1
    <3>2. CASE n # 0
      BY <1>1, <1>4, <1>5, <3>2
    <3> QED
      BY <3>1, <3>2
  <2>2. n + 1 \in 1 .. N /\ n + 1 - 1 = n
    BY <1>1, <1>5
  <2> QED
    BY <1>1, <2>1, <2>2 DEF Follow
<1>7. \A n \in k .. N : c[n] = End(l)
  <2> DEFINE G == {i \in 0 .. N - k : c[k + i] = c[k]}
  <2>1. 0 \in G /\ N - k \in Nat
    BY <1>1, <1>5
  <2>2. ASSUME NEW i \in 1 .. N - k, i - 1 \in G PROVE i \in G
    <3>1. k + i \in 1 .. N /\ k + i - 1 = k + (i - 1) /\ i \in 0 .. N - k
      BY <1>1, <1>5
    <3>2. c[k + i] = Follow(c[k])
      BY <1>1, <2>2, <3>1
    <3> QED
      BY <1>5, <3>1, <3>2 DEF Follow
  <2> HIDE DEF G
  <2>3. \A i \in 0 .. N - k : i \in G
    BY <2>1, <2>2, UpTo
  <2>4. \A n \in k .. N : c[n] = c[k]
    <3> SUFFICES ASSUME NEW n \in k .. N PROVE c[n] = c[k]
      OBVIOUS
    <3>1. n - k \in 0 .. N - k /\ k + (n - k) = n
      BY <1>1, <1>5
    <3> QED
      BY <2>3, <3>1 DEF G
  <2> QED
    BY <1>1, <1>5, <2>4
<1>8. ASSUME NEW i \in 0 .. k - 1, NEW j \in 0 .. k - 1, i < j PROVE c[i] # c[j]
  <2> SUFFICES ASSUME c[i] = c[j] PROVE FALSE
    OBVIOUS
  <2> DEFINE G == {m \in 0 .. k - j : c[i + m] = c[j + m]}
  <2>0. k - j \in Nat /\ i \in Nat /\ j \in Nat /\ k \in Nat
    BY <1>5
  <2>1. 0 \in G
    BY <2>0
  <2>2. ASSUME NEW m \in 1 .. k - j, m - 1 \in G PROVE m \in G
    <3>1. /\ i + m \in 1 .. N /\ i + m - 1 = i + (m - 1)
          /\ j + m \in 1 .. N /\ j + m - 1 = j + (m - 1) /\ m \in 0 .. k - j
      BY <1>1, <1>5, <1>8, <2>0
    <3>2. c[i + m] = Follow(c[i + (m - 1)]) /\ c[j + m] = Follow(c[j + (m - 1)])
      BY <1>1, <3>1
    <3> QED
      BY <2>2, <3>1, <3>2
  <2> HIDE DEF G
  <2>3. k - j \in G
    BY <2>0, <2>1, <2>2, UpTo
  <2>4. c[i + (k - j)] = c[k]
    BY <2>0, <2>3 DEF G
  <2>5. i + (k - j) \in 0 .. k - 1
    BY <1>8, <2>0
  <2> QED
    BY <1>5, <1>6, <2>4, <2>5
<1>9. ChainLength(l) = k
  <2> DEFINE V == {c[n] : n \in 0 .. N} \cap Links
             f == [n \in 0 .. k - 1 |-> c[n]]
  <2>1. ASSUME NEW n \in 0 .. N, c[n] \in Links PROVE n \in 0 .. k - 1
    <3>1. n \notin k .. N
      BY <1>7, <2>1
    <3> QED
      BY <1>1, <1>5, <3>1
  <2>2. \A n \in 0 .. k - 1 : n \in 0 .. N /\ c[n] \in V
    BY <1>1, <1>5, <1>6
  <2>3. f \in [0 .. k - 1 -> V] /\ \A v \in V : \E n \in 0 .. k - 1 : f[n] = v
    BY <2>1, <2>2
  <2>4. \A i, j \in 0 .. k - 1 : f[i] = f[j] => i = j
    <3> SUFFICES ASSUME NEW i \in 0 .. k - 1, NEW j \in 0 .. k - 1, c[i] = c[j], i # j
                 PROVE  FALSE
      OBVIOUS
    <3>1. i < j \/ j < i
      OBVIOUS
    <3> QED
      BY <1>8, <3>1
  <2> HIDE DEF V, f
  <2>5. f \in Bijection(0 .. k - 1, V)
    <3>1. f \in Injection(0 .. k - 1, V)
      BY <2>3, <2>4, Zenon DEF Injection, IsInjective
    <3>2. f \in Surjection(0 .. k - 1, V)
      BY <2>3, Zenon DEF Surjection
    <3> QED
      BY <3>1, <3>2, Zenon DEF Bijection
  <2>6. IsFiniteSet(0 .. k - 1) /\ Cardinality(0 .. k - 1) = k
    <3>1. 0 \in Int /\ k - 1 \in Int /\ ~(0 > k - 1) /\ k - 1 - 0 + 1 = k
      BY <1>1, <1>5
    <3> QED
      BY <3>1, FS_Interval
  <2>7. Cardinality(V) = k
    BY <2>5, <2>6, FS_Bijection DEF ExistsBijection
  <2> QED
    BY <2>7 DEF ChainLength, V, c, N
<1> QED
  BY <1>5, <1>6, <1>7, <1>9 DEF c, N

\* Up to where resolve() and order() go, there are links that were not met.
LEMMA AheadFacts ==
  ASSUME policy \in Policies, NEW l, NEW met
  PROVE  /\ Ahead(l, met) \in 0 .. Cardinality(Links)
         /\ \A n \in 0 .. Ahead(l, met) - 1 : Chain(l)[n] \in Links \ met
         /\ Ahead(l, met) # Cardinality(Links) => Chain(l)[Ahead(l, met)] \notin Links \ met
<1> DEFINE N == Cardinality(Links)
           c == Chain(l)
           S == {n \in 0 .. N : c[n] \notin Links \ met} \cup {N}
           k == Ahead(l, met)
<1>1. N \in Nat
  BY Rows
<1> HIDE DEF N, c
<1>2. \E i \in S : \A j \in S : i <= j
  <2>1. CASE 0 \in S
    BY <1>1, <2>1
  <2>2. CASE 0 \notin S
    <3>1. S \in SUBSET (1 .. N) /\ S # {}
      BY <1>1, <2>2
    <3> HIDE DEF S
    <3> QED
      BY <1>1, <3>1, FirstExists
  <2> QED
    BY <2>1, <2>2
<1>3. k = CHOOSE i \in S : \A j \in S : i <= j
  BY DEF Ahead, Min, c, N
<1>4. k \in S /\ \A j \in S : k <= j
  <2> HIDE DEF S, k
  <2> QED
    BY <1>2, <1>3
<1> HIDE DEF k
<1>5. k \in 0 .. N /\ \A n \in 0 .. k - 1 : n \notin S /\ n \in 0 .. N
  BY <1>1, <1>4
<1> QED
  BY <1>1, <1>4, <1>5 DEF k, c, N

\* The list is resolved link by link.
LEMMA ResolutionSteps ==
  ASSUME policy \in Policies
  PROVE  /\ Resolution[0] = [ok |-> TRUE, links |-> {}]
         /\ \A n \in 1 .. Len(policy.list) :
              Resolution[n] = Resolve(Resolution[n - 1], policy.list[n])
<1> DEFINE N == Len(policy.list)
           list == policy.list
           A == [ok : BOOLEAN, links : SUBSET Links]
           a0 == [ok |-> TRUE, links |-> {}]
           F(f) == [n \in 0 .. N |-> IF n = 0 THEN a0 ELSE Resolve(f[n - 1], list[n])]
           step == [x \in (1 .. N) \X A |-> Resolve(x[2], list[x[1]])]
           r == Resolution
<1>1. N \in Nat /\ \A n \in 1 .. N : list[n] \in Links
  BY Rows, ElementOfSeq, LenProperties
<1>2. r = CHOOSE f : f = F(f)
  BY DEF Resolution
<1> HIDE DEF N, list, r
<1>3. a0 \in A
  OBVIOUS
<1>4. ASSUME NEW a \in A, NEW l \in Links PROVE Resolve(a, l) \in A
  <2>1. \A n \in 0 .. Ahead(l, a.links) - 1 : Chain(l)[n] \in Links
    BY AheadFacts
  <2> QED
    BY <2>1 DEF Resolve
<1> HIDE DEF A, a0
<1>5. step \in [(1 .. N) \X A -> A]
  BY <1>1, <1>4
<1>6. \A n \in 1 .. N : \A a \in A : step[<<n, a>>] = Resolve(a, list[n])
  OBVIOUS
<1> HIDE DEF step
<1>7. PICK g : Recursion(g, N, A, a0, step)
  BY <1>1, <1>3, <1>5, RecursionExists
<1>8. ASSUME NEW n \in 1 .. N PROVE g[n] = Resolve(g[n - 1], list[n])
  <2>1. n - 1 \in 0 .. N
    BY <1>1
  <2> QED
    BY <1>6, <1>7, <2>1 DEF Recursion
<1>9. g = F(g)
  BY <1>1, <1>7, <1>8 DEF Recursion
<1> HIDE DEF F
<1>10. r = F(r)
  BY <1>2, <1>9
<1>11. r[0] = a0 /\ \A n \in 1 .. N : r[n] = Resolve(r[n - 1], list[n])
  BY <1>1, <1>10 DEF F
<1> QED
  BY <1>11 DEF N, list, a0, r

Agrees(l) == Parents(Target(l)) \cap Links = {} /\ policy.row[l].matches

\* Every link of a list that is resolved ends in an entry, and its row agrees.
LEMMA ResolvedLinks ==
  ASSUME policy \in Policies, Resolvable
  PROVE  \A l \in Links : End(l) \in Entries /\ Agrees(l)
<1> DEFINE N == Len(policy.list)
           list == policy.list
           r == Resolution
           Known(n) == r[n].ok => /\ \A v \in r[n].links : Agrees(v)
                                  /\ \A m \in 1 .. n : /\ End(list[m]) \in Entries
                                                       /\ list[m] \in r[n].links
           G == {n \in 0 .. N : Known(n)}
<1>1. /\ N \in Nat /\ DOMAIN list = 1 .. N /\ \A n \in 1 .. N : list[n] \in Links
      /\ ToSet(list) = Links /\ r[N].ok
      /\ r[0] = [ok |-> TRUE, links |-> {}]
      /\ \A n \in 1 .. N : r[n] = Resolve(r[n - 1], list[n])
  BY Rows, ElementOfSeq, LenProperties, ResolutionSteps DEF Resolvable
<1> HIDE DEF N, list, r
<1>2. 0 \in G
  BY <1>1
<1>3. ASSUME NEW n \in 1 .. N, Known(n - 1) PROVE Known(n)
  <2> SUFFICES ASSUME r[n].ok PROVE Known(n)!2
    OBVIOUS
  <2> DEFINE done == r[n - 1]
             l == list[n]
             k == Ahead(l, done.links)
             visited == {Chain(l)[i] : i \in 0 .. k - 1}
  <2>1. l \in Links /\ r[n] = Resolve(done, l)
    BY <1>1
  <2> HIDE DEF done, l
  <2>2. /\ done.ok /\ End(l) \in Entries /\ \A v \in visited : Agrees(v)
        /\ r[n].links = done.links \cup visited
    BY <2>1 DEF Resolve, Agrees
  <2>3. l \in done.links \cup visited
    <3>1. k \in 0 .. Cardinality(Links) /\ Cardinality(Links) \in Nat /\ Chain(l)[0] = l
      BY Rows, AheadFacts, ChainSteps
    <3>2. CASE k = 0
      <4>1. Cardinality(Links) # 0
        BY <2>1, Rows, FS_EmptySet
      <4> QED
        BY <2>1, <3>1, <3>2, <4>1, AheadFacts
    <3>3. CASE k # 0
      <4>1. 0 \in 0 .. k - 1
        BY <3>1, <3>3
      <4> QED
        BY <3>1, <4>1
    <3> QED
      BY <3>2, <3>3
  <2>4. ASSUME NEW m \in 1 .. n PROVE End(list[m]) \in Entries /\ list[m] \in r[n].links
    <3>1. CASE m = n
      BY <2>2, <2>3, <3>1 DEF l
    <3>2. CASE m # n
      <4>1. m \in 1 .. n - 1
        BY <3>2
      <4> QED
        BY <1>3, <2>2, <4>1 DEF done
    <3> QED
      BY <3>1, <3>2
  <2>5. \A v \in r[n].links : Agrees(v)
    BY <1>3, <2>2 DEF done
  <2> QED
    BY <2>4, <2>5
<1>4. Known(N)
  <2> HIDE DEF Known
  <2>1. \A n \in 1 .. N : n - 1 \in G => n \in G
    BY <1>1, <1>3
  <2> HIDE DEF G
  <2>2. \A n \in 0 .. N : n \in G
    BY <1>1, <1>2, <2>1, UpTo
  <2> QED
    BY <1>1, <2>2 DEF G
<1>5. ASSUME NEW l \in Links PROVE End(l) \in Entries /\ Agrees(l)
  <2>1. PICK m \in 1 .. N : l = list[m]
    BY <1>1 DEF ToSet
  <2> QED
    BY <1>1, <1>4, <2>1
<1> QED
  BY <1>5

\* What the walk along the lists and the order rests on.
LinksAccepted == WellPlaced /\ Resolvable

LEMMA SoundLinks ==
  ASSUME policy \in Policies, LinksAccepted, NEW l \in Links
  PROVE  /\ End(l) \in Entries /\ End(l) \notin Links
         /\ Parents(Target(l)) \cap Links = {} /\ policy.row[l].matches
BY ResolvedLinks DEF LinksAccepted, WellPlaced, Agrees

-----------------------------------------------------------------------------
\* Every link after the link it leads to.
TargetsFirst(s) ==
  \A i \in 1 .. Len(s) : Target(s[i]) \in Links => \E j \in 1 .. i - 1 : s[j] = Target(s[i])

\* order() adds links behind those it has.
LEMMA BehindType ==
  ASSUME policy \in Policies, NEW done \in Seq(Links), NEW l
  PROVE  /\ [i \in 1 .. Ahead(l, ToSet(done)) |-> Chain(l)[Ahead(l, ToSet(done)) - i]]
              \in Seq(Links)
         /\ Behind(done, l) \in Seq(Links)
         /\ Len(Behind(done, l)) = Len(done) + Ahead(l, ToSet(done))
         /\ \A i \in 1 .. Len(done) : Behind(done, l)[i] = done[i]
         /\ \A i \in 1 .. Ahead(l, ToSet(done)) :
              Behind(done, l)[Len(done) + i] = Chain(l)[Ahead(l, ToSet(done)) - i]
<1> DEFINE met == ToSet(done)
           k == Ahead(l, met)
           back == [i \in 1 .. k |-> Chain(l)[k - i]]
<1> HIDE DEF met
<1>1. /\ k \in Nat /\ \A n \in 0 .. k - 1 : Chain(l)[n] \in Links
  <2>1. k \in 0 .. Cardinality(Links) /\ \A n \in 0 .. k - 1 : Chain(l)[n] \in Links \ met
    BY AheadFacts
  <2>2. Cardinality(Links) \in Nat
    BY Rows
  <2> HIDE DEF k
  <2> QED
    BY <2>1, <2>2
<1>2. Len(done) \in Nat
  BY LenProperties
<1> HIDE DEF k
<1>3. \A i \in 1 .. k : k - i \in 0 .. k - 1
  BY <1>1
<1>4. back \in Seq(Links) /\ Len(back) = k
  <2>1. back \in [1 .. k -> Links]
    BY <1>1, <1>3
  <2>2. DOMAIN back = 1 .. k
    OBVIOUS
  <2> HIDE DEF back
  <2>3. back \in Seq(Links)
    BY <1>1, <2>1
  <2> QED
    BY <1>1, <2>1, <2>3
<1>5. \A i \in 1 .. k : back[i] = Chain(l)[k - i]
  OBVIOUS
<1> HIDE DEF back
<1>6. /\ done \o back \in Seq(Links) /\ Len(done \o back) = Len(done) + k
      /\ \A i \in 1 .. Len(done) + k : (done \o back)[i] =
           IF i <= Len(done) THEN done[i] ELSE back[i - Len(done)]
  BY <1>4, ConcatProperties
<1>7. \A i \in 1 .. Len(done) : i \in 1 .. Len(done) + k /\ i <= Len(done)
  BY <1>1, <1>2
<1>8. \A i \in 1 .. k : /\ Len(done) + i \in 1 .. Len(done) + k /\ ~(Len(done) + i <= Len(done))
                        /\ Len(done) + i - Len(done) = i
  BY <1>1, <1>2
<1>9. Behind(done, l) = done \o back
  BY DEF Behind, k, back, met
<1>10. /\ back \in Seq(Links) /\ Behind(done, l) \in Seq(Links)
       /\ Len(Behind(done, l)) = Len(done) + k
  BY <1>4, <1>6, <1>9
<1>11. \A i \in 1 .. Len(done) : Behind(done, l)[i] = done[i]
  BY <1>6, <1>7, <1>9
<1>12. \A i \in 1 .. k : Behind(done, l)[Len(done) + i] = Chain(l)[k - i]
  BY <1>5, <1>6, <1>8, <1>9
<1> QED
  BY <1>10, <1>11, <1>12 DEF k, back, met

\* The order is made path by path.
LEMMA OrderingSteps ==
  ASSUME policy \in Policies
  PROVE  /\ Ordering[0] = <<>>
         /\ \A n \in 1 .. Len(SortedPaths) :
              Ordering[n] = Behind(Ordering[n - 1], SortedPaths[n])
         /\ \A n \in 0 .. Len(SortedPaths) : Ordering[n] \in Seq(Links)
<1> DEFINE N == Len(SortedPaths)
           A == Seq(Links)
           a0 == <<>>
           F(f) == [n \in 0 .. N |-> IF n = 0 THEN a0 ELSE Behind(f[n - 1], SortedPaths[n])]
           step == [x \in (1 .. N) \X A |-> Behind(x[2], SortedPaths[x[1]])]
           o == Ordering
<1>1. N \in Nat
  BY LinkAssumption, LenProperties
<1>2. o = CHOOSE f : f = F(f)
  BY DEF Ordering
<1> HIDE DEF N, o
<1>3. a0 \in A
  BY EmptySeq
<1>4. ASSUME NEW a \in A, NEW l PROVE Behind(a, l) \in A
  BY BehindType
<1> HIDE DEF A, a0
<1>5. step \in [(1 .. N) \X A -> A]
  BY <1>1, <1>4
<1>6. \A n \in 1 .. N : \A a \in A : step[<<n, a>>] = Behind(a, SortedPaths[n])
  OBVIOUS
<1> HIDE DEF step
<1>7. PICK g : Recursion(g, N, A, a0, step)
  BY <1>1, <1>3, <1>5, RecursionExists
<1>8. ASSUME NEW n \in 1 .. N PROVE g[n] = Behind(g[n - 1], SortedPaths[n])
  <2>1. n - 1 \in 0 .. N
    BY <1>1
  <2> QED
    BY <1>6, <1>7, <2>1 DEF Recursion
<1>9. g = F(g)
  BY <1>1, <1>7, <1>8 DEF Recursion
<1> HIDE DEF F
<1>10. o = F(o)
  BY <1>2, <1>9
<1>11. o[0] = a0 /\ \A n \in 1 .. N : o[n] = Behind(o[n - 1], SortedPaths[n])
  BY <1>1, <1>10 DEF F
<1>12. \A n \in 1 .. N : o[n - 1] \in A => o[n] \in A
  BY <1>1, <1>4, <1>11
<1>13. \A n \in 0 .. N : o[n] \in A
  BY <1>1, <1>3, <1>11, <1>12, RecursionTyped
<1> QED
  BY <1>11, <1>13 DEF N, A, a0, o

\* A link, and those further along its chain, come behind those placed before.
LEMMA BehindSound ==
  ASSUME policy \in Policies, LinksAccepted, NEW done \in Seq(Links), TargetsFirst(done), NEW l
  PROVE  /\ TargetsFirst(Behind(done, l))
         /\ ToSet(done) \subseteq ToSet(Behind(done, l))
         /\ l \in Links => l \in ToSet(Behind(done, l))
<1> DEFINE met == ToSet(done)
           k == Ahead(l, met)
           c == Chain(l)
           s == Behind(done, l)
           n == Len(done)
           N == Cardinality(Links)
<1>1. /\ s \in Seq(Links) /\ Len(s) = n + k
      /\ \A i \in 1 .. n : s[i] = done[i]
      /\ \A i \in 1 .. k : s[n + i] = c[k - i]
  BY BehindType
<1>2. n \in Nat /\ DOMAIN done = 1 .. n
  BY LenProperties
<1> HIDE DEF n, s
<1>3. \A x : x \in met <=> \E j \in 1 .. n : done[j] = x
  BY <1>2 DEF ToSet
<1> HIDE DEF met
<1>4. /\ k \in 0 .. N /\ \A i \in 0 .. k - 1 : c[i] \in Links \ met
      /\ k # N => c[k] \notin Links \ met
  BY AheadFacts
<1>5. N \in Nat /\ c[0] = l /\ \A i \in 1 .. N : c[i] = Follow(c[i - 1])
  BY Rows, ChainSteps
<1>6. l \in Links => c[N] \notin Links
  BY SoundLinks DEF End
<1> HIDE DEF k, c, N
<1>7. DOMAIN s = 1 .. n + k
  BY <1>1, LenProperties
<1>8. TargetsFirst(s)
  <2> SUFFICES ASSUME NEW i \in 1 .. n + k, Target(s[i]) \in Links
               PROVE  \E j \in 1 .. i - 1 : s[j] = Target(s[i])
    BY <1>1 DEF TargetsFirst
  <2>1. CASE i \in 1 .. n
    <3>1. s[i] = done[i]
      BY <1>1, <2>1
    <3>2. PICK j \in 1 .. i - 1 : done[j] = Target(s[i])
      BY <2>1, <3>1 DEF TargetsFirst, n
    <3>3. j \in 1 .. n
      BY <1>2, <2>1
    <3> QED
      BY <1>1, <3>2, <3>3
  <2>2. CASE i \notin 1 .. n
    <3> DEFINE m == i - n
    <3>1. m \in 1 .. k /\ i = n + m /\ k - m \in 0 .. k - 1 /\ k - m + 1 \in 1 .. N
          /\ k - m + 1 - 1 = k - m
      BY <1>2, <1>4, <1>5, <2>2
    <3> HIDE DEF m
    <3>2. s[i] = c[k - m] /\ c[k - m] \in Links
      BY <1>1, <1>4, <3>1
    <3>3. Target(s[i]) = c[k - m + 1]
      BY <1>5, <3>1, <3>2 DEF Follow
    <3>4. CASE m = 1
      <4>1. c[k] = Target(s[i])
        BY <3>1, <3>3, <3>4, <1>4, <1>5
      <4>2. l \in Links
        <5>1. 0 \in 0 .. k - 1
          BY <1>4, <1>5, <3>1
        <5> QED
          BY <1>4, <1>5, <5>1
      <4>3. c[k] \in met
        BY <1>4, <1>6, <2>2, <4>1, <4>2
      <4>4. PICK j \in 1 .. n : done[j] = c[k]
        BY <1>3, <4>3
      <4>5. j \in 1 .. i - 1
        BY <1>2, <3>1
      <4> QED
        BY <1>1, <4>1, <4>4, <4>5
    <3>5. CASE m # 1
      <4>1. m - 1 \in 1 .. k /\ k - (m - 1) = k - m + 1 /\ n + (m - 1) \in 1 .. i - 1
        BY <1>2, <1>4, <1>5, <3>1, <3>5
      <4>2. s[n + (m - 1)] = Target(s[i])
        BY <1>1, <3>3, <4>1
      <4> QED
        BY <4>1, <4>2
    <3> QED
      BY <3>4, <3>5
  <2> QED
    BY <2>1, <2>2
<1>9. met \subseteq ToSet(s)
  <2> SUFFICES ASSUME NEW j \in 1 .. n PROVE done[j] \in ToSet(s)
    BY <1>3
  <2>1. j \in 1 .. n + k /\ s[j] = done[j]
    BY <1>1, <1>2, <1>4, <1>5
  <2> QED
    BY <1>7, <2>1 DEF ToSet
<1>10. ASSUME l \in Links PROVE l \in ToSet(s)
  <2>1. N # 0
    BY <1>10, Rows, FS_EmptySet DEF N
  <2>2. CASE k = 0
    BY <1>4, <1>5, <1>9, <1>10, <2>1, <2>2
  <2>3. CASE k # 0
    <3>1. k \in 1 .. k /\ k - k = 0 /\ n + k \in 1 .. n + k
      BY <1>2, <1>4, <1>5, <2>3
    <3>2. s[n + k] = l
      BY <1>1, <1>5, <3>1
    <3> QED
      BY <1>7, <3>1, <3>2 DEF ToSet
  <2> QED
    BY <2>2, <2>3
<1> QED
  BY <1>8, <1>9, <1>10 DEF met, s

\* The order holds every link, each after the one it leads to.
LEMMA OrderedSound ==
  ASSUME policy \in Policies, LinksAccepted
  PROVE  Ordered \in Seq(Links) /\ ToSet(Ordered) = Links /\ TargetsFirst(Ordered)
<1> DEFINE N == Len(SortedPaths)
           o == Ordering
           Placed(n) == /\ TargetsFirst(o[n])
                        /\ \A m \in 1 .. n :
                             SortedPaths[m] \in Links => SortedPaths[m] \in ToSet(o[n])
           G == {n \in 0 .. N : Placed(n)}
<1>1. /\ N \in Nat /\ DOMAIN SortedPaths = 1 .. N /\ o[0] = <<>>
      /\ \A n \in 1 .. N : o[n] = Behind(o[n - 1], SortedPaths[n])
      /\ \A n \in 0 .. N : o[n] \in Seq(Links)
      /\ Links \subseteq ToSet(SortedPaths)
  BY OrderingSteps, LinkAssumption, LenProperties, Rows
<1> HIDE DEF N, o
<1>2. Placed(0)
  BY <1>1 DEF TargetsFirst
<1>3. ASSUME NEW n \in 1 .. N, Placed(n - 1) PROVE Placed(n)
  <2> DEFINE done == o[n - 1]
             l == SortedPaths[n]
  <2>1. done \in Seq(Links) /\ o[n] = Behind(done, l)
    BY <1>1
  <2> HIDE DEF l, done
  <2>2. TargetsFirst(done)
    BY <1>3 DEF done
  <2>3. /\ TargetsFirst(o[n]) /\ ToSet(done) \subseteq ToSet(o[n])
        /\ l \in Links => l \in ToSet(o[n])
    BY <2>1, <2>2, BehindSound
  <2>4. ASSUME NEW m \in 1 .. n, SortedPaths[m] \in Links PROVE SortedPaths[m] \in ToSet(o[n])
    <3>1. CASE m = n
      BY <2>3, <2>4, <3>1 DEF l
    <3>2. CASE m # n
      <4>1. m \in 1 .. n - 1
        BY <3>2
      <4> QED
        BY <1>3, <2>3, <2>4, <4>1 DEF done
    <3> QED
      BY <3>1, <3>2
  <2> QED
    BY <2>3, <2>4
<1> HIDE DEF Placed
<1>4. Placed(N)
  <2>1. 0 \in G /\ \A n \in 1 .. N : n - 1 \in G => n \in G
    BY <1>1, <1>2, <1>3
  <2> HIDE DEF G
  <2>2. \A n \in 0 .. N : n \in G
    BY <1>1, <2>1, UpTo
  <2> QED
    BY <1>1, <2>2 DEF G
<1>5. Ordered = o[N] /\ o[N] \in Seq(Links)
  BY <1>1 DEF Ordered, o, N
<1>6. ToSet(o[N]) \subseteq Links
  <2>1. DOMAIN o[N] = 1 .. Len(o[N]) /\ \A i \in 1 .. Len(o[N]) : o[N][i] \in Links
    BY <1>5, LenProperties, ElementOfSeq
  <2> QED
    BY <2>1 DEF ToSet
<1>7. ASSUME NEW l \in Links PROVE l \in ToSet(o[N])
  <2>1. PICK m \in 1 .. N : SortedPaths[m] = l
    BY <1>1 DEF ToSet
  <2> QED
    BY <1>4, <2>1 DEF Placed
<1> QED
  BY <1>4, <1>5, <1>6, <1>7 DEF Placed

-----------------------------------------------------------------------------
Short(l) == ChainLength(l) <= MaxDepth /\ ChainLength(l) <= MaxFollow

\* What is placed before a link holds all that is further along its chain.
LEMMA FurtherPlaced ==
  ASSUME policy \in Policies, LinksAccepted, NEW l \in Links, NEW P,
         \A x \in P \cup {l} : x \in Links /\ Target(x) \in Links => Target(x) \in P
  PROVE  /\ \A n \in 0 .. Cardinality(Links) : Chain(l)[n] \in Links => Chain(l)[n] \in P \cup {l}
         /\ \A n \in 1 .. Cardinality(Links) : Chain(l)[n] \in Links => Chain(l)[n] \in P
<1> DEFINE N == Cardinality(Links)
           c == Chain(l)
           G == {n \in 0 .. N : c[n] \in Links => c[n] \in P \cup {l}}
<1>1. N \in Nat /\ c[0] = l /\ \A n \in 1 .. N : c[n] = Follow(c[n - 1])
  BY Rows, ChainSteps
<1>2. PICK k \in 1 .. N :
        /\ \A n \in 0 .. k - 1 : c[n] \in Links /\ Target(c[n]) = c[n + 1]
        /\ \A n \in k .. N : c[n] = End(l)
  BY SoundLinks, ChainEnds
<1>3. End(l) \notin Links
  BY SoundLinks
<1> HIDE DEF N, c
<1>4. ASSUME NEW n \in 1 .. N, n - 1 \in G, c[n] \in Links PROVE c[n] \in P
  <2>1. n \in 1 .. k - 1
    <3>1. n \notin k .. N
      BY <1>2, <1>3, <1>4
    <3> QED
      BY <1>1, <1>2, <3>1
  <2>2. n - 1 \in 0 .. k - 1 /\ n - 1 + 1 = n
    BY <1>2, <2>1
  <2>3. c[n - 1] \in Links /\ Target(c[n - 1]) = c[n]
    BY <1>2, <2>2
  <2>4. c[n - 1] \in P \cup {l}
    BY <1>4, <2>3
  <2> QED
    BY <1>4, <2>3, <2>4
<1>5. \A n \in 0 .. N : n \in G
  <2>1. 0 \in G /\ \A n \in 1 .. N : n - 1 \in G => n \in G
    BY <1>1, <1>4
  <2> HIDE DEF G
  <2> QED
    BY <1>1, <2>1, UpTo
<1>6. \A n \in 1 .. N : n - 1 \in 0 .. N
  BY <1>1
<1> QED
  BY <1>4, <1>5, <1>6 DEF N, c

\* verify_target() finds the links further along the chain.
LEMMA FurtherVerified ==
  ASSUME policy \in Policies, LinksAccepted, NEW l \in Links, ChainLength(l) <= MaxDepth, NEW P,
         \A x \in P \cup {l} : x \in Links /\ Target(x) \in Links => Target(x) \in P,
         P \subseteq placed
  PROVE  Verified(l)
<1> DEFINE N == Cardinality(Links)
           further == {Chain(l)[n] : n \in 1 .. N} \cap Links
           all == {Chain(l)[n] : n \in 0 .. N} \cap Links
<1>1. further \subseteq placed
  BY FurtherPlaced
<1>2. N \in Nat /\ IsFiniteSet(Links)
  BY Rows
<1>3. further \in SUBSET all /\ all \in SUBSET Links
  <2>1. \A n \in 1 .. N : n \in 0 .. N
    BY <1>2
  <2> QED
    BY <2>1
<1>4. /\ IsFiniteSet(all) /\ Cardinality(further) <= Cardinality(all)
      /\ Cardinality(further) \in Nat /\ Cardinality(all) \in Nat
  <2> HIDE DEF further, all
  <2>1. IsFiniteSet(all)
    BY <1>2, <1>3, FS_Subset
  <2> QED
    BY <1>3, <2>1, FS_Subset, FS_CardinalityType
<1>5. Cardinality(further) <= MaxDepth
  <2>1. Cardinality(all) <= MaxDepth
    BY DEF ChainLength
  <2>2. MaxDepth \in Nat
    BY LinkAssumption
  <2> HIDE DEF further, all
  <2> QED
    BY <1>4, <2>1, <2>2
<1> QED
  BY <1>1, <1>5, SoundLinks DEF Verified

Walking == [at : AnyPaths, todo : AnyPaths, follows : Nat, failed : BOOLEAN]

Walked(at, todo, follows, failed) ==
  [at |-> at, todo |-> todo, follows |-> follows, failed |-> failed]

\* The next component is a name; where it leads; the text of a link
\* stands before what is left; the link limit is reached; nothing is there.
Named(todo) == Head(todo) \notin {".", ".."}
Taken(at, todo) == Append(at, Head(todo))
Replaced(todo, path) == policy.row[path].target \o Tail(todo)
Late(follows) == follows >= MaxFollow
Lost(path) == path \notin Entries \cup Directories

LEMMA WalkingFields ==
  ASSUME NEW w \in Walking
  PROVE  /\ w.at \in AnyPaths /\ w.todo \in AnyPaths /\ w.follows \in Nat /\ w.failed \in BOOLEAN
         /\ w = Walked(w.at, w.todo, w.follows, w.failed)
BY DEF Walking, Walked

\* The state of a walk, by its fields.
LEMMA WalkedType ==
  ASSUME NEW at \in AnyPaths, NEW todo \in AnyPaths, NEW f \in Nat, NEW failed \in BOOLEAN
  PROVE  Walked(at, todo, f, failed) \in Walking
BY DEF Walking, Walked

\* What a step makes of a walk that goes on, by its next component.
LEMMA StepStays ==
  ASSUME NEW live, NEW at \in Directories, NEW todo, todo # <<>>, NEW f \in Nat, Head(todo) = "."
  PROVE  Step(Walked(at, todo, f, FALSE), live)
           = Walked(at, Tail(todo), f, FALSE)
<1> DEFINE w == Walked(at, todo, f, FALSE)
<1>1. w.at = at /\ w.todo = todo /\ w.follows = f /\ w.failed = FALSE
  BY DEF Walked
<1> HIDE DEF w
<1> QED
  BY <1>1 DEF Step, w, Walked, Named, Taken, Replaced, Late, Lost

LEMMA StepOut ==
  ASSUME NEW live, NEW at \in Directories, NEW todo, todo # <<>>, NEW f \in Nat,
         Head(todo) = "..", at = <<>>
  PROVE  Step(Walked(at, todo, f, FALSE), live)
           = Walked(at, Tail(todo), f, TRUE)
<1> DEFINE w == Walked(at, todo, f, FALSE)
<1>1. w.at = at /\ w.todo = todo /\ w.follows = f /\ w.failed = FALSE
  BY DEF Walked
<1> HIDE DEF w
<1> QED
  BY <1>1 DEF Step, w, Walked, Named, Taken, Replaced, Late, Lost

LEMMA StepUp ==
  ASSUME NEW live, NEW at \in Directories, NEW todo, todo # <<>>, NEW f \in Nat,
         Head(todo) = "..", at # <<>>
  PROVE  Step(Walked(at, todo, f, FALSE), live)
           = Walked(Front(at), Tail(todo), f, FALSE)
<1> DEFINE w == Walked(at, todo, f, FALSE)
<1>1. w.at = at /\ w.todo = todo /\ w.follows = f /\ w.failed = FALSE
  BY DEF Walked
<1> HIDE DEF w
<1> QED
  BY <1>1 DEF Step, w, Walked, Named, Taken, Replaced, Late, Lost

LEMMA StepFollows ==
  ASSUME NEW live, NEW at \in Directories, NEW todo, todo # <<>>, NEW f \in Nat,
         Named(todo), Taken(at, todo) \in live
  PROVE  Step(Walked(at, todo, f, FALSE), live)
           = Walked(at, Replaced(todo, Taken(at, todo)), f + 1, Late(f))
<1> DEFINE w == Walked(at, todo, f, FALSE)
<1>1. w.at = at /\ w.todo = todo /\ w.follows = f /\ w.failed = FALSE
  BY DEF Walked
<1> HIDE DEF w
<1> QED
  BY <1>1 DEF Step, w, Walked, Named, Taken, Replaced, Late, Lost

LEMMA StepOn ==
  ASSUME NEW live, NEW at \in Directories, NEW todo, todo # <<>>, NEW f \in Nat,
         Named(todo), Taken(at, todo) \notin live
  PROVE  Step(Walked(at, todo, f, FALSE), live)
           = Walked(Taken(at, todo), Tail(todo), f, Lost(Taken(at, todo)))
<1> DEFINE w == Walked(at, todo, f, FALSE)
<1>1. w.at = at /\ w.todo = todo /\ w.follows = f /\ w.failed = FALSE
  BY DEF Walked
<1> HIDE DEF w
<1> QED
  BY <1>1 DEF Step, w, Walked, Named, Taken, Replaced, Late, Lost

\* A step of a walk leaves a walk.
LEMMA StepType ==
  ASSUME policy \in Policies, NEW live \in SUBSET Links, NEW w \in Walking
  PROVE  Step(w, live) \in Walking
<1> DEFINE at == w.at
           todo == w.todo
           f == w.follows
           part == Head(todo)
           rest == Tail(todo)
           path == Append(at, part)
           s == Step(w, live)
<1>0. /\ at \in AnyPaths /\ todo \in AnyPaths /\ f \in Nat /\ w.failed \in BOOLEAN
      /\ w = Walked(at, todo, f, w.failed)
  BY WalkingFields
<1>1. CASE w.failed \/ todo = <<>>
  BY <1>1 DEF Step
<1>2. CASE ~w.failed /\ todo # <<>> /\ at \notin Directories
  <2>1. s = [w EXCEPT !.failed = TRUE]
    BY <1>2 DEF Step
  <2> QED
    BY <2>1 DEF Walking
<1>3. CASE ~w.failed /\ todo # <<>> /\ at \in Directories
  <2> DEFINE more == policy.row[path].target \o rest
             late == Late(f)
             nowhere == Lost(path)
  <2>1. part \in STRING /\ rest \in AnyPaths
    BY <1>0, <1>3, HeadTailProperties DEF AnyPaths
  <2>2. at # <<>> => Front(at) \in AnyPaths
    BY <1>0, FrontFacts
  <2>3. path \in AnyPaths
    BY <1>0, <2>1, FrontOfAppend
  <2>4. path \in live => more \in AnyPaths
    BY <2>1, Rows, ConcatProperties DEF AnyPaths
  <2>5. late \in BOOLEAN /\ nowhere \in BOOLEAN /\ f + 1 \in Nat
    BY <1>0 DEF Late, Lost
  <2>6. w.failed = FALSE
    BY <1>0, <1>3
  <2> HIDE DEF more, late, nowhere, part, rest, path, at, todo, f, s
  <2>7. /\ part = "." => s = Walked(at, rest, f, FALSE)
        /\ part = ".." /\ at = <<>> => s = Walked(at, rest, f, TRUE)
        /\ part = ".." /\ at # <<>> => s = Walked(Front(at), rest, f, FALSE)
        /\ part \notin {".", ".."} /\ path \in live => s = Walked(at, more, f + 1, late)
        /\ part \notin {".", ".."} /\ path \notin live => s = Walked(path, rest, f, nowhere)
    <3>1. w = Walked(at, todo, f, FALSE)
      BY <1>0, <2>6
    <3>2. part = "." => s = Walked(at, rest, f, FALSE)
      BY <1>0, <1>3, <3>1, StepStays DEF part, rest, s
    <3>3. part = ".." /\ at = <<>> => s = Walked(at, rest, f, TRUE)
      BY <1>0, <1>3, <3>1, StepOut DEF part, rest, s
    <3>4. part = ".." /\ at # <<>> => s = Walked(Front(at), rest, f, FALSE)
      BY <1>0, <1>3, <3>1, StepUp DEF part, rest, s
    <3>5. ASSUME part \notin {".", ".."}, path \in live PROVE s = Walked(at, more, f + 1, late)
      <4>1. path = Taken(at, todo) /\ Named(todo)
        BY <3>5 DEF path, part, Taken, Named
      <4>2. todo # <<>> /\ at \in Directories /\ f \in Nat
        BY <1>0, <1>3
      <4>3. Step(Walked(at, todo, f, FALSE), live)
              = Walked(at, Replaced(todo, Taken(at, todo)), f + 1, Late(f))
        BY ONLY <3>5, <4>1, <4>2, StepFollows
      <4> QED
        BY <3>1, <4>1, <4>3 DEF s, more, late, rest, Replaced
    <3>6. ASSUME part \notin {".", ".."}, path \notin live PROVE s = Walked(path, rest, f, nowhere)
      <4>1. path = Taken(at, todo) /\ Named(todo)
        BY <3>6 DEF path, part, Taken, Named
      <4>2. todo # <<>> /\ at \in Directories /\ f \in Nat
        BY <1>0, <1>3
      <4>3. Step(Walked(at, todo, f, FALSE), live)
              = Walked(path, Tail(todo), f, Lost(path))
        BY ONLY <3>6, <4>1, <4>2, StepOn
      <4> QED
        BY <3>1, <4>3 DEF s, nowhere, rest
    <3> QED
      BY <3>2, <3>3, <3>4, <3>5, <3>6
  <2>8. s \in Walking
    BY <1>0, <2>1, <2>2, <2>3, <2>4, <2>5, <2>7, WalkedType
  <2> QED
    BY <2>8 DEF s
<1> QED
  BY <1>0, <1>1, <1>2, <1>3

\* The walk starts before the name of the link and goes on step by step.
LEMMA WalkSteps ==
  ASSUME policy \in Policies, NEW l \in Links, NEW live \in SUBSET Links
  PROVE  /\ LongestWalk \in Nat
         /\ Walk(l, live)[0] = Walked(Front(l), <<Last(l)>>, 0, FALSE)
         /\ \A n \in 1 .. LongestWalk :
              Walk(l, live)[n] = Step(Walk(l, live)[n - 1], live)
<1> DEFINE N == LongestWalk
           A == Walking
           a0 == Walked(Front(l), <<Last(l)>>, 0, FALSE)
           F(f) == [n \in 0 .. N |-> IF n = 0 THEN a0 ELSE Step(f[n - 1], live)]
           step == [x \in (1 .. N) \X A |-> Step(x[2], live)]
           w == Walk(l, live)
<1>1. N \in Nat
  <2>1. MaxFollow \in Nat /\ MaxText \in Nat
    BY LinkAssumption
  <2> QED
    BY <2>1 DEF LongestWalk
<1>2. w = CHOOSE f : f = F(f)
  BY DEF Walk, Walked
<1> HIDE DEF N, w
<1>3. a0 \in A
  <2>1. Front(l) \in AnyPaths /\ Last(l) \in STRING
    BY Rows, FrontFacts
  <2>2. <<Last(l)>> \in AnyPaths
    BY <2>1 DEF AnyPaths
  <2> QED
    BY <2>1, <2>2, WalkedType
<1>4. ASSUME NEW a \in A PROVE Step(a, live) \in A
  BY StepType
<1> HIDE DEF A, a0
<1>5. step \in [(1 .. N) \X A -> A]
  BY <1>1, <1>4
<1>6. \A n \in 1 .. N : \A a \in A : step[<<n, a>>] = Step(a, live)
  OBVIOUS
<1> HIDE DEF step
<1>7. PICK g : Recursion(g, N, A, a0, step)
  BY <1>1, <1>3, <1>5, RecursionExists
<1>8. ASSUME NEW n \in 1 .. N PROVE g[n] = Step(g[n - 1], live)
  <2>1. n - 1 \in 0 .. N
    BY <1>1
  <2> QED
    BY <1>6, <1>7, <2>1 DEF Recursion
<1>9. g = F(g)
  BY <1>1, <1>7, <1>8 DEF Recursion
<1> HIDE DEF F
<1>10. w = F(w)
  BY <1>2, <1>9
<1>11. w[0] = a0 /\ \A n \in 1 .. N : w[n] = Step(w[n - 1], live)
  BY <1>1, <1>10 DEF F
<1> QED
  BY <1>1, <1>11 DEF N, a0, w

\* A text that was taken to its end was taken from a directory at each component.
LEMMA LexicalOk ==
  ASSUME policy \in Policies, NEW x \in Links, Lexical(x)[Len(policy.row[x].target)].ok
  PROVE  \A m \in 1 .. Len(policy.row[x].target) :
           LET from == Lexical(x)[m - 1]
               to == Lexical(x)[m]
               part == policy.row[x].target[m]
           IN  /\ from.parts \in (Directories \ Links) \cap AnyPaths /\ part \in STRING
               /\ part = "." => to.parts = from.parts
               /\ part = ".." => from.parts # <<>> /\ to.parts = Front(from.parts)
               /\ part \notin {".", ".."} => to.parts = Append(from.parts, part)
<1> DEFINE text == policy.row[x].target
           L == Len(text)
           t == Lexical(x)
           G == {i \in 0 .. L : t[L - i].ok}
<1>1. /\ L \in Nat /\ \A m \in 1 .. L : text[m] \in STRING
      /\ \A m \in 1 .. L : t[m] = Through(t[m - 1], text[m])
      /\ \A m \in 0 .. L : t[m] \in [parts : AnyPaths, ok : BOOLEAN]
      /\ t[L].ok
  BY LexicalSteps, Rows, ElementOfSeq, LenProperties DEF AnyPaths
<1> HIDE DEF text, L, t
<1>2. ASSUME NEW m \in 1 .. L, t[m].ok
      PROVE  /\ t[m - 1].ok
             /\ t[m - 1].parts \in (Directories \ Links) \cap AnyPaths
             /\ t[m] = Component(t[m - 1], text[m])
  <2>1. t[m] = Through(t[m - 1], text[m]) /\ t[m - 1] \in [parts : AnyPaths, ok : BOOLEAN]
    BY <1>1
  <2>2. ~Refuse(t[m - 1]).ok
    BY <2>1 DEF Refuse
  <2> QED
    BY <1>2, <2>1, <2>2 DEF Through
<1>3. \A i \in 0 .. L : i \in G
  <2>1. 0 \in G
    BY <1>1
  <2>2. ASSUME NEW i \in 1 .. L, i - 1 \in G PROVE i \in G
    <3>1. L - (i - 1) \in 1 .. L /\ L - (i - 1) - 1 = L - i /\ i \in 0 .. L
      BY <1>1
    <3> QED
      BY <1>2, <2>2, <3>1
  <2> HIDE DEF G
  <2> QED
    BY <1>1, <2>1, <2>2, UpTo
<1>4. ASSUME NEW m \in 1 .. L
      PROVE  /\ t[m - 1].parts \in (Directories \ Links) \cap AnyPaths /\ text[m] \in STRING
             /\ text[m] = "." => t[m].parts = t[m - 1].parts
             /\ text[m] = ".." => t[m - 1].parts # <<>> /\ t[m].parts = Front(t[m - 1].parts)
             /\ text[m] \notin {".", ".."} => t[m].parts = Append(t[m - 1].parts, text[m])
  <2>1. t[m].ok
    <3>1. L - m \in 0 .. L /\ L - (L - m) = m
      BY <1>1
    <3> QED
      BY <1>3, <3>1
  <2>2. /\ t[m - 1].parts \in (Directories \ Links) \cap AnyPaths /\ text[m] \in STRING
        /\ t[m] = Component(t[m - 1], text[m])
        /\ t[m - 1] \in [parts : AnyPaths, ok : BOOLEAN]
    BY <1>1, <1>2, <2>1
  <2>3. text[m] = ".." => t[m - 1].parts # <<>> /\ t[m].parts = Front(t[m - 1].parts)
    BY <2>1, <2>2 DEF Component, Refuse
  <2> QED
    BY <2>2, <2>3 DEF Component
<1> QED
  BY <1>4 DEF text, L, t

\* A target that is a link or an entry is where the text has led.
LEMMA TargetIsLexical ==
  ASSUME policy \in Policies, NEW x \in Links, Target(x) \in Links \cup Entries
  PROVE  LET w == Lexical(x)[Len(policy.row[x].target)]
         IN  w.ok /\ w.parts = Target(x) /\ Target(x) # <<>>
<1> DEFINE n == <<"">>
<1>0. ~RelativePath(n)
  <2>1. 1 \in DOMAIN n /\ n[1] = ""
    OBVIOUS
  <2> HIDE DEF n
  <2>2. "" \in ToSet(n)
    BY <2>1 DEF ToSet
  <2> QED
    BY <2>2 DEF RelativePath
<1>1. Nowhere \notin Entries
  BY <1>0, LinkAssumption DEF Nowhere, Entries
<1>2. Nowhere \notin Links
  BY <1>0, LinkAssumption, Rows DEF Nowhere
<1> HIDE DEF n
<1> QED
  BY <1>1, <1>2 DEF Target

\* What a directory is in is no link.
LEMMA ParentIsNoLink ==
  ASSUME policy \in Policies, WellPlaced, NEW d \in Directories, d \in AnyPaths, d # <<>>
  PROVE  Front(d) \notin Links
<1> SUFFICES ASSUME Front(d) \in Links PROVE FALSE
  OBVIOUS
<1>1. Front(d) # <<>>
  BY Rows
<1>2. Len(d) \in Nat \ {0} /\ Len(Front(d)) = Len(d) - 1 /\ Front(d) \in AnyPaths
  BY FrontFacts
<1>3. Len(d) - 1 \in Nat \ {0}
  BY <1>1, <1>2, EmptySeq DEF AnyPaths
<1>4. CASE d \in Entries
  <2>1. Len(d) - 1 \in 1 .. Len(d) - 1
    BY <1>2, <1>3
  <2>2. Front(d) \in Parents(d)
    BY <2>1 DEF Front, Parents
  <2> QED
    BY <1>4, <2>2 DEF WellPlaced
<1>5. CASE \E p \in Entries \cup Links : d \in Parents(p)
  <2>1. PICK p \in Entries \cup Links : d \in Parents(p)
    BY <1>5
  <2>2. PICK n \in 1 .. Len(p) - 1 : d = SubSeq(p, 1, n)
    BY <2>1 DEF Parents
  <2>3. p \in AnyPaths
    BY <2>1, Rows, LinkAssumption DEF Entries, RelativePath, AnyPaths
  <2>4. /\ Len(p) \in Nat /\ n \in 1 .. Len(p)
        /\ \A i \in 1 .. n : p[i] \in STRING
    BY <2>3, LenProperties, ElementOfSeq DEF AnyPaths
  <2>5. Len(d) = n
    BY <2>2, <2>4, SubSeqProperties
  <2>6. Front(d) = SubSeq(p, 1, n - 1)
    <3>1. /\ 1 \in 1 .. Len(p) /\ n \in 1 .. Len(p) /\ 1 \in 1 .. n - 1 + 1
          /\ n - 1 \in 1 .. n - 1 + 1 /\ 1 + 1 - 1 = 1 /\ 1 + (n - 1) - 1 = n - 1
      BY <1>3, <2>4, <2>5
    <3>2. SubSeq(SubSeq(p, 1, n), 1, n - 1) = SubSeq(p, 1, n - 1)
      BY <2>3, <3>1, SubSeqOfSubSeq DEF AnyPaths
    <3> QED
      BY <2>2, <2>5, <3>2 DEF Front
  <2>7. n - 1 \in 1 .. Len(p) - 1
    BY <1>3, <2>4, <2>5
  <2>8. Front(d) \in Parents(p)
    BY <2>6, <2>7 DEF Parents
  <2> QED
    BY <2>1, <2>8 DEF WellPlaced
<1> QED
  BY <1>4, <1>5, <1>1, <1>2 DEF Directories, Entries

\* The walk is about to take the name of a link or an entry.
Facing(p, follows) ==
  Walked(Front(p), <<Last(p)>>, follows, FALSE)

\* The text of a link can be taken to its end; the walk is about to take the last
\* component of that text.
Components(x) == Len(policy.row[x].target)
Whole(x) == Lexical(x)[Components(x)].ok
BeforeLast(x, follows) ==
  Walked(Lexical(x)[Components(x) - 1].parts, <<policy.row[x].target[Components(x)]>>,
         follows, FALSE)

\* Where a component that is no link leads, and whether it leads there.
Onward(at, part) ==
  IF part = "." THEN at ELSE IF part = ".." THEN Front(at) ELSE Append(at, part)
Leads(at, part, to) == to = Onward(at, part) /\ (part = ".." => at # <<>>)
Within(at, todo) == Head(todo) = ".." => at # <<>>
Passable(to, live) == to \in Directories \cup Entries /\ to \notin live

LEMMA Single ==
  ASSUME NEW S, NEW s \in Seq(S), Len(s) = 1, NEW e, s[1] = e
  PROVE  s = <<e>>
OBVIOUS

\* A step that meets no link leads where the text says.
LEMMA StepInside ==
  ASSUME NEW live, NEW at \in Directories, NEW todo, todo # <<>>, NEW f \in Nat,
         Within(at, todo), Passable(Onward(at, Head(todo)), live)
  PROVE  Step(Walked(at, todo, f, FALSE), live)
           = Walked(Onward(at, Head(todo)), Tail(todo), f, FALSE)
<1> DEFINE part == Head(todo)
           to == Onward(at, part)
           s == Step(Walked(at, todo, f, FALSE), live)
<1>1. /\ to \notin live /\ Lost(to) = FALSE
      /\ at \in Directories /\ todo # <<>> /\ f \in Nat
  BY DEF Lost, Passable
<1>2. /\ part = "." => to = at
      /\ part = ".." => at # <<>> /\ to = Front(at)
      /\ part \notin {".", ".."} => to = Append(at, part)
  BY DEF Onward, Within
<1> HIDE DEF to
<1>3. CASE part = "."
  <2>1. s = Walked(at, Tail(todo), f, FALSE)
    BY ONLY <1>1, <1>3, StepStays
  <2>2. to = at
    BY <1>2, <1>3
  <2> QED
    BY ONLY <2>1, <2>2 DEF to
<1>4. CASE part = ".."
  <2>1. at # <<>> /\ to = Front(at)
    BY <1>2, <1>4
  <2>2. s = Walked(Front(at), Tail(todo), f, FALSE)
    BY ONLY <1>1, <1>4, <2>1, StepUp
  <2> QED
    BY ONLY <2>1, <2>2 DEF to
<1>5. CASE part \notin {".", ".."}
  <2>1. to = Taken(at, todo) /\ Named(todo)
    BY <1>2, <1>5 DEF Taken, Named
  <2>2. Taken(at, todo) \notin live /\ Lost(Taken(at, todo)) = FALSE
    BY <1>1, <2>1
  <2>3. s = Walked(Taken(at, todo), Tail(todo), f, Lost(Taken(at, todo)))
    BY ONLY <1>1, <2>1, <2>2, StepOn
  <2> QED
    BY ONLY <2>1, <2>2, <2>3 DEF to
<1> QED
  BY <1>3, <1>4, <1>5

\* A link that is there is replaced by its text, which is taken up to its last component.
LEMMA FollowText ==
  ASSUME policy \in Policies, NEW live \in SUBSET Links, NEW l \in Links, NEW x \in live,
         Whole(x), NEW f \in Nat, f < MaxFollow,
         NEW n \in Nat, n + Components(x) <= LongestWalk, Walk(l, live)[n] = Facing(x, f)
  PROVE  Walk(l, live)[n + Components(x)] = BeforeLast(x, f + 1)
<1> DEFINE text == policy.row[x].target
           L == Len(text)
           t == Lexical(x)
           w == Walk(l, live)
           N == LongestWalk
           State(m) == Walked(t[m].parts, SubSeq(text, m + 1, L), f + 1, FALSE)
           G == {m \in 0 .. L - 1 : w[n + 1 + m] = State(m)}
<1>1. /\ text \in AnyPaths /\ L \in Nat \ {0} /\ t[0] = [parts |-> Front(x), ok |-> TRUE]
      /\ x \in AnyPaths /\ x # <<>>
      /\ \A i \in 1 .. Len(x) : x[i] \notin {".", ".."}
  <2>1. x \in Links
    OBVIOUS
  <2>2. text \in AnyPaths /\ L \in 1 .. MaxText
    BY <2>1, Rows
  <2>3. t[0] = [parts |-> Front(x), ok |-> TRUE]
    BY <2>1, LexicalSteps
  <2>4. L \in Nat \ {0}
    <3>1. MaxText \in Nat
      BY LinkAssumption
    <3> QED
      BY <2>2, <3>1
  <2>5. x \in AnyPaths \ {<<>>} /\ \A i \in 1 .. Len(x) : x[i] \notin {"", ".", ".."}
    BY <2>1, Rows
  <2> HIDE DEF text, L, t
  <2> QED
    BY <2>2, <2>3, <2>4, <2>5
<1>2. \A m \in 1 .. L :
         /\ t[m - 1].parts \in Directories /\ t[m - 1].parts \notin Links
         /\ t[m - 1].parts \in AnyPaths /\ text[m] \in STRING
         /\ Leads(t[m - 1].parts, text[m], t[m].parts)
  BY LexicalOk DEF Leads, Onward, Whole, Components
<1>3. N \in Nat /\ \A i \in 1 .. N : w[i] = Step(w[i - 1], live)
  BY WalkSteps
<1>4. w[n] = Facing(x, f) /\ n + L <= N
  BY DEF Components
<1>5. x \in live /\ MaxFollow \in Nat /\ Late(f) = FALSE
  BY LinkAssumption DEF Late
<1> HIDE DEF text, L, t, w, N
<1>6. w[n + 1] = Walked(Front(x), text, f + 1, FALSE)
  <2>1. /\ Front(x) \in AnyPaths /\ Last(x) \in STRING /\ Append(Front(x), Last(x)) = x
        /\ Last(x) \notin {".", ".."}
    <3>1. Len(x) \in 1 .. Len(x)
      BY <1>1, FrontFacts
    <3> QED
      BY <1>1, <3>1, FrontFacts DEF Last
  <2>2. Front(x) \in Directories
    <3>1. 1 \in 1 .. L /\ 1 - 1 = 0
      BY <1>1
    <3> QED
      BY <1>1, <1>2, <3>1
  <2>3. n + 1 \in 1 .. N /\ n + 1 - 1 = n
    BY <1>1, <1>3, <1>4
  <2>4. w[n + 1] = Step(Facing(x, f), live)
    BY <1>3, <1>4, <2>3
  <2> DEFINE at == Front(x)
             todo == <<Last(x)>>
             v == Facing(x, f)
  <2>5. v = Walked(at, todo, f, FALSE) /\ at \in Directories
    BY <2>2 DEF Facing
  <2>6. todo # <<>> /\ Head(todo) = Last(x) /\ Tail(todo) = <<>>
    BY <2>1
  <2> HIDE DEF v, at, todo
  <2>7. x = Taken(at, todo) /\ Named(todo)
    BY <2>1, <2>6 DEF at, Taken, Named
  <2>8. Step(v, live) = Walked(at, text \o <<>>, f + 1, Late(f))
    <3>1. at \in Directories /\ todo # <<>> /\ x \in live /\ f \in Nat
      BY <1>5, <2>5, <2>6
    <3>2. Step(Walked(at, todo, f, FALSE), live)
            = Walked(at, Replaced(todo, x), f + 1, Late(f))
      BY ONLY <2>7, <3>1, StepFollows
    <3> QED
      BY <2>5, <2>6, <3>2 DEF text, Replaced
  <2>9. text \o <<>> = text
    BY <1>1, ConcatEmptySeq DEF AnyPaths
  <2> QED
    BY <1>5, <2>4, <2>8, <2>9 DEF v, at
<1>7. 0 \in G
  <2>1. SubSeq(text, 1, L) = text
    BY <1>1, SubSeqFull DEF L, AnyPaths
  <2>2. 0 + 1 = 1 /\ n + 1 + 0 = n + 1 /\ 0 \in 0 .. L - 1
    BY <1>1
  <2>3. State(0) = Walked(Front(x), text, f + 1, FALSE)
    <3>1. t[0].parts = Front(x)
      BY <1>1
    <3>2. SubSeq(text, 0 + 1, L) = text
      BY <2>1, <2>2
    <3> QED
      BY <3>1, <3>2, Zenon
  <2> HIDE DEF State
  <2> QED
    BY <1>6, <2>2, <2>3
<1>8. ASSUME NEW m \in 1 .. L - 1, m - 1 \in G PROVE m \in G
  <2>1. /\ m \in 1 .. L /\ m + 1 \in 1 .. L /\ m + 1 - 1 = m /\ m - 1 + 1 = m
        /\ n + 1 + m \in 1 .. N /\ n + 1 + m - 1 = n + 1 + (m - 1) /\ m \in 0 .. L - 1
    BY <1>1, <1>3, <1>4
  <2> DEFINE at == t[m - 1].parts
             todo == SubSeq(text, m, L)
             to == t[m].parts
  <2>2. w[n + 1 + (m - 1)] = Walked(at, todo, f + 1, FALSE)
    BY <1>8, <2>1
  <2>3. /\ Head(todo) = text[m] /\ Tail(todo) = SubSeq(text, m + 1, L)
        /\ todo \in AnyPaths /\ todo # <<>>
    <3>1. L \in m .. Len(text) /\ m \in 1 .. Len(text)
      BY <1>1, <2>1 DEF L
    <3>2. Head(todo) = text[m] /\ Tail(todo) = SubSeq(text, m + 1, L)
      BY <1>1, <3>1, HeadTailOfSubSeq DEF AnyPaths
    <3>3. Len(todo) = L - m + 1 /\ todo \in AnyPaths
      BY <1>1, <1>2, <2>1, SubSeqProperties DEF AnyPaths
    <3>4. Len(todo) # 0
      BY <1>1, <2>1, <3>3
    <3> QED
      BY <3>2, <3>3, <3>4, EmptySeq DEF AnyPaths
  <2>4. /\ at \in Directories /\ at \in AnyPaths /\ to \in Directories /\ to \notin Links
        /\ Leads(at, text[m], to)
    BY <1>2, <2>1
  <2> DEFINE g == f + 1
             part == Head(todo)
  <2>5. g \in Nat
    OBVIOUS
  <2> HIDE DEF at, todo, to, g, part
  <2>6. Step(Walked(at, todo, g, FALSE), live) = Walked(to, Tail(todo), g, FALSE)
    <3>1. part = text[m]
      BY <2>3 DEF part
    <3>2. Leads(at, part, to)
      BY <2>4, <3>1
    <3>3. Within(at, todo) /\ to = Onward(at, Head(todo))
      BY <3>2 DEF part, Leads, Within
    <3>4. at \in Directories /\ todo # <<>> /\ Passable(Onward(at, Head(todo)), live)
      BY <2>3, <2>4, <3>3 DEF Passable
    <3>5. Step(Walked(at, todo, g, FALSE), live)
            = Walked(Onward(at, Head(todo)), Tail(todo), g, FALSE)
      BY ONLY <2>5, <3>3, <3>4, StepInside
    <3> QED
      BY <3>3, <3>5
  <2>7. w[n + 1 + m] = Step(w[n + 1 + (m - 1)], live)
    BY <1>3, <2>1
  <2> QED
    BY <2>1, <2>2, <2>3, <2>6, <2>7 DEF to, g
<1>9. L - 1 \in G
  <2>1. L - 1 \in Nat /\ L - 1 \in 0 .. L - 1
    BY <1>1
  <2> HIDE DEF G
  <2> QED
    BY <1>7, <1>8, <2>1, UpTo
<1>10. SubSeq(text, L, L) = <<text[L]>>
  <2>1. L \in 1 .. L /\ L \in Int /\ \A i \in L .. L : i = L
    BY <1>1
  <2>2. \A i \in L .. L : text[i] \in STRING
    BY <1>2, <2>1
  <2> DEFINE last == SubSeq(text, L, L)
  <2>3. last \in Seq(STRING) /\ Len(last) = 1 /\ last[1] = text[L]
    <3>1. L <= L /\ L - L + 1 = 1 /\ 1 \in 1 .. L - L + 1 /\ L + 1 - 1 = L
      BY <2>1
    <3> QED
      BY <2>1, <2>2, <3>1, SubSeqProperties
  <2> HIDE DEF last
  <2>4. last = <<text[L]>>
    BY <2>3, Single
  <2> QED
    BY <2>4 DEF last
<1>11. n + 1 + (L - 1) = n + L /\ L - 1 + 1 = L
  BY <1>1
<1> QED
  BY <1>9, <1>10, <1>11 DEF text, L, t, w, Components, BeforeLast

\* Where the text of a link ends when that is another link: before its name.
LEMMA LastComponent ==
  ASSUME policy \in Policies, WellPlaced, NEW x \in Links, Target(x) \in Links, NEW f
  PROVE  BeforeLast(x, f) = Facing(Target(x), f)
<1> DEFINE text == policy.row[x].target
           L == Len(text)
           t == Lexical(x)
           from == t[L - 1].parts
           part == text[L]
           y == Target(x)
<1>1. L \in 1 .. L
  <2>1. L \in 1 .. MaxText /\ MaxText \in Nat
    BY Rows, LinkAssumption
  <2> HIDE DEF L
  <2> QED
    BY <2>1
<1>2. t[L].ok /\ t[L].parts = y
  BY TargetIsLexical
<1>3. /\ from \in Directories /\ from \notin Links /\ from \in AnyPaths /\ part \in STRING
      /\ part = "." => t[L].parts = from
      /\ part = ".." => from # <<>> /\ t[L].parts = Front(from)
      /\ part \notin {".", ".."} => t[L].parts = Append(from, part)
  <2> HIDE DEF from, part
  <2> QED
    BY <1>1, <1>2, LexicalOk DEF from, part
<1> HIDE DEF from, part, y, t, text, L
<1>4. y \in Links
  BY DEF y
<1>5. part # "."
  BY <1>2, <1>3, <1>4
<1>6. part # ".."
  <2>1. from # <<>> => Front(from) \notin Links
    BY <1>3, ParentIsNoLink
  <2> QED
    BY <1>2, <1>3, <1>4, <2>1
<1>7. y = Append(from, part)
  BY <1>2, <1>3, <1>5, <1>6
<1>8. from = Front(y) /\ part = Last(y)
  BY <1>3, <1>7, FrontOfAppend
<1> QED
  BY <1>8, Zenon DEF from, part, y, t, text, L, BeforeLast, Facing, Components

\* A walk whose components are used up is over.
LEMMA StepOver ==
  ASSUME NEW live, NEW at, NEW f
  PROVE  Step(Walked(at, <<>>, f, FALSE), live) = Walked(at, <<>>, f, FALSE)
<1> DEFINE w == Walked(at, <<>>, f, FALSE)
<1>1. w.todo = <<>>
  BY DEF Walked
<1> HIDE DEF w
<1>2. Step(w, live) = w
  BY <1>1 DEF Step
<1> QED
  BY <1>2 DEF w

\* The last component of the last link leads to the entry, where the walk stays.
LEMMA ArrivesAtEntry ==
  ASSUME policy \in Policies, NEW live \in SUBSET Links, NEW l \in Links, NEW x \in Links,
         Target(x) \in Entries, Target(x) \notin Links,
         NEW f \in Nat, NEW n \in Nat, n < LongestWalk,
         Walk(l, live)[n] = BeforeLast(x, f)
  PROVE  Walk(l, live)[LongestWalk] = Walked(Target(x), <<>>, f, FALSE)
<1> DEFINE text == policy.row[x].target
           L == Len(text)
           t == Lexical(x)
           from == t[L - 1].parts
           part == text[L]
           e == Target(x)
           todo == <<part>>
           w == Walk(l, live)
           N == LongestWalk
           G == {i \in 0 .. N - (n + 1) : w[n + 1 + i] = Walked(e, <<>>, f, FALSE)}
<1>1. L \in 1 .. L
  <2>1. L \in 1 .. MaxText /\ MaxText \in Nat
    BY Rows, LinkAssumption
  <2> HIDE DEF L
  <2> QED
    BY <2>1
<1>2. t[L].ok /\ t[L].parts = e
  BY TargetIsLexical
<1>3. /\ from \in Directories /\ part \in STRING
      /\ part = "." => t[L].parts = from
      /\ part = ".." => from # <<>> /\ t[L].parts = Front(from)
      /\ part \notin {".", ".."} => t[L].parts = Append(from, part)
  <2> HIDE DEF from, part
  <2> QED
    BY <1>1, <1>2, LexicalOk DEF from, part
<1>4. N \in Nat /\ \A i \in 1 .. N : w[i] = Step(w[i - 1], live)
  BY WalkSteps
<1>5. w[n] = Walked(from, todo, f, FALSE) /\ e \in Entries /\ e \notin Links /\ n < N
  BY DEF BeforeLast, Components
<1> HIDE DEF part, from, e, t, text, L, w, N
<1>6. Head(todo) = part /\ Tail(todo) = <<>> /\ todo # <<>>
  BY <1>3
<1> HIDE DEF todo
<1>7. e = Onward(from, Head(todo)) /\ Within(from, todo) /\ Passable(e, live)
  <2>1. e = Onward(from, part) /\ (part = ".." => from # <<>>)
    BY <1>2, <1>3 DEF Onward
  <2>2. e \notin live /\ e \in Directories \cup Entries
    BY <1>5
  <2> QED
    BY <1>6, <2>1, <2>2 DEF Within, Passable
<1>8. Step(w[n], live) = Walked(e, <<>>, f, FALSE)
  <2>1. /\ from \in Directories /\ todo # <<>> /\ f \in Nat
        /\ Within(from, todo) /\ Passable(Onward(from, Head(todo)), live)
    BY <1>3, <1>6, <1>7
  <2>2. Step(Walked(from, todo, f, FALSE), live)
          = Walked(Onward(from, Head(todo)), Tail(todo), f, FALSE)
    BY ONLY <2>1, StepInside
  <2> QED
    BY <1>5, <1>6, <1>7, <2>2
<1>9. 0 \in G
  <2>1. n + 1 \in 1 .. N /\ n + 1 - 1 = n /\ n + 1 + 0 = n + 1 /\ 0 \in 0 .. N - (n + 1)
    BY <1>4, <1>5
  <2>2. w[n + 1] = Walked(e, <<>>, f, FALSE)
    <3> DEFINE i == n + 1
    <3>1. i \in 1 .. N /\ i - 1 = n
      BY <2>1
    <3> HIDE DEF i
    <3>2. w[i] = Step(w[n], live)
      BY <1>4, <3>1
    <3> QED
      BY <1>8, <3>2 DEF i
  <2> QED
    BY <2>1, <2>2
<1>10. ASSUME NEW i \in 1 .. N - (n + 1), i - 1 \in G PROVE i \in G
  <2>1. /\ n + 1 + i \in 1 .. N /\ n + 1 + i - 1 = n + 1 + (i - 1) /\ i \in 0 .. N - (n + 1)
    BY <1>4, <1>5
  <2>2. w[n + 1 + i] = Step(w[n + 1 + (i - 1)], live)
    BY <1>4, <2>1
  <2>3. w[n + 1 + (i - 1)] = Walked(e, <<>>, f, FALSE)
    BY <1>10
  <2>4. Step(Walked(e, <<>>, f, FALSE), live) = Walked(e, <<>>, f, FALSE)
    BY StepOver
  <2> QED
    BY <2>1, <2>2, <2>3, <2>4
<1>11. N - (n + 1) \in G
  <2>1. N - (n + 1) \in Nat /\ N - (n + 1) \in 0 .. N - (n + 1)
    BY <1>4, <1>5
  <2> HIDE DEF G
  <2> QED
    BY <1>9, <1>10, <2>1, UpTo
<1>12. n + 1 + (N - (n + 1)) = N
  BY <1>4
<1>13. w[N] = Walked(e, <<>>, f, FALSE)
  BY <1>11, <1>12
<1> QED
  BY <1>13 DEF w, N, e

LEMMA Product ==
  ASSUME NEW a \in Nat, NEW b \in Nat, NEW c \in Nat, a <= b
  PROVE  a * c \in Nat /\ b * c \in Nat /\ a * c <= b * c /\ (a + 1) * c = a * c + c
OBVIOUS

\* The operating system ends where the lexical chain ends, when the links along
\* it are there and it follows that many.
LEMMA WalkArrives ==
  ASSUME policy \in Policies, LinksAccepted, NEW live \in SUBSET Links, NEW l \in Links,
         ChainLength(l) <= MaxFollow,
         \A n \in 0 .. Cardinality(Links) : Chain(l)[n] \in Links => Chain(l)[n] \in live
  PROVE  Actual(l, live)
<1> DEFINE c == Chain(l)
           w == Walk(l, live)
           N == LongestWalk
<1>1. PICK k \in 1 .. Cardinality(Links) :
        /\ \A n \in 0 .. k - 1 : c[n] \in Links /\ Target(c[n]) = c[n + 1]
        /\ \A n \in k .. Cardinality(Links) : c[n] = End(l)
        /\ ChainLength(l) = k
  BY SoundLinks, ChainEnds
<1>2. /\ Cardinality(Links) \in Nat /\ k \in Nat \ {0} /\ k <= MaxFollow
      /\ MaxFollow \in Nat /\ MaxText \in Nat
  <2>1. Cardinality(Links) \in Nat /\ MaxFollow \in Nat /\ MaxText \in Nat
    BY Rows, LinkAssumption
  <2> QED
    BY <1>1, <2>1
<1>3. \A n \in 0 .. k - 1 : c[n] \in live
  BY <1>1, <1>2
<1>4. End(l) \in Entries /\ End(l) \notin Links /\ c[k] = End(l)
  BY <1>1, <1>2, SoundLinks
<1>5. c[0] = l
  BY ChainSteps
<1>6. w[0] = Facing(l, 0) /\ N \in Nat
  BY WalkSteps DEF Facing
<1>7. \A x \in Links : Components(x) \in 1 .. MaxText
  BY Rows DEF Components
<1>8. N = MaxFollow * MaxText + 1
  BY DEF LongestWalk
<1>9. WellPlaced
  BY DEF LinksAccepted
<1> DEFINE Reached(j) == \E n \in Nat : n <= j * MaxText /\ w[n] = Facing(c[j], j)
           G == {j \in 0 .. k - 1 : Reached(j)}
<1> HIDE DEF c, w, N
\* Each link of the chain is replaced by its text within MaxText steps.
<1>10. ASSUME NEW j \in 0 .. k - 1, NEW n \in Nat, n <= j * MaxText, w[n] = Facing(c[j], j)
       PROVE  LET L == Components(c[j])
              IN  /\ n + L \in Nat /\ n + L <= (j + 1) * MaxText /\ n + L < N
                  /\ w[n + L] = BeforeLast(c[j], j + 1)
  <2> DEFINE x == c[j]
             L == Components(x)
  <2>1. x \in live /\ x \in Links /\ Target(x) = c[j + 1]
    BY <1>1, <1>3
  <2>2. L \in 1 .. MaxText
    BY <1>7, <2>1
  <2>3. j \in Nat /\ j + 1 \in Nat /\ j + 1 <= MaxFollow /\ j < MaxFollow
    BY <1>2
  <2>4. (j + 1) * MaxText = j * MaxText + MaxText /\ j * MaxText \in Nat
    BY <1>2, <2>3, Product
  <2>5. (j + 1) * MaxText <= MaxFollow * MaxText /\ MaxFollow * MaxText \in Nat
    BY <1>2, <2>3, Product
  <2>6. Target(x) \in Links \cup Entries
    <3>1. CASE j = k - 1
      <4>1. c[j + 1] = End(l)
        BY <1>2, <1>4, <3>1
      <4> QED
        BY <1>4, <2>1, <4>1
    <3>2. CASE j # k - 1
      <4>1. j + 1 \in 0 .. k - 1
        BY <1>2, <3>2
      <4> QED
        BY <1>1, <2>1, <4>1
    <3> QED
      BY <3>1, <3>2
  <2>7. Whole(x)
    BY <2>1, <2>6, TargetIsLexical DEF Whole, Components
  <2> DEFINE q == j * MaxText
             r == MaxFollow * MaxText
             s == (j + 1) * MaxText
  <2>8. n + L \in Nat /\ n + L <= s /\ n + L < N
    <3>1. s = q + MaxText /\ q \in Nat /\ s <= r /\ r \in Nat /\ N = r + 1 /\ n <= q
      BY <1>8, <1>10, <2>4, <2>5
    <3> HIDE DEF q, r, s, L
    <3> QED
      BY <1>2, <2>2, <3>1
  <2>9. n + L <= N
    BY <1>6, <2>8
  <2> DEFINE f == j
  <2>10. /\ f \in Nat /\ f < MaxFollow /\ x \in live /\ Whole(x) /\ w[n] = Facing(x, f)
         /\ n + L <= N
    BY <1>10, <2>1, <2>3, <2>7, <2>9
  <2> HIDE DEF x, f
  <2>11. w[n + L] = BeforeLast(x, f + 1)
    BY <2>10, FollowText DEF w, N
  <2> QED
    BY <2>8, <2>11 DEF x, f
<1>11. 0 \in G
  <2>1. 0 * MaxText = 0 /\ 0 \in 0 .. k - 1
    BY <1>2
  <2> QED
    BY <1>5, <1>6, <2>1
<1>12. ASSUME NEW j \in 1 .. k - 1, j - 1 \in G PROVE j \in G
  <2> DEFINE i == j - 1
             x == c[i]
             L == Components(x)
  <2>1. i \in 0 .. k - 1 /\ i + 1 = j /\ j \in 0 .. k - 1
    BY <1>2
  <2>2. PICK n \in Nat : n <= i * MaxText /\ w[n] = Facing(c[i], i)
    BY <1>12
  <2>3. x \in Links /\ Target(x) = c[j] /\ c[j] \in Links
    BY <1>1, <2>1
  <2> HIDE DEF i
  <2>4. /\ n + L \in Nat /\ n + L <= (i + 1) * MaxText
        /\ w[n + L] = BeforeLast(x, i + 1)
    BY <1>10, <2>1, <2>2
  <2>5. BeforeLast(x, i + 1) = Facing(c[j], i + 1)
    BY <1>9, <2>3, LastComponent
  <2>6. w[n + L] = Facing(c[j], j)
    BY <2>1, <2>4, <2>5
  <2>7. Reached(j)
    BY <2>1, <2>4, <2>6
  <2> HIDE DEF Reached
  <2> QED
    BY <2>1, <2>7
<1>13. k - 1 \in G
  <2>1. k - 1 \in Nat /\ k - 1 \in 0 .. k - 1
    BY <1>2
  <2> HIDE DEF G
  <2> QED
    BY <1>11, <1>12, <2>1, UpTo
<1>14. w[N] = Walked(End(l), <<>>, k, FALSE)
  <2> DEFINE i == k - 1
             x == c[i]
             L == Components(x)
  <2>1. i \in 0 .. k - 1 /\ i + 1 = k
    BY <1>2
  <2>2. PICK n \in Nat : n <= i * MaxText /\ w[n] = Facing(c[i], i)
    BY <1>13
  <2>3. x \in Links /\ Target(x) = End(l)
    BY <1>1, <1>4, <2>1
  <2> HIDE DEF i
  <2>4. /\ n + L \in Nat /\ n + L < N
        /\ w[n + L] = BeforeLast(x, k)
    BY <1>10, <2>1, <2>2
  <2> DEFINE m == n + L
  <2>5. /\ Target(x) \in Entries /\ Target(x) \notin Links /\ k \in Nat
        /\ m \in Nat /\ m < N /\ w[m] = BeforeLast(x, k) /\ x \in Links
    BY <1>2, <1>4, <2>3, <2>4
  <2> HIDE DEF x, m
  <2>6. w[N] = Walked(Target(x), <<>>, k, FALSE)
    BY <2>5, ArrivesAtEntry DEF w, N
  <2> QED
    BY <2>3, <2>6
<1>15. ~w[N].failed /\ w[N].todo = <<>> /\ w[N].at = End(l)
  BY <1>14 DEF Walked
<1> QED
  BY <1>15 DEF Actual, w, N

\* Everything that is computed from the policy stays as it is.
LEMMA SamePolicy ==
  ASSUME policy' = policy
  PROVE  /\ Links' = Links /\ LinksAccepted' = LinksAccepted /\ Ordered' = Ordered
         /\ \A l : ChainLength(l)' = ChainLength(l)
<1>1. Links' = Links
  BY DEF Links
<1>2. Ordered' = Ordered
  BY DEF Ordered, Ordering, Behind, Ahead, Chain, Follow, Target, Lexical, Through, Component,
         Refuse, Directories, Links
<1>3. WellPlaced' = WellPlaced
  BY DEF WellPlaced, Links
<1>4. Resolvable' = Resolvable
  BY DEF Resolvable, Resolution, Resolve, End, Ahead, Chain, Follow, Target, Lexical, Through,
         Component, Refuse, Directories, Links
<1>5. \A l : ChainLength(l)' = ChainLength(l)
  BY DEF ChainLength, Chain, Follow, Target, Lexical, Through, Component, Refuse, Directories, Links
<1> QED
  BY <1>1, <1>2, <1>3, <1>4, <1>5 DEF LinksAccepted

\* No chain is longer than the lists or the operating system allow.
WithinLimits == \A l \in Links : ChainLength(l) <= MaxDepth /\ ChainLength(l) <= MaxFollow

LinkInv ==
  /\ policy \in Policies /\ placed \subseteq Links /\ nextLink \in Nat \ {0}
  /\ linkPhase \in {"new", "refused", "accepted", "placing", "stopped", "failed", "restored"}
  /\ linkPhase \notin {"new", "refused"} => LinksAccepted
  /\ linkPhase = "placing" =>
       \A i \in 1 .. Len(Ordered) : i < nextLink => Ordered[i] \in placed
  /\ linkPhase = "failed" => ~WithinLimits

\* A link is made after every link further along its chain.
LEMMA PlacesLink ==
  ASSUME policy \in Policies, LinksAccepted, WithinLimits, NEW i \in 1 .. Len(Ordered),
         \A j \in 1 .. Len(Ordered) : j < i => Ordered[j] \in placed, placed \subseteq Links
  PROVE  /\ Ordered[i] \in Links /\ Verified(Ordered[i])
         /\ Actual(Ordered[i], placed \cup {Ordered[i]})
<1> DEFINE l == Ordered[i]
           P == {Ordered[j] : j \in 1 .. i - 1}
           live == placed \cup {l}
<1>1. Ordered \in Seq(Links) /\ TargetsFirst(Ordered)
  BY OrderedSound
<1>2. Len(Ordered) \in Nat /\ \A j \in 1 .. Len(Ordered) : Ordered[j] \in Links
  BY <1>1, LenProperties, ElementOfSeq
<1>3. l \in Links
  BY <1>2
<1>4. P \subseteq placed
  BY <1>2
<1>5. \A x \in P \cup {l} : x \in Links /\ Target(x) \in Links => Target(x) \in P
  <2> SUFFICES ASSUME NEW k \in 1 .. i, Target(Ordered[k]) \in Links
               PROVE  Target(Ordered[k]) \in P
    BY <1>2
  <2>1. k \in 1 .. Len(Ordered)
    BY <1>2
  <2>2. PICK j \in 1 .. k - 1 : Ordered[j] = Target(Ordered[k])
    BY <1>1, <2>1 DEF TargetsFirst
  <2>3. j \in 1 .. i - 1
    BY <1>2, <2>1, <2>2
  <2> QED
    BY <2>2, <2>3
<1>6. ChainLength(l) <= MaxDepth /\ ChainLength(l) <= MaxFollow
  BY <1>3 DEF WithinLimits
<1> HIDE DEF l, P
<1>7. Verified(l)
  BY <1>3, <1>4, <1>5, <1>6, FurtherVerified
<1>8. \A n \in 0 .. Cardinality(Links) : Chain(l)[n] \in Links => Chain(l)[n] \in live
  BY <1>3, <1>4, <1>5, FurtherPlaced
<1>9. live \in SUBSET Links
  BY <1>3
<1> HIDE DEF live
<1>10. Actual(l, live)
  BY <1>3, <1>6, <1>8, <1>9, WalkArrives
<1> QED
  BY <1>3, <1>7, <1>10 DEF l, live

\* Once all are placed every link is found as it should be.
LEMMA PlacedRestored ==
  ASSUME policy \in Policies, LinksAccepted, WithinLimits, placed = Links, NEW l \in Links
  PROVE  Verified(l) /\ Actual(l, placed)
<1> DEFINE P == Links
<1>1. ChainLength(l) <= MaxDepth /\ ChainLength(l) <= MaxFollow
  BY DEF WithinLimits
<1>2. \A x \in P \cup {l} : x \in Links /\ Target(x) \in Links => Target(x) \in P
  OBVIOUS
<1>3. P \subseteq placed
  OBVIOUS
<1>4. Verified(l)
  BY <1>1, <1>2, <1>3, FurtherVerified
<1>5. \A n \in 0 .. Cardinality(Links) : Chain(l)[n] \in Links => Chain(l)[n] \in placed
  OBVIOUS
<1>6. placed \in SUBSET Links
  OBVIOUS
<1>7. Actual(l, placed)
  BY <1>1, <1>5, <1>6, WalkArrives
<1> QED
  BY <1>4, <1>7

LEMMA LinkInvInit == LinkInit => LinkInv
BY DEF LinkInit, LinkInv

LEMMA LinkInvStep == LinkInv /\ [LinkNext]_linkVars => LinkInv'
<1> SUFFICES ASSUME LinkInv, [LinkNext]_linkVars
             PROVE  LinkInv'
  OBVIOUS
<1>1. policy' = policy
  BY DEF LinkNext, linkVars, Validate, StartLinks, Place, CertifyPlaced, StopLinks
<1>2. /\ Links' = Links /\ LinksAccepted' = LinksAccepted /\ Ordered' = Ordered
      /\ WithinLimits' = WithinLimits
  <2>1. Links' = Links /\ LinksAccepted' = LinksAccepted /\ Ordered' = Ordered
    BY <1>1, SamePolicy
  <2>2. \A l : ChainLength(l)' = ChainLength(l)
    BY <1>1, SamePolicy
  <2> QED
    BY <2>1, <2>2 DEF WithinLimits
<1>3. /\ policy \in Policies /\ placed \subseteq Links /\ nextLink \in Nat \ {0}
      /\ linkPhase \notin {"new", "refused"} => LinksAccepted
      /\ linkPhase = "placing" =>
           \A i \in 1 .. Len(Ordered) : i < nextLink => Ordered[i] \in placed
      /\ linkPhase = "failed" => ~WithinLimits
  BY DEF LinkInv
<1>4. CASE Validate
  <2>1. linkPhase' = "accepted" => LinksAccepted
    BY <1>4 DEF Validate, LinksAccepted
  <2>2. linkPhase' \in {"accepted", "refused"} /\ placed' = placed /\ nextLink' = nextLink
    BY <1>4 DEF Validate
  <2> QED
    BY <1>1, <1>2, <1>3, <2>1, <2>2 DEF LinkInv
<1>5. CASE StartLinks
  <2>1. /\ linkPhase \in {"accepted", "stopped", "failed"} /\ linkPhase' = "placing"
        /\ nextLink' = 1 /\ placed' = placed
    BY <1>5 DEF StartLinks
  <2> QED
    BY <1>1, <1>2, <1>3, <2>1 DEF LinkInv
<1>6. CASE Place
  <2> DEFINE l == Ordered[nextLink]
  <2>1. /\ linkPhase = "placing" /\ nextLink <= Len(Ordered) /\ nextLink' = nextLink + 1
        /\ placed' = IF Verified(l) THEN placed \cup {l} ELSE placed
        /\ linkPhase' = IF Verified(l) /\ Actual(l, placed \cup {l}) THEN "placing" ELSE "failed"
    BY <1>6 DEF Place
  <2>2. Ordered \in Seq(Links)
    BY <1>3, <2>1, OrderedSound
  <2>3. Len(Ordered) \in Nat /\ \A i \in 1 .. Len(Ordered) : Ordered[i] \in Links
    BY <2>2, LenProperties, ElementOfSeq
  <2>4. nextLink \in 1 .. Len(Ordered)
    BY <1>3, <2>1, <2>3
  <2>5. l \in Links
    BY <2>3, <2>4
  <2>6. linkPhase' = "failed" => ~WithinLimits
    BY <1>3, <2>1, <2>4, PlacesLink
  <2> HIDE DEF l
  <2>7. placed' \subseteq Links /\ placed \subseteq placed'
    BY <1>3, <2>1, <2>5
  <2>8. linkPhase' = "placing" => l \in placed'
    BY <2>1
  <2>9. linkPhase' = "placing" =>
          \A i \in 1 .. Len(Ordered) : i < nextLink' => Ordered[i] \in placed'
    <3> SUFFICES ASSUME linkPhase' = "placing", NEW i \in 1 .. Len(Ordered), i < nextLink'
                 PROVE  Ordered[i] \in placed'
      OBVIOUS
    <3>1. i = nextLink \/ i < nextLink
      BY <1>3, <2>1, <2>3
    <3> QED
      BY <1>3, <2>1, <2>7, <2>8, <3>1 DEF l
  <2>10. linkPhase' \in {"placing", "failed"} /\ nextLink' \in Nat \ {0}
    BY <1>3, <2>1
  <2> QED
    BY <1>1, <1>2, <1>3, <2>1, <2>6, <2>7, <2>9, <2>10 DEF LinkInv
<1>7. CASE CertifyPlaced
  <2>1. /\ linkPhase = "placing" /\ nextLink > Len(Ordered) /\ nextLink' = nextLink
        /\ placed' = placed
        /\ linkPhase' = IF \A l \in Links : Verified(l) /\ Actual(l, placed)
                          THEN "restored" ELSE "failed"
    BY <1>7 DEF CertifyPlaced
  <2>2. Ordered \in Seq(Links) /\ ToSet(Ordered) = Links
    BY <1>3, <2>1, OrderedSound
  <2>3. Len(Ordered) \in Nat
    BY <2>2, LenProperties
  <2>4. placed = Links
    <3>1. \A i \in 1 .. Len(Ordered) : Ordered[i] \in placed
      BY <1>3, <2>1, <2>3
    <3>2. \A x \in Links : \E i \in 1 .. Len(Ordered) : x = Ordered[i]
      BY <2>2 DEF ToSet
    <3> QED
      BY <1>3, <3>1, <3>2
  <2>5. WithinLimits => \A l \in Links : Verified(l) /\ Actual(l, placed)
    BY <1>3, <2>1, <2>4, PlacedRestored
  <2>6. linkPhase' \in {"restored", "failed"} /\ (linkPhase' = "failed" => ~WithinLimits)
    BY <2>1, <2>5
  <2> QED
    BY <1>1, <1>2, <1>3, <2>1, <2>6 DEF LinkInv
<1>8. CASE StopLinks
  <2>1. /\ linkPhase = "placing" /\ linkPhase' = "stopped" /\ nextLink' = nextLink
        /\ placed' = placed
    BY <1>8 DEF StopLinks
  <2> QED
    BY <1>1, <1>2, <1>3, <2>1 DEF LinkInv
<1>9. CASE UNCHANGED linkVars
  <2>1. linkPhase' = linkPhase /\ nextLink' = nextLink /\ placed' = placed
    BY <1>9 DEF linkVars
  <2> QED
    BY <1>1, <1>2, <2>1 DEF LinkInv
<1> QED
  BY <1>4, <1>5, <1>6, <1>7, <1>8, <1>9 DEF LinkNext

LEMMA LinkInvRestores == LinkInv => AcceptedRestores
<1> SUFFICES ASSUME LinkInv, linkPhase = "failed"
             PROVE  \E l \in Links : ChainLength(l) > MaxDepth \/ ChainLength(l) > MaxFollow
  BY DEF AcceptedRestores
<1>1. policy \in Policies /\ LinksAccepted
  BY DEF LinkInv
<1>2. PICK l \in Links : ~(ChainLength(l) <= MaxDepth /\ ChainLength(l) <= MaxFollow)
  BY DEF LinkInv, WithinLimits
<1>3. ChainLength(l) \in Nat /\ MaxDepth \in Nat /\ MaxFollow \in Nat
  <2>1. Cardinality(Links) \in Nat /\ MaxDepth \in Nat /\ MaxFollow \in Nat
    BY <1>1, Rows, LinkAssumption
  <2>2. \E k \in 1 .. Cardinality(Links) : ChainLength(l) = k
    BY <1>1, SoundLinks, ChainEnds
  <2> QED
    BY <2>1, <2>2
<1> QED
  BY <1>2, <1>3

\* A policy that the lexical check accepts is restored: with chains within both
\* limits no link is refused once the files are there, whatever the links are
\* and wherever the restore was stopped and resumed.
THEOREM AcceptedRestorable == LinkSpec => []AcceptedRestores
<1> QED
  BY LinkInvInit, LinkInvStep, LinkInvRestores, PTL DEF LinkSpec
=============================================================================
