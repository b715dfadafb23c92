---------------------------- MODULE PackChunkSet ----------------------------
(***************************************************************************)
(* pack_chunk_set of src/trace_gate/migration_stream.py: a frozen source   *)
(* is packed into parts, a package-set and a completion receipt in a       *)
(* claimed directory, by calls that may fail, die and be resumed.          *)
(*                                                                         *)
(* The .partial files the code can also move away are written by no code   *)
(* of this version and are left out.  A short part costs one unit of the   *)
(* failure budget; the other budgets, the checks of the source and of the  *)
(* free space are among the errors of Fails.                               *)
(***************************************************************************)
EXTENDS ClaimDirectory

CONSTANTS
  NumParts,       \* parts of the package
  FailureBudget   \* max_failed_part_bytes

PackageSet == <<"package-set", 0>>
Part(i) == <<"part", i>>
Parts == {Part(i) : i \in 1 .. NumParts}
PackMembers == {PackageSet, Completed} \cup Parts

ASSUME PartAssumption ==
  NumParts \in Nat \ {0} /\ FailureBudget \in Nat /\ Members = PackMembers
    /\ Sized = Parts

VARIABLES
  index,      \* the part each process is at
  failures    \* bundle -> the short parts kept in failures/: <<part, attempt>>

vars == <<dirVars, procVars, boundVars, index, failures>>

Init == ClaimInit /\ index = [p \in Procs |-> 1] /\ failures = [d \in Dirs |-> {}]

\* Every part in a bundle, read back, is that of the package-set.
Whole(d, b) == \A n \in Parts : file[d][n] = b

-----------------------------------------------------------------------------
Call(p) ==
  /\ \E c \in CallsOf : Calls(p, c)
  /\ UNCHANGED <<index, failures>>

ClaimStep(p) ==
  /\ Mkdir(p) \/ Lock(p) \/ CheckClaim(p) \/ Create(p) \/ Fill(p) \/ Sync(p)
  /\ UNCHANGED <<index, failures>>

\* Seeded fault: the completion receipt is taken for the bundle.
ReplayableByReceipt(p) == Here(p)[Completed] = Binding(p)

Replayable(p) ==
  /\ Here(p)[PackageSet] = Binding(p) /\ Whole(Dir(p), Binding(p))
  /\ Here(p)[Completed] = Binding(p)

\* A completed bundle is verified again and answered; anything else is packed.
Begin(p) ==
  /\ pc[p] = "begin"
  /\ index' = [index EXCEPT ![p] = 1]
  /\ LET numbered == [attempt EXCEPT ![p] = Number(p)] IN
     IF ~Present(p, Completed)
       THEN /\ attempt' = numbered
            /\ pc' = [pc EXCEPT ![p] = "part"]
            /\ UNCHANGED <<lock, call, job, result>>
       ELSE IF Replayable(p)
         THEN End(p, "pass")
         ELSE /\ attempt' = numbered
              /\ pc' = [pc EXCEPT ![p] = "create"]
              /\ job' = [job EXCEPT ![p] = [name |-> Receipt(Number(p)),
                                            content |-> "receipt",
                                            then |-> "raised"]]
              /\ UNCHANGED <<lock, call, result>>
  /\ UNCHANGED <<made, file, unsynced, failures, boundVars>>

\* The short parts in the failures/ of the bundle.
Kept(p) == failures[Dir(p)]

\* Seeded fault: an earlier failure of the same part is replaced.
ArchivableOver(p, i) == Resumes(p) /\ Cardinality(Kept(p)) < FailureBudget

Archivable(p, i) ==
  /\ Resumes(p)
  /\ Cardinality(Kept(p)) < FailureBudget
  /\ <<i, attempt[p]>> \notin Kept(p)

\* A short part is moved to failures/ under the attempt number.
Archive(p) ==
  LET i == index[p] IN
  /\ pc[p] = "part" /\ i <= NumParts
  /\ Here(p)[Part(i)] = "torn"
  /\ IF Archivable(p, i)
       THEN /\ failures' = [failures EXCEPT ![Dir(p)] = @ \cup {<<i, attempt[p]>>}]
            /\ file' = [file EXCEPT ![Dir(p)][Part(i)] = "absent"]
            /\ unsynced' = unsynced \ {<<Dir(p), Part(i)>>}
            /\ UNCHANGED <<procVars, lock>>
       ELSE Raise(p) /\ UNCHANGED <<failures, file, unsynced>>
  /\ UNCHANGED <<made, index, boundVars>>

Reusable(p, i) == Here(p)[Part(i)] = Binding(p)

\* A missing part is written; a full one, written now or before, is read back.
Pack(p) ==
  LET i == index[p] IN
  /\ pc[p] = "part" /\ i <= NumParts
  /\ Here(p)[Part(i)] # "torn"
  /\ IF ~Present(p, Part(i))
       THEN Write(p, Part(i), Binding(p), "part") /\ UNCHANGED <<lock, index>>
       ELSE IF Reusable(p, i)
         THEN /\ index' = [index EXCEPT ![p] = i + 1]
              /\ UNCHANGED <<procVars, lock>>
         ELSE Raise(p) /\ UNCHANGED index
  /\ UNCHANGED <<made, file, unsynced, failures, boundVars>>

\* The package-set is written once, or compared with the one that exists.
Describe(p) ==
  /\ pc[p] = "part" /\ index[p] = NumParts + 1
  /\ IF ~Present(p, PackageSet)
       THEN Write(p, PackageSet, Binding(p), "verify") /\ UNCHANGED lock
       ELSE IF Here(p)[PackageSet] = Binding(p)
         THEN Goto(p, "verify") /\ UNCHANGED lock
         ELSE Raise(p)
  /\ UNCHANGED <<made, file, unsynced, index, failures, boundVars>>

Verified(p) ==
  Here(p)[PackageSet] = Binding(p) /\ Whole(Dir(p), Binding(p))

\* Seeded fault: the completion receipt is written before the package-set.
VerifyEarly(p) ==
  /\ pc[p] = "part" /\ index[p] = NumParts + 1
  /\ ~Present(p, Completed)
  /\ Write(p, Completed, Binding(p), "part")
  /\ UNCHANGED <<dirVars, index, failures, boundVars>>

\* verify_parts, then the completion receipt, then that of the attempt.
Verify(p) ==
  /\ pc[p] = "verify"
  /\ IF Verified(p)
       THEN Write(p, Completed, Binding(p), "complete") /\ UNCHANGED lock
       ELSE Raise(p)
  /\ UNCHANGED <<made, file, unsynced, index, failures, boundVars>>

Complete(p) ==
  /\ pc[p] = "complete"
  /\ Write(p, Receipt(attempt[p]), "receipt", "pass")
  /\ UNCHANGED <<dirVars, index, failures, boundVars>>

Step(p) ==
  \/ ClaimStep(p) \/ Begin(p) \/ Archive(p) \/ Pack(p) \/ Describe(p)
  \/ Verify(p) \/ Complete(p)

Fault ==
  /\ PowerLoss \/ \E p \in Procs : Fails(p) \/ Killed(p)
  /\ UNCHANGED <<index, failures>>

Next == (\E p \in Procs : Call(p) \/ Step(p)) \/ Fault

Spec == Init /\ [][Next]_vars

\* A process that lives goes on, and its operator resumes it when it ended.
OperatedSpec ==
  /\ Spec
  /\ \A p \in Procs :
       /\ WF_vars(Step(p))
       /\ \A c \in {x \in CallsOf : x.resume} :
            WF_vars(Calls(p, c) /\ UNCHANGED <<index, failures>>)

-----------------------------------------------------------------------------
(* Properties.                                                             *)

Points ==
  {"idle", "mkdir", "lock", "claim", "begin", "create", "fill", "sync", "part",
   "verify", "complete"}

\* Every variable has its type, and each receipt the words of a receipt.
TypeOK ==
  /\ ClaimTypeOK
  /\ pc \in [Procs -> Points]
  /\ job \in [Procs -> [name : Names, content : Contents,
                        then : Points \cup {"pass", "raised"}]]
  /\ index \in [Procs -> 1 .. NumParts + 1]
  /\ failures \in [Dirs -> SUBSET ((1 .. NumParts) \X (0 .. NoAttempt))]
  /\ \A d \in Dirs, n \in Receipts : file[d][n] \notin Bindings

\* As long as the power stays on, a bundle with a completion receipt has its
\* package-set and every part, through kills, errors and resumes.
CompletedIsWhole ==
  \A d \in Dirs, b \in Bindings :
    file[d][Completed] = b /\ ~powerLost =>
      file[d][PackageSet] = b /\ Whole(d, b)

\* A call returns a result only for a bundle whose parts, package-set and
\* receipt are those of its own configuration, also after a loss of power that
\* took data of a part written before.
ResultIsWhole ==
  [][\A p \in Procs :
       result[p] # "pass" /\ result'[p] = "pass" =>
         /\ Whole(Dir(p), Binding(p)) /\ Here(p)[PackageSet] = Binding(p)
         /\ Here(p)[Completed] = Binding(p)]_vars

\* Claim, parts, package-set and completion receipt are all of the one
\* configuration that claimed the directory, also when the claim is lost.
OneConfiguration ==
  \A d \in Dirs, m, n \in Names :
    {file[d][m], file[d][n]} \subseteq Bindings => file[d][m] = file[d][n]

\* No step but a loss of power changes a file that was written, and a short
\* part disappears only into failures/, as a member that was not there.
NothingOverwritten ==
  [][powerLost' = powerLost =>
       \A d \in Dirs :
         /\ failures[d] \subseteq failures'[d]
         /\ \A n \in Names :
              /\ file[d][n] \in Contents \cup {"bad"} => file'[d][n] = file[d][n]
              /\ file[d][n] = "torn" /\ file'[d][n] = "absent" =>
                   failures'[d] # failures[d]]_vars

\* While a call works, the receipt it will leave has a number nobody used.
OwnReceipt ==
  \A p \in Procs :
    attempt[p] # NoAttempt /\ job[p].name # Receipt(attempt[p]) =>
      ~Present(p, Receipt(attempt[p]))

\* REFERENCE-IMPLEMENTATION.ko.md: partial failures are kept and an explicit
\* resume under the same policy is provided.  A bundle that was begun is
\* completed in the end when its operator goes on resuming it.
ResumeCompletes ==
  \A d \in Dirs : d \in made ~> (\E b \in Bindings : file[d][Completed] = b)

=============================================================================
