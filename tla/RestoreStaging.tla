--------------------------- MODULE RestoreStaging ---------------------------
(***************************************************************************)
(* restore_chunk_set of migration_stream.py and restore_relative_links of  *)
(* migration_link_restore.py: packages are restored into one staging       *)
(* directory, and then its links, by calls that each keep their receipts   *)
(* in a claimed state directory and share the flock of the staging.        *)
(*                                                                         *)
(* A call finds the bundle of its configuration complete, or ends before   *)
(* its claim.  A file is the sequence of the blocks it holds, one block    *)
(* per part; missing and empty files are treated alike by every check.     *)
(* Links are numbered in the order in which the code makes them, so that a *)
(* link to a link comes after it.  Directories are made with the first     *)
(* file.  A state directory serves one of the two adapters: the claim      *)
(* names it.                                                               *)
(***************************************************************************)
EXTENDS ClaimDirectory, Sequences, SequencesExt

CONSTANTS
  LinkDirs,     \* state directories of restore_relative_links
  NumFiles,     \* files of every package
  Shared,       \* the files that are the same in every package
  NumBlocks,    \* blocks of a file
  NumLinks,     \* links of every link policy
  MaxAfterLoss  \* bound: calls at work at once after a loss of power

Files == 1 .. NumFiles
Links == 1 .. NumLinks
RestoreDirs == Dirs \ LinkDirs
StateMembers == {Completed}

ASSUME StagingAssumption ==
  /\ LinkDirs \subseteq Dirs /\ Members = StateMembers /\ Sized = {}
  /\ NumFiles \in Nat \ {0} /\ NumBlocks \in Nat \ {0} /\ NumLinks \in Nat
  /\ MaxAfterLoss \in Nat
  /\ Shared \subseteq Files

VARIABLES
  staged,      \* the staging directory exists
  stageLock,   \* the processes that hold its flock
  tree,        \* file -> blocks
  synced,      \* file -> number of blocks that are synced
  links,       \* the links that exist
  index        \* the file or link each process is at

treeVars == <<staged, tree, synced, links>>
vars == <<dirVars, procVars, boundVars, stageLock, treeVars, index>>

Data(b, f) == [i \in 1 .. NumBlocks |-> IF f \in Shared THEN "shared" ELSE b]

Whole(b) == \A f \in Files : tree[f] = Data(b, f)

Init ==
  /\ ClaimInit
  /\ staged = FALSE /\ stageLock = {}
  /\ tree = [f \in Files |-> <<>>] /\ synced = [f \in Files |-> 0]
  /\ links = {}
  /\ index = [p \in Procs |-> 1]

Restores(p) == Dir(p) \in RestoreDirs

\* Seeded fault: a call that raises leaves the staging locked.
LeavesOnReturn(p) ==
  /\ stageLock' = IF result'[p] = "pass" THEN stageLock \ {p} ELSE stageLock
  /\ index' = IF pc'[p] = "idle" THEN [index EXCEPT ![p] = 1] ELSE index

\* The finally clause, or the death of the process, releases the staging.
Leaves(p) ==
  /\ stageLock' = IF pc'[p] = "idle" THEN stageLock \ {p} ELSE stageLock
  /\ index' = IF pc'[p] = "idle" THEN [index EXCEPT ![p] = 1] ELSE index

-----------------------------------------------------------------------------
(* Both adapters.                                                          *)

Call(p) ==
  /\ powerLost => Cardinality({q \in Procs : pc[q] # "idle"}) < MaxAfterLoss
  /\ \E c \in CallsOf : Calls(p, c)
  /\ UNCHANGED <<stageLock, treeVars, index>>

ClaimStep(p) ==
  /\ Mkdir(p) \/ Lock(p) \/ CheckClaim(p) \/ Create(p) \/ Fill(p) \/ Sync(p)
  /\ Leaves(p)
  /\ UNCHANGED treeVars

Begin(p) ==
  /\ pc[p] = "begin"
  /\ attempt' = [attempt EXCEPT ![p] = Number(p)]
  /\ pc' = [pc EXCEPT ![p] = "stage"]
  /\ UNCHANGED <<dirVars, boundVars, call, job, result, stageLock, treeVars, index>>

LockStage(p) ==
  /\ pc[p] = "stage"
  /\ IF stageLock = {}
       THEN stageLock' = {p} /\ Goto(p, "open") /\ UNCHANGED lock
       ELSE Raise(p) /\ UNCHANGED stageLock
  /\ UNCHANGED <<made, file, unsynced, boundVars, treeVars, index>>

Complete(p) ==
  /\ pc[p] = "complete"
  /\ Write(p, Receipt(attempt[p]), "receipt", "pass")
  /\ UNCHANGED <<dirVars, boundVars, stageLock, treeVars, index>>

-----------------------------------------------------------------------------
(* restore_chunk_set.                                                      *)

\* The staging is made, or found by a resume as long as it has no links; the
\* copies start at the first file.
OpenFiles(p) ==
  /\ pc[p] = "open" /\ Restores(p)
  /\ IF (staged /\ ~Resumes(p)) \/ links # {}
       THEN Raise(p) /\ UNCHANGED staged
       ELSE /\ staged' = TRUE
            /\ Goto(p, "copy")
            /\ UNCHANGED lock
  /\ index' = [index EXCEPT ![p] = 1]
  /\ UNCHANGED <<made, file, unsynced, boundVars, stageLock, tree,
                 synced, links>>

\* What the copy of one more block makes of a file that agrees so far.
Extended(b, f) ==
  SubSeq(Data(b, f), 1, IF Len(tree[f]) < NumBlocks THEN Len(tree[f]) + 1
                                                    ELSE NumBlocks)

\* Seeded fault: a file that is full already is not synced.
CopyUnlessFull(p) ==
  LET f == index[p] IN
  /\ pc[p] = "copy" /\ f \in Files
  /\ IF IsPrefix(tree[f], Data(Binding(p), f))
       THEN IF Len(tree[f]) = NumBlocks
              THEN /\ index' = [index EXCEPT ![p] = f + 1]
                   /\ UNCHANGED <<procVars, lock, tree>>
              ELSE /\ tree' = [tree EXCEPT ![f] = Extended(Binding(p), f)]
                   /\ Goto(p, "flush")
                   /\ UNCHANGED <<lock, index>>
       ELSE Raise(p) /\ UNCHANGED <<tree, index>>
  /\ UNCHANGED <<made, file, unsynced, boundVars, stageLock, staged,
                 synced, links>>

\* What a file holds must be the beginning of it; a block is added.
Copy(p) ==
  LET f == index[p] IN
  /\ pc[p] = "copy" /\ f \in Files
  /\ IF IsPrefix(tree[f], Data(Binding(p), f))
       THEN /\ tree' = [tree EXCEPT ![f] = Extended(Binding(p), f)]
            /\ Goto(p, "flush")
            /\ UNCHANGED lock
       ELSE Raise(p) /\ UNCHANGED tree
  /\ UNCHANGED <<made, file, unsynced, boundVars, stageLock, staged,
                 synced, links, index>>

\* The file is synced after each part.
Flush(p) ==
  LET f == index[p] IN
  /\ pc[p] = "flush"
  /\ synced' = [synced EXCEPT ![f] = Len(tree[f])]
  /\ index' = [index EXCEPT ![p] = IF Len(tree[f]) = NumBlocks THEN f + 1 ELSE f]
  /\ Goto(p, "copy")
  /\ UNCHANGED <<dirVars, boundVars, stageLock, staged, tree, links>>

\* The whole tree is verified, and the completion receipt written or compared.
Certify(p) ==
  /\ pc[p] = "copy" /\ index[p] = NumFiles + 1
  /\ IF Whole(Binding(p)) /\ links = {}
          /\ (Present(p, Completed) => Here(p)[Completed] = Binding(p))
       THEN IF Present(p, Completed)
              THEN Goto(p, "complete")
              ELSE Write(p, Completed, Binding(p), "complete")
       ELSE Raise(p)
  /\ UNCHANGED lock
  /\ UNCHANGED <<made, file, unsynced, boundVars, stageLock, treeVars, index>>

-----------------------------------------------------------------------------
(* restore_relative_links.                                                 *)

\* Seeded fault: only the files that are there are verified.
ReverifiedPresent(p) ==
  \A f \in Files : tree[f] \in {<<>>, Data(Binding(p), f)}

Reverified(p) == Whole(Binding(p))

\* Seeded fault: the completion receipt is taken for the links.
ReplayableByReceipt(p) == Here(p)[Completed] = Binding(p)

Replayable(p) ==
  Reverified(p) /\ links = Links /\ Here(p)[Completed] = Binding(p)

\* A completed restore is verified again and answered; links that exist are
\* accepted from a resume only.
OpenLinks(p) ==
  /\ pc[p] = "open" /\ ~Restores(p)
  /\ \/ ~staged /\ Raise(p)
     \/ /\ staged /\ Present(p, Completed)
        /\ IF Replayable(p) THEN End(p, "pass") ELSE Raise(p)
     \/ /\ staged /\ ~Present(p, Completed)
        /\ IF Reverified(p) /\ (Resumes(p) \/ links = {})
             THEN Goto(p, "link") /\ UNCHANGED lock
             ELSE Raise(p)
  /\ Leaves(p)
  /\ UNCHANGED <<made, file, unsynced, boundVars, treeVars>>

\* The next link is made, or found by a resume.
PlaceLink(p) ==
  /\ pc[p] = "link" /\ index[p] \in Links
  /\ links' = links \cup {index[p]}
  /\ index' = [index EXCEPT ![p] = @ + 1]
  /\ UNCHANGED <<dirVars, procVars, boundVars, stageLock, staged, tree,
                 synced>>

\* Seeded fault: the last link is not waited for.
CertifyLinksEarly(p) ==
  /\ pc[p] = "link" /\ index[p] = NumLinks
  /\ Write(p, Completed, Binding(p), "complete")
  /\ UNCHANGED <<dirVars, boundVars, stageLock, treeVars, index>>

\* Files and links are verified together, and the completion receipt written.
CertifyLinks(p) ==
  /\ pc[p] = "link" /\ index[p] = NumLinks + 1
  /\ IF Reverified(p) /\ links = Links
       THEN Write(p, Completed, Binding(p), "complete") /\ UNCHANGED lock
       ELSE Raise(p)
  /\ UNCHANGED <<made, file, unsynced, boundVars, stageLock, treeVars, index>>

-----------------------------------------------------------------------------
Step(p) ==
  \/ ClaimStep(p) \/ Begin(p) \/ LockStage(p) \/ Complete(p)
  \/ OpenFiles(p) \/ Copy(p) \/ Flush(p) \/ Certify(p)
  \/ OpenLinks(p) \/ PlaceLink(p) \/ CertifyLinks(p)

Stops(p) ==
  /\ Fails(p) \/ Killed(p)
  /\ Leaves(p)
  /\ UNCHANGED treeVars

\* What a loss of power may leave of a file.  Its data is synced, but not the
\* directory it was made in: it may be gone as a whole.
Survivors(f) ==
  {<<>>, tree[f]} \cup
    {SubSeq(tree[f], 1, n) \o junk : n \in {synced[f]} \cap 0 .. Len(tree[f]) - 1,
                                    junk \in {<<>>, <<"bad">>}}

\* A link that a killed call made is not synced by the resume that finds it.
StagingDamaged ==
  /\ tree' \in {t \in [Files -> UNION {Survivors(f) : f \in Files}] :
                 \A f \in Files : t[f] \in Survivors(f)}
  /\ links' \in SUBSET links
  /\ UNCHANGED staged

\* Nor is the directory of the staging synced after it was made there.
StagingGone ==
  /\ tree' = [f \in Files |-> <<>>]
  /\ links' = {} /\ staged' = FALSE

PowerFails ==
  /\ PowerLoss
  /\ StagingDamaged \/ StagingGone
  /\ synced' = [f \in Files |-> Len(tree'[f])]
  /\ stageLock' = {}
  /\ index' = [p \in Procs |-> 1]

Next == (\E p \in Procs : Call(p) \/ Step(p) \/ Stops(p)) \/ PowerFails

Spec == Init /\ [][Next]_vars

-----------------------------------------------------------------------------
(* Properties.                                                             *)

Points ==
  {"idle", "mkdir", "lock", "claim", "begin", "create", "fill", "sync", "stage",
   "open", "copy", "flush", "link", "complete"}

\* Every variable has its type, and the staging is locked by a call at work.
TypeOK ==
  /\ ClaimTypeOK
  /\ pc \in [Procs -> Points]
  /\ job \in [Procs -> [name : Names, content : Contents,
                        then : Points \cup {"pass", "raised"}]]
  /\ staged \in BOOLEAN
  /\ stageLock \subseteq {p \in Procs : pc[p] # "idle"}
  /\ \A f \in Files : /\ Len(tree[f]) <= NumBlocks
                      /\ synced[f] \in 0 .. Len(tree[f])
  /\ links \subseteq Links
  /\ index \in [Procs -> 1 .. NumFiles + NumLinks + 1]

\* The completion receipt of a restore is true when it is written, also after a
\* loss of power.  As long as the power stays on it stays true: every file of its
\* package is in the staging, whichever other package or link policy is restored
\* there afterwards.  A loss of power may take such a file, as nothing syncs its
\* directory, but leaves none that is short or has other bytes.
RestoreReceiptTrue ==
  [][\A d \in RestoreDirs, b \in Bindings :
       /\ file[d][Completed] # b /\ file'[d][Completed] = b => Whole(b)
       /\ file[d][Completed] = b /\ ~powerLost =>
            /\ Whole(b)
            /\ powerLost' => \A f \in Files : tree'[f] \in {<<>>, Data(b, f)}]_vars

\* A link exists only in a staging that holds one package whole, as long as the
\* power stays on: no interrupted restore shows through links, and no restore
\* that goes on later disturbs a linked tree.
LinksOnWholeTree ==
  links # {} /\ ~powerLost => \E b \in Bindings : Whole(b)

\* The completion receipt of the links stays true as long as the power stays on.
LinkReceiptTrue ==
  \A d \in LinkDirs, b \in Bindings :
    file[d][Completed] = b /\ ~powerLost => Whole(b) /\ links = Links

\* A call that returns a result has found the whole package, and for links all
\* of them, in the staging as it is now, also if a loss of power came between
\* the receipt and the call that replays it.
AnswersFromTree ==
  [][\A p \in Procs :
       result[p] # "pass" /\ result'[p] = "pass" =>
         Whole(Binding(p)) /\ (Dir(p) \in LinkDirs => links = Links)]_vars

=============================================================================
