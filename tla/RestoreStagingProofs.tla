------------------------ MODULE RestoreStagingProofs ------------------------
(***************************************************************************)
(* The receipts of restored files and links stay true as long as the power *)
(* stays on, for any number of processes, packages, files, blocks and      *)
(* links, and through any errors, deaths, resumes and other restores into  *)
(* the same staging directory; and what is answered or certified after a   *)
(* loss of power is true of what that loss has left.                       *)
(* The second part proves the types, which rest on a count of the receipts *)
(* that exist and the calls that may still leave one.                      *)
(***************************************************************************)
EXTENDS RestoreStaging, SequenceTheorems, FiniteSetTheorems, TLAPS

Blocks == Bindings \cup {"shared", "bad"}

RestoreTypes ==
  /\ file \in [Dirs -> [Names -> States]]
  /\ pc \in [Procs -> Points]
  /\ call \in [Procs -> CallsOf \cup {NoCall}]
  /\ tree \in [Files -> Seq(Blocks)]
  /\ synced \in [Files -> Nat]
  /\ DOMAIN job = Procs /\ DOMAIN result = Procs /\ index \in [Procs -> Nat]

Writing(p) == pc[p] \in {"create", "fill", "sync"}

JobOf(p) ==
  \/ /\ job[p].name = Claim /\ job[p].content = Binding(p)
     /\ job[p].then = "begin"
  \/ /\ job[p].name = Completed /\ job[p].content = Binding(p)
     /\ job[p].then = "complete"
  \/ /\ job[p].name \notin {Claim, Completed} /\ job[p].content = "receipt"
     /\ job[p].then \in {"pass", "raised"}

\* A file that is full and safe from a loss of power.
Safe(b, f) == tree[f] = Data(b, f) /\ synced[f] = NumBlocks

Solid(b) == \A f \in Files : Safe(b, f)

Certified(p) ==
  /\ Whole(Binding(p))
  /\ Dir(p) \in RestoreDirs => Solid(Binding(p))
  /\ Dir(p) \in LinkDirs => links = Links

HasCertified(p) ==
  pc[p] = "complete" \/ (Writing(p) /\ job[p].then \in {"complete", "pass"})

\* What a process has done to the tree so far, and that nobody else copies.
ProcInv(p) ==
  /\ pc[p] # "idle" => call[p] \in CallsOf
  /\ Writing(p) => JobOf(p)
  /\ pc[p] \in {"open", "copy", "flush"} => stageLock = {p}
  /\ pc[p] \in {"copy", "flush"} =>
       /\ Dir(p) \in RestoreDirs
       /\ \A f \in Files : f < index[p] => Safe(Binding(p), f)
  /\ pc[p] = "flush" =>
       /\ index[p] \in Files
       /\ \E k \in 1 .. NumBlocks :
            tree[index[p]] = SubSeq(Data(Binding(p), index[p]), 1, k)
  /\ pc[p] = "link" => Dir(p) \in LinkDirs /\ Whole(Binding(p))
  /\ HasCertified(p) => Certified(p)

ReceiptsSolid ==
  \A d \in RestoreDirs, b \in Bindings :
    file[d][Completed] = b /\ ~powerLost => Solid(b)

TreeInv == ReceiptsSolid /\ LinksOnWholeTree /\ LinkReceiptTrue

RestoreInv == RestoreTypes /\ (\A p \in Procs : ProcInv(p)) /\ TreeInv

-----------------------------------------------------------------------------
LEMMA NameFacts ==
  /\ Claim \in Names /\ Completed \in Names /\ Claim # Completed
  /\ \A n : Receipt(n) \notin {Claim, Completed}
BY StagingAssumption DEF Claim, Completed, StateMembers, Names, Receipt

LEMMA ContentFacts ==
  /\ Bindings \subseteq States /\ "receipt" \in States
  /\ "torn" \in States /\ "absent" \in States
  /\ "torn" \notin Bindings /\ "absent" \notin Bindings
  /\ "receipt" \notin Bindings
BY ContentAssumption DEF States, Contents

LEMMA DataType ==
  ASSUME NEW b \in Bindings, NEW f \in Files
  PROVE  Data(b, f) \in Seq(Blocks) /\ Len(Data(b, f)) = NumBlocks /\ NumBlocks \in Nat \ {0}
<1>1. NumBlocks \in Nat \ {0}
  BY StagingAssumption
<1>2. Data(b, f) \in [1 .. NumBlocks -> Blocks]
  BY DEF Data, Blocks
<1> QED
  BY <1>1, <1>2

\* What a copy makes of a file that agrees so far; a full file stays as it is.
LEMMA Extension ==
  ASSUME RestoreTypes, NEW b \in Bindings, NEW f \in Files,
         IsPrefix(tree[f], Data(b, f))
  PROVE  /\ \E k \in 1 .. NumBlocks : Extended(b, f) = SubSeq(Data(b, f), 1, k)
         /\ Extended(b, f) \in Seq(Blocks)
         /\ \A c \in Bindings : tree[f] = Data(c, f) => Extended(b, f) = Data(c, f)
<1>1. Data(b, f) \in Seq(Blocks) /\ Len(Data(b, f)) = NumBlocks /\ NumBlocks \in Nat \ {0}
  BY DataType
<1>2. tree[f] \in Seq(Blocks) /\ Len(tree[f]) \in Nat
  BY DEF RestoreTypes
<1> DEFINE k == IF Len(tree[f]) < NumBlocks THEN Len(tree[f]) + 1 ELSE NumBlocks
<1>3. k \in 1 .. NumBlocks /\ Extended(b, f) = SubSeq(Data(b, f), 1, k)
  BY <1>1, <1>2 DEF Extended
<1>4. SubSeq(Data(b, f), 1, k) \in Seq(Blocks)
  <2>1. \A i \in 1 .. k : Data(b, f)[i] \in Blocks
    BY <1>1, <1>3
  <2> HIDE DEF k
  <2> QED
    BY <1>3, <2>1, SubSeqProperties
<1>5. ASSUME NEW c \in Bindings, tree[f] = Data(c, f)
      PROVE  Extended(b, f) = Data(c, f)
  <2>1. Len(tree[f]) = NumBlocks
    BY <1>5, DataType
  <2>2. SubSeq(tree[f], 1, NumBlocks) = SubSeq(Data(b, f), 1, NumBlocks)
    BY <2>1 DEF IsPrefix
  <2>3. SubSeq(tree[f], 1, NumBlocks) = tree[f]
    BY <1>2, <2>1, SubSeqFull
  <2>4. k = NumBlocks
    BY <1>1, <2>1
  <2> HIDE DEF k
  <2> QED
    BY <1>3, <1>5, <2>2, <2>3, <2>4
<1> HIDE DEF k
<1> QED
  BY <1>3, <1>4, <1>5

-----------------------------------------------------------------------------
(* What a step of one process does to the others, the tree and the files.  *)

Others(p) ==
  /\ \A q \in Procs \ {p} :
       pc'[q] = pc[q] /\ call'[q] = call[q] /\ job'[q] = job[q]
         /\ result'[q] = result[q] /\ index'[q] = index[q]
  /\ \/ stageLock' = stageLock \/ stageLock' = stageLock \ {p}
     \/ stageLock = {} /\ stageLock' = {p}

CopiesBlock(p) ==
  LET f == index[p] IN
  /\ pc[p] = "copy" /\ f \in Files /\ stageLock = {p} /\ Binding(p) \in Bindings
  /\ IsPrefix(tree[f], Data(Binding(p), f))
  /\ tree' = [tree EXCEPT ![f] = Extended(Binding(p), f)]
  /\ UNCHANGED <<synced, links>>

SyncsFile ==
  /\ \E f \in Files : synced' = [synced EXCEPT ![f] = Len(tree[f])]
  /\ UNCHANGED <<tree, links>>

MakesLink(p) ==
  /\ pc[p] = "link"
  /\ \E i \in Links : links' = links \cup {i}
  /\ UNCHANGED <<tree, synced>>

Tree(p) ==
  UNCHANGED <<tree, synced, links>> \/ CopiesBlock(p) \/ SyncsFile \/ MakesLink(p)

\* A completion receipt is written by a process that has certified the tree.
Files1(p) ==
  \A d \in Dirs :
    file'[d][Completed] \in Bindings /\ file'[d][Completed] # file[d][Completed] =>
      d = Dir(p) /\ HasCertified(p) /\ file'[d][Completed] = Binding(p)

Answers(p) == result[p] # "pass" /\ result'[p] = "pass" => Certified(p)

Effect(p) ==
  /\ RestoreTypes' /\ Others(p) /\ Tree(p) /\ Files1(p) /\ ProcInv(p)' /\ Answers(p)
  /\ powerLost' = powerLost

\* The call ends: its staging may be released.
Quits(p) ==
  /\ stageLock' = stageLock \/ stageLock' = stageLock \ {p}
  /\ index' = index \/ index' = [index EXCEPT ![p] = 1]
  /\ UNCHANGED <<tree, synced, links, file, powerLost>>

LEMMA EndEffect ==
  ASSUME RestoreInv, NEW p \in Procs, NEW r, End(p, r), r = "pass" => Certified(p),
         Quits(p)
  PROVE  Effect(p)
<1>1. RestoreTypes
  BY DEF RestoreInv
<1>2. /\ pc' = [pc EXCEPT ![p] = "idle"] /\ call' = [call EXCEPT ![p] = NoCall]
      /\ job' = [job EXCEPT ![p] = NoJob] /\ result' = [result EXCEPT ![p] = r]
  BY DEF End
<1>3. UNCHANGED <<tree, synced, links, file, powerLost>> /\ index' \in [Procs -> Nat]
  BY <1>1 DEF Quits, RestoreTypes
<1>4. RestoreTypes'
  BY <1>1, <1>2, <1>3 DEF RestoreTypes, Points
<1>5. Others(p)
  BY <1>1, <1>2 DEF RestoreTypes, Others, Quits
<1>6. ProcInv(p)'
  <2>1. pc'[p] = "idle"
    BY <1>1, <1>2 DEF RestoreTypes
  <2> QED
    BY <2>1 DEF ProcInv, Writing, HasCertified
<1>7. Answers(p)
  BY <1>1, <1>2 DEF RestoreTypes, Answers
<1> QED
  BY <1>3, <1>4, <1>5, <1>6, <1>7 DEF Effect, Files1, Tree

LEMMA CertifiedKept ==
  ASSUME NEW p, UNCHANGED <<call, tree, synced, links>>
  PROVE  /\ Dir(p)' = Dir(p) /\ Binding(p)' = Binding(p)
         /\ Certified(p)' = Certified(p)
BY DEF Dir, Binding, Certified, Whole, Solid, Safe

LEMMA WriteEffect ==
  ASSUME RestoreInv, NEW p \in Procs, pc[p] # "idle",
         NEW n, NEW c, NEW then, Write(p, n, c, then),
         \/ n = Claim /\ c = Binding(p) /\ then = "begin"
         \/ n = Completed /\ c = Binding(p) /\ then = "complete"
         \/ n \notin {Claim, Completed} /\ c = "receipt" /\ then \in {"pass", "raised"},
         then \in {"complete", "pass"} => Certified(p),
         Quits(p)
  PROVE  Effect(p)
<1>1. RestoreTypes /\ ProcInv(p)
  BY DEF RestoreInv
<1>2. /\ pc' = [pc EXCEPT ![p] = "create"]
      /\ job' = [job EXCEPT ![p] = [name |-> n, content |-> c, then |-> then]]
      /\ call' = call /\ result' = result
  BY DEF Write
<1>3. UNCHANGED <<tree, synced, links, file, powerLost>> /\ index' \in [Procs -> Nat]
  BY <1>1 DEF Quits, RestoreTypes
<1>4. RestoreTypes'
  BY <1>1, <1>2, <1>3 DEF RestoreTypes, Points
<1>5. Others(p)
  BY <1>1, <1>2 DEF RestoreTypes, Others, Quits
<1>6. ProcInv(p)'
  <2>1. pc'[p] = "create"
    BY <1>1, <1>2 DEF RestoreTypes
  <2>2. job'[p].name = n /\ job'[p].content = c /\ job'[p].then = then
    BY <1>1, <1>2 DEF RestoreTypes
  <2>3. Binding(p)' = Binding(p) /\ Certified(p)' = Certified(p)
    BY <1>2, <1>3, CertifiedKept
  <2>4. JobOf(p)'
    BY <2>2, <2>3 DEF JobOf
  <2>5. HasCertified(p)' => Certified(p)'
    BY <2>1, <2>2, <2>3 DEF HasCertified
  <2>6. call'[p] \in CallsOf
    BY <1>1, <1>2 DEF ProcInv
  <2> QED
    BY <2>1, <2>4, <2>5, <2>6 DEF ProcInv
<1> QED
  BY <1>2, <1>3, <1>4, <1>5, <1>6 DEF Effect, Files1, Tree, Answers

LEMMA RaiseEffect ==
  ASSUME RestoreInv, NEW p \in Procs, pc[p] # "idle", Raise(p), Quits(p)
  PROVE  Effect(p)
<1>1. CASE End(p, "none")
  BY <1>1, EndEffect
<1>2. CASE Write(p, Receipt(attempt[p]), "receipt", "raised")
  <2> DEFINE n == Receipt(attempt[p])
  <2>1. n \notin {Claim, Completed}
    BY NameFacts
  <2> HIDE DEF n
  <2>2. Write(p, n, "receipt", "raised")
    BY <1>2 DEF n
  <2> QED
    BY <2>1, <2>2, WriteEffect
<1> QED
  BY <1>1, <1>2 DEF Raise

LEMMA LeavesQuits ==
  ASSUME NEW p, Leaves(p), UNCHANGED <<tree, synced, links, file, powerLost>>
  PROVE  Quits(p)
BY DEF Leaves, Quits

LEMMA StaysQuits ==
  ASSUME NEW p, UNCHANGED <<stageLock, index, tree, synced, links, file, powerLost>>
  PROVE  Quits(p)
BY DEF Quits

\* A step that moves a process to a point and leaves the tree alone.
LEMMA GotoEffect ==
  ASSUME RestoreInv, NEW p \in Procs, pc[p] # "idle",
         NEW point \in {"lock", "claim", "begin", "stage", "open", "link", "complete"},
         pc' = [pc EXCEPT ![p] = point],
         UNCHANGED <<call, result, tree, synced, links, file, powerLost>>,
         job' = job \/ job' = [job EXCEPT ![p] = NoJob],
         \/ stageLock' = stageLock \/ stageLock' = stageLock \ {p}
         \/ stageLock = {} /\ stageLock' = {p},
         index' = index \/ index' = [index EXCEPT ![p] = 1],
         point = "open" => stageLock' = {p},
         point = "link" => Dir(p) \in LinkDirs /\ Whole(Binding(p)),
         point = "complete" => Certified(p)
  PROVE  Effect(p)
<1>1. RestoreTypes /\ call[p] \in CallsOf
  BY DEF RestoreInv, ProcInv
<1>2. index' \in [Procs -> Nat]
  BY <1>1 DEF RestoreTypes
<1>3. RestoreTypes'
  BY <1>1, <1>2 DEF RestoreTypes, Points
<1>4. pc'[p] = point
  BY <1>1 DEF RestoreTypes
<1>5. /\ Dir(p)' = Dir(p) /\ Binding(p)' = Binding(p) /\ Certified(p)' = Certified(p)
  BY CertifiedKept
<1>6. ProcInv(p)'
  <2>1. ~Writing(p)'
    BY <1>4 DEF Writing
  <2>2. HasCertified(p)' => Certified(p)'
    BY <1>4, <1>5, <2>1 DEF HasCertified
  <2>3. pc'[p] = "link" => Dir(p)' \in LinkDirs /\ Whole(Binding(p))'
    BY <1>4, <1>5 DEF Whole
  <2> QED
    BY <1>1, <1>4, <2>1, <2>2, <2>3 DEF ProcInv
<1>7. Others(p)
  BY <1>1 DEF RestoreTypes, Others
<1> QED
  BY <1>3, <1>6, <1>7 DEF Effect, Tree, Files1, Answers

-----------------------------------------------------------------------------
(* claim_directory and the writing of a file.                              *)

LEMMA CallEffect ==
  ASSUME RestoreInv, NEW p \in Procs, Call(p)
  PROVE  Effect(p)
<1>1. RestoreTypes
  BY DEF RestoreInv
<1>2. PICK c \in CallsOf : Calls(p, c)
  BY DEF Call
<1>3. /\ pc' = [pc EXCEPT ![p] = "mkdir"] /\ call' = [call EXCEPT ![p] = c]
      /\ result' = [result EXCEPT ![p] = "none"]
      /\ UNCHANGED <<file, job, powerLost>>
  BY <1>2 DEF Calls, dirVars, boundVars
<1>4. UNCHANGED <<index, stageLock, tree, synced, links>>
  BY DEF Call, treeVars
<1>5. RestoreTypes'
  BY <1>1, <1>3, <1>4 DEF RestoreTypes, Points
<1>6. pc'[p] = "mkdir" /\ call'[p] \in CallsOf
  BY <1>1, <1>3 DEF RestoreTypes
<1>7. ProcInv(p)'
  BY <1>6 DEF ProcInv, Writing, HasCertified
<1>8. Others(p)
  BY <1>1, <1>3, <1>4 DEF RestoreTypes, Others
<1>9. Answers(p)
  BY <1>1, <1>3 DEF RestoreTypes, Answers
<1> QED
  BY <1>3, <1>4, <1>5, <1>7, <1>8, <1>9 DEF Effect, Files1, Tree

LEMMA MkdirEffect ==
  ASSUME RestoreInv, NEW p \in Procs, Mkdir(p), Leaves(p), UNCHANGED treeVars
  PROVE  Effect(p)
<1>1. pc[p] # "idle" /\ Quits(p) /\ UNCHANGED <<tree, synced, links, file, powerLost>>
  BY LeavesQuits DEF Mkdir, boundVars, treeVars
<1>2. CASE End(p, "none")
  BY <1>1, <1>2, EndEffect
<1>3. CASE Goto(p, "lock")
  BY <1>1, <1>3, GotoEffect DEF Goto, Quits
<1> QED
  BY <1>2, <1>3 DEF Mkdir

LEMMA LockEffect ==
  ASSUME RestoreInv, NEW p \in Procs, Lock(p), Leaves(p), UNCHANGED treeVars
  PROVE  Effect(p)
<1>1. pc[p] # "idle" /\ Quits(p) /\ UNCHANGED <<tree, synced, links, file, powerLost>>
  BY LeavesQuits DEF Lock, boundVars, treeVars
<1>2. CASE End(p, "none")
  BY <1>1, <1>2, EndEffect
<1>3. CASE Goto(p, "claim")
  BY <1>1, <1>3, GotoEffect DEF Goto, Quits
<1> QED
  BY <1>2, <1>3 DEF Lock

LEMMA ClaimEffect ==
  ASSUME RestoreInv, NEW p \in Procs, CheckClaim(p), Leaves(p), UNCHANGED treeVars
  PROVE  Effect(p)
<1>1. pc[p] # "idle" /\ Quits(p) /\ UNCHANGED <<tree, synced, links, file, powerLost>>
  BY LeavesQuits DEF CheckClaim, boundVars, treeVars
<1>2. CASE End(p, "none")
  BY <1>1, <1>2, EndEffect
<1>3. CASE Goto(p, "begin")
  BY <1>1, <1>3, GotoEffect DEF Goto, Quits
<1>4. CASE Write(p, Claim, Binding(p), "begin")
  BY <1>1, <1>4, WriteEffect
<1> QED
  BY <1>2, <1>3, <1>4 DEF CheckClaim

\* A file is created, or its content written.
LEMMA FileEffect ==
  ASSUME RestoreInv, NEW p \in Procs, Writing(p),
         NEW point \in {"fill", "sync"}, pc' = [pc EXCEPT ![p] = point],
         NEW c \in {"torn", job[p].content},
         file' = [file EXCEPT ![Dir(p)][job[p].name] = c],
         UNCHANGED <<call, job, result, stageLock, index, tree, synced, links,
                     powerLost>>
  PROVE  Effect(p)
<1>1. RestoreTypes /\ ProcInv(p) /\ JobOf(p) /\ call[p] \in CallsOf
  BY DEF RestoreInv, ProcInv, Writing
<1>2. Binding(p) \in Bindings /\ Dir(p) \in Dirs
  BY <1>1 DEF CallsOf, Binding, Dir
<1>3. c \in States
  BY <1>1, <1>2, ContentFacts DEF JobOf
<1>4. RestoreTypes'
  <2>1. file' \in [Dirs -> [Names -> States]]
    BY <1>1, <1>3 DEF RestoreTypes
  <2> QED
    BY <1>1, <2>1 DEF RestoreTypes, Points
<1>5. pc'[p] = point
  BY <1>1 DEF RestoreTypes
<1>6. Binding(p)' = Binding(p) /\ Certified(p)' = Certified(p)
  BY CertifiedKept
<1>7. ProcInv(p)'
  <2>1. JobOf(p)'
    BY <1>1, <1>6 DEF JobOf
  <2>2. HasCertified(p)' => HasCertified(p)
    BY <1>5 DEF HasCertified
  <2> QED
    BY <1>1, <1>5, <1>6, <2>1, <2>2 DEF ProcInv
<1>8. Others(p)
  BY <1>1 DEF RestoreTypes, Others
<1>9. Files1(p)
  <2> SUFFICES ASSUME NEW d \in Dirs, file'[d][Completed] \in Bindings,
                      file'[d][Completed] # file[d][Completed]
               PROVE  d = Dir(p) /\ HasCertified(p) /\ file'[d][Completed] = Binding(p)
    BY DEF Files1
  <2>1. d = Dir(p) /\ job[p].name = Completed /\ file'[d][Completed] = c
    BY <1>1, <1>2, NameFacts DEF RestoreTypes
  <2>2. c = job[p].content
    BY <2>1, ContentFacts
  <2>3. job[p].content = Binding(p) /\ job[p].then = "complete"
    BY <1>1, <2>1, NameFacts DEF JobOf
  <2> QED
    BY <2>1, <2>2, <2>3 DEF HasCertified
<1> QED
  BY <1>4, <1>7, <1>8, <1>9 DEF Effect, Tree, Answers

LEMMA CreateEffect ==
  ASSUME RestoreInv, NEW p \in Procs, Create(p), Leaves(p), UNCHANGED treeVars
  PROVE  Effect(p)
<1>1. pc[p] = "create" /\ UNCHANGED <<tree, synced, links, powerLost>>
  BY DEF Create, boundVars, treeVars
<1>2. CASE Raise(p) /\ UNCHANGED file
  BY <1>1, <1>2, LeavesQuits, RaiseEffect
<1>3. CASE /\ file' = [file EXCEPT ![Dir(p)][job[p].name] = "torn"]
           /\ Goto(p, "fill")
  <2>1. UNCHANGED <<stageLock, index>>
    BY <1>3 DEF Leaves, Goto, RestoreInv, RestoreTypes
  <2> QED
    BY <1>1, <1>3, <2>1, FileEffect DEF Goto, Writing
<1> QED
  BY <1>2, <1>3 DEF Create

LEMMA FillEffect ==
  ASSUME RestoreInv, NEW p \in Procs, Fill(p), Leaves(p), UNCHANGED treeVars
  PROVE  Effect(p)
<1>1. /\ pc[p] = "fill" /\ UNCHANGED <<tree, synced, links, powerLost>>
      /\ file' = [file EXCEPT ![Dir(p)][job[p].name] = job[p].content]
      /\ Goto(p, "sync")
  BY DEF Fill, boundVars, treeVars
<1>2. UNCHANGED <<stageLock, index>>
  BY <1>1 DEF Leaves, Goto, RestoreInv, RestoreTypes
<1> DEFINE c == job[p].content
<1> HIDE DEF c
<1>3. file' = [file EXCEPT ![Dir(p)][job[p].name] = c] /\ c = job[p].content
  BY <1>1 DEF c
<1> QED
  BY <1>1, <1>2, <1>3, FileEffect DEF Goto, Writing

LEMMA SyncEffect ==
  ASSUME RestoreInv, NEW p \in Procs, Sync(p), Leaves(p), UNCHANGED treeVars
  PROVE  Effect(p)
<1>1. pc[p] = "sync" /\ Quits(p) /\ UNCHANGED <<tree, synced, links, file, powerLost>>
  BY LeavesQuits DEF Sync, boundVars, treeVars
<1>2. JobOf(p) /\ (job[p].then \in {"complete", "pass"} => Certified(p))
  BY <1>1 DEF RestoreInv, ProcInv, Writing, HasCertified
<1>3. CASE job[p].then \in {"pass", "raised"}
  <2> DEFINE r == IF job[p].then = "pass" THEN "pass" ELSE "none"
  <2>1. End(p, r) /\ (r = "pass" => Certified(p))
    BY <1>2, <1>3 DEF Sync
  <2> HIDE DEF r
  <2> QED
    BY <1>1, <2>1, EndEffect
<1>4. CASE job[p].then \notin {"pass", "raised"}
  <2> DEFINE t == job[p].then
  <2>1. /\ pc' = [pc EXCEPT ![p] = t] /\ job' = [job EXCEPT ![p] = NoJob]
        /\ UNCHANGED <<call, result>>
    BY <1>4 DEF Sync
  <2>2. t \in {"begin", "complete"} /\ (t = "complete" => Certified(p))
    BY <1>2, <1>4 DEF JobOf
  <2> HIDE DEF t
  <2> QED
    BY <1>1, <2>1, <2>2, GotoEffect DEF Quits
<1> QED
  BY <1>3, <1>4

LEMMA ClaimStepEffect ==
  ASSUME RestoreInv, NEW p \in Procs, ClaimStep(p)
  PROVE  Effect(p)
BY MkdirEffect, LockEffect, ClaimEffect, CreateEffect, FillEffect, SyncEffect
   DEF ClaimStep

-----------------------------------------------------------------------------
(* The staging.                                                            *)

LEMMA BeginEffect ==
  ASSUME RestoreInv, NEW p \in Procs, Begin(p)
  PROVE  Effect(p)
<1>1. /\ pc[p] = "begin" /\ pc' = [pc EXCEPT ![p] = "stage"]
      /\ UNCHANGED <<call, job, result, stageLock, index, tree, synced, links, file,
                     powerLost>>
  BY DEF Begin, dirVars, boundVars, treeVars
<1> QED
  BY <1>1, GotoEffect

LEMMA LockStageEffect ==
  ASSUME RestoreInv, NEW p \in Procs, LockStage(p)
  PROVE  Effect(p)
<1>1. pc[p] = "stage" /\ UNCHANGED <<index, tree, synced, links, file, powerLost>>
  BY DEF LockStage, boundVars, treeVars
<1>2. CASE stageLock = {} /\ stageLock' = {p} /\ Goto(p, "open")
  BY <1>1, <1>2, GotoEffect DEF Goto
<1>3. CASE Raise(p) /\ UNCHANGED stageLock
  BY <1>1, <1>3, StaysQuits, RaiseEffect
<1> QED
  BY <1>2, <1>3 DEF LockStage

LEMMA CompleteEffect ==
  ASSUME RestoreInv, NEW p \in Procs, Complete(p)
  PROVE  Effect(p)
<1> DEFINE n == Receipt(attempt[p])
<1>1. /\ pc[p] = "complete" /\ Quits(p)
      /\ Write(p, n, "receipt", "pass")
  BY StaysQuits DEF Complete, dirVars, boundVars, treeVars
<1>2. n \notin {Claim, Completed}
  BY NameFacts
<1>3. Certified(p)
  BY <1>1 DEF RestoreInv, ProcInv, HasCertified
<1> HIDE DEF n
<1> QED
  BY <1>1, <1>2, <1>3, WriteEffect

LEMMA OpenFilesEffect ==
  ASSUME RestoreInv, NEW p \in Procs, OpenFiles(p)
  PROVE  Effect(p)
<1>1. /\ pc[p] = "open" /\ Dir(p) \in RestoreDirs
      /\ index' = [index EXCEPT ![p] = 1]
      /\ UNCHANGED <<stageLock, tree, synced, links, file, powerLost>>
  BY DEF OpenFiles, Restores, boundVars
<1>2. RestoreTypes /\ stageLock = {p} /\ call[p] \in CallsOf
  BY <1>1 DEF RestoreInv, ProcInv
<1>3. CASE Raise(p)
  BY <1>1, <1>3, RaiseEffect DEF Quits
<1>4. CASE Goto(p, "copy")
  <2>1. pc' = [pc EXCEPT ![p] = "copy"] /\ UNCHANGED <<call, job, result>>
    BY <1>4 DEF Goto
  <2>2. RestoreTypes'
    BY <1>1, <1>2, <2>1 DEF RestoreTypes, Points
  <2>3. pc'[p] = "copy" /\ index'[p] = 1 /\ Dir(p)' = Dir(p)
    BY <1>1, <1>2, <2>1 DEF RestoreTypes, Dir
  <2>4. \A f \in Files : ~(f < 1)
    BY StagingAssumption DEF Files
  <2>5. ProcInv(p)'
    BY <1>1, <1>2, <2>1, <2>3, <2>4 DEF ProcInv, Writing, HasCertified, RestoreDirs
  <2>6. Others(p)
    BY <1>1, <1>2, <2>1 DEF RestoreTypes, Others
  <2> QED
    BY <1>1, <2>1, <2>2, <2>5, <2>6 DEF Effect, Tree, Files1, Answers
<1> QED
  BY <1>3, <1>4 DEF OpenFiles

LEMMA CopyEffect ==
  ASSUME RestoreInv, NEW p \in Procs, Copy(p)
  PROVE  Effect(p)
<1> DEFINE f == index[p]
           b == Binding(p)
<1>1. /\ pc[p] = "copy" /\ f \in Files
      /\ UNCHANGED <<stageLock, synced, links, index, file, powerLost>>
  BY DEF Copy, boundVars
<1>2. /\ RestoreTypes /\ ProcInv(p) /\ stageLock = {p} /\ b \in Bindings
      /\ Dir(p) \in RestoreDirs
  BY <1>1 DEF RestoreInv, ProcInv, CallsOf, Binding
<1>3. CASE Raise(p) /\ UNCHANGED tree
  BY <1>1, <1>3, StaysQuits, RaiseEffect
<1>4. CASE /\ IsPrefix(tree[f], Data(b, f))
           /\ tree' = [tree EXCEPT ![f] = Extended(b, f)]
           /\ Goto(p, "flush")
  <2>1. pc' = [pc EXCEPT ![p] = "flush"] /\ UNCHANGED <<call, job, result>>
    BY <1>4 DEF Goto
  <2>2. /\ \E k \in 1 .. NumBlocks : Extended(b, f) = SubSeq(Data(b, f), 1, k)
        /\ Extended(b, f) \in Seq(Blocks)
    BY <1>1, <1>2, <1>4, Extension
  <2>3. tree' \in [Files -> Seq(Blocks)] /\ tree'[f] = Extended(b, f)
    BY <1>1, <1>2, <1>4, <2>2 DEF RestoreTypes
  <2>4. RestoreTypes'
    BY <1>1, <1>2, <2>1, <2>3 DEF RestoreTypes, Points
  <2>5. /\ pc'[p] = "flush" /\ Dir(p)' = Dir(p) /\ Binding(p)' = b
        /\ index'[p] = f
    BY <1>1, <1>2, <2>1 DEF RestoreTypes, Dir, Binding
  <2>6. ASSUME NEW g \in Files, g < f
        PROVE  Safe(Binding(p), g)'
    <3>1. Safe(b, g)
      BY <1>1, <1>2, <2>6 DEF ProcInv
    <3>2. g # f
      BY <1>1, <2>6, StagingAssumption DEF Files
    <3>3. tree'[g] = tree[g]
      BY <1>2, <1>4, <3>2 DEF RestoreTypes
    <3> QED
      BY <1>1, <2>1, <3>1, <3>3 DEF Safe, Data, Binding
  <2>7. \E k \in 1 .. NumBlocks : tree'[f] = SubSeq(Data(b, f), 1, k)
    BY <2>2, <2>3
  <2>8. call'[p] \in CallsOf
    BY <1>1, <1>2, <2>1 DEF ProcInv
  <2>10. \E k \in 1 .. NumBlocks :
           tree'[index'[p]] = SubSeq(Data(Binding(p), index[p])', 1, k)
    BY <2>1, <2>5, <2>7, <1>1 DEF Data, Binding
  <2>11. ProcInv(p)'
    BY <1>1, <1>2, <2>5, <2>6, <2>8, <2>10 DEF ProcInv, Writing, HasCertified, RestoreDirs
  <2>12. Others(p)
    BY <1>1, <1>2, <2>1 DEF RestoreTypes, Others
  <2>13. CopiesBlock(p)
    BY <1>1, <1>2, <1>4 DEF CopiesBlock
  <2> QED
    BY <1>1, <2>1, <2>4, <2>11, <2>12, <2>13 DEF Effect, Tree, Files1, Answers
<1> QED
  BY <1>3, <1>4 DEF Copy

LEMMA FlushEffect ==
  ASSUME RestoreInv, NEW p \in Procs, Flush(p)
  PROVE  Effect(p)
<1> DEFINE f == index[p]
           b == Binding(p)
<1>1. /\ pc[p] = "flush" /\ pc' = [pc EXCEPT ![p] = "copy"]
      /\ synced' = [synced EXCEPT ![f] = Len(tree[f])]
      /\ index' = [index EXCEPT ![p] = IF Len(tree[f]) = NumBlocks THEN f + 1 ELSE f]
      /\ UNCHANGED <<call, job, result, stageLock, tree, links, file, powerLost>>
  BY DEF Flush, Goto, dirVars, boundVars
<1>2. /\ RestoreTypes /\ ProcInv(p) /\ stageLock = {p} /\ b \in Bindings
      /\ Dir(p) \in RestoreDirs /\ f \in Files
  BY <1>1 DEF RestoreInv, ProcInv, CallsOf, Binding
<1>3. PICK k \in 1 .. NumBlocks : tree[f] = SubSeq(Data(b, f), 1, k)
  BY <1>1, <1>2 DEF ProcInv
<1>4. f \in Nat /\ Len(tree[f]) \in Nat
  BY <1>2, StagingAssumption DEF RestoreTypes, Files
<1>5. RestoreTypes'
  <2>1. synced' \in [Files -> Nat] /\ index' \in [Procs -> Nat]
    BY <1>1, <1>2, <1>4 DEF RestoreTypes
  <2> QED
    BY <1>1, <1>2, <2>1 DEF RestoreTypes, Points
<1>6. ASSUME Len(tree[f]) = NumBlocks
      PROVE  tree[f] = Data(b, f) /\ synced'[f] = NumBlocks
  <2>1. /\ Data(b, f) \in Seq(Blocks) /\ Len(Data(b, f)) = NumBlocks
        /\ NumBlocks \in Nat \ {0}
    BY <1>2, DataType
  <2>2. Len(SubSeq(Data(b, f), 1, k)) = k
    <3>1. k \in Nat /\ 1 <= k /\ k <= Len(Data(b, f))
      BY <2>1
    <3> QED
      BY <2>1, <3>1
  <2>3. SubSeq(Data(b, f), 1, NumBlocks) = Data(b, f)
    BY <2>1, SubSeqFull
  <2>4. k = NumBlocks
    BY <1>3, <1>6, <2>2
  <2> QED
    BY <1>1, <1>2, <1>3, <1>6, <2>3, <2>4 DEF RestoreTypes
<1>7. ASSUME NEW g \in Files, g < index'[p]
      PROVE  Safe(Binding(p), g)'
  <2>1. CASE g < f
    <3>1. Safe(b, g) /\ g # f
      BY <1>1, <1>2, <1>4, <2>1 DEF ProcInv
    <3>2. synced'[g] = synced[g]
      BY <1>1, <1>2, <3>1 DEF RestoreTypes
    <3> QED
      BY <1>1, <3>1, <3>2 DEF Safe, Data, Binding
  <2>2. CASE ~(g < f)
    <3>1. index'[p] = IF Len(tree[f]) = NumBlocks THEN f + 1 ELSE f
      BY <1>1, <1>2 DEF RestoreTypes
    <3>2. g \in Nat
      BY StagingAssumption DEF Files
    <3>3. g = f /\ Len(tree[f]) = NumBlocks
      BY <1>4, <1>7, <2>2, <3>1, <3>2
    <3> QED
      BY <1>1, <1>6, <3>3 DEF Safe, Data, Binding
  <2> QED
    BY <2>1, <2>2
<1>8. ProcInv(p)'
  <2>1. pc'[p] = "copy" /\ Dir(p)' = Dir(p) /\ call'[p] \in CallsOf
    BY <1>1, <1>2 DEF RestoreTypes, ProcInv, Dir
  <2> QED
    BY <1>1, <1>2, <1>7, <2>1 DEF ProcInv, Writing, HasCertified, RestoreDirs
<1>9. Others(p)
  BY <1>1, <1>2 DEF RestoreTypes, Others
<1>10. SyncsFile
  BY <1>1, <1>2 DEF SyncsFile
<1> QED
  BY <1>1, <1>5, <1>8, <1>9, <1>10 DEF Effect, Tree, Files1, Answers

LEMMA CertifyEffect ==
  ASSUME RestoreInv, NEW p \in Procs, Certify(p)
  PROVE  Effect(p)
<1>1. /\ pc[p] = "copy" /\ index[p] = NumFiles + 1 /\ Quits(p)
      /\ UNCHANGED <<stageLock, index, tree, synced, links, file, powerLost>>
  BY StaysQuits DEF Certify, boundVars, treeVars
<1>2. CASE Raise(p)
  BY <1>1, <1>2, RaiseEffect
<1>3. CASE /\ Whole(Binding(p))
           /\ Goto(p, "complete") \/ Write(p, Completed, Binding(p), "complete")
  <2>1. Solid(Binding(p)) /\ Dir(p) \in RestoreDirs
    BY <1>1, StagingAssumption DEF RestoreInv, ProcInv, Files, Solid
  <2>2. Certified(p)
    BY <1>3, <2>1 DEF Certified, RestoreDirs
  <2>3. CASE Goto(p, "complete")
    BY <1>1, <2>2, <2>3, GotoEffect DEF Goto
  <2>4. CASE Write(p, Completed, Binding(p), "complete")
    BY <1>1, <2>2, <2>4, WriteEffect
  <2> QED
    BY <1>3, <2>3, <2>4
<1> QED
  BY <1>2, <1>3 DEF Certify

LEMMA OpenLinksEffect ==
  ASSUME RestoreInv, NEW p \in Procs, OpenLinks(p)
  PROVE  Effect(p)
<1>1. /\ pc[p] = "open" /\ Quits(p)
      /\ UNCHANGED <<tree, synced, links, file, powerLost>>
  BY LeavesQuits DEF OpenLinks, boundVars, treeVars
<1>2. Dir(p) \in LinkDirs /\ Dir(p) \notin RestoreDirs
  BY <1>1 DEF OpenLinks, Restores, RestoreDirs, RestoreInv, ProcInv, CallsOf, Dir
<1>3. CASE Raise(p)
  BY <1>1, <1>3, RaiseEffect
<1>4. CASE Replayable(p) /\ End(p, "pass")
  <2>1. Certified(p)
    BY <1>2, <1>4 DEF Certified, Replayable, Reverified
  <2> QED
    BY <1>1, <1>4, <2>1, EndEffect
<1>5. CASE Reverified(p) /\ Goto(p, "link")
  BY <1>1, <1>2, <1>5, GotoEffect DEF Goto, Reverified, Quits
<1> QED
  BY <1>3, <1>4, <1>5 DEF OpenLinks

LEMMA PlaceLinkEffect ==
  ASSUME RestoreInv, NEW p \in Procs, PlaceLink(p)
  PROVE  Effect(p)
<1>1. /\ pc[p] = "link" /\ index[p] \in Links
      /\ links' = links \cup {index[p]}
      /\ index' = [index EXCEPT ![p] = @ + 1]
      /\ UNCHANGED <<pc, call, job, result, stageLock, tree, synced, file, powerLost>>
  BY DEF PlaceLink, dirVars, procVars, boundVars
<1>2. RestoreTypes /\ ProcInv(p)
  BY DEF RestoreInv
<1>3. RestoreTypes'
  BY <1>1, <1>2 DEF RestoreTypes
<1>4. Dir(p)' = Dir(p) /\ Whole(Binding(p))' = Whole(Binding(p))
  BY <1>1 DEF Dir, Binding, Whole, Data
<1>5. ProcInv(p)'
  BY <1>1, <1>2, <1>4 DEF ProcInv, Writing, HasCertified
<1>6. Others(p)
  BY <1>1, <1>2 DEF RestoreTypes, Others
<1>7. MakesLink(p)
  BY <1>1 DEF MakesLink
<1> QED
  BY <1>1, <1>3, <1>5, <1>6, <1>7 DEF Effect, Tree, Files1, Answers

LEMMA CertifyLinksEffect ==
  ASSUME RestoreInv, NEW p \in Procs, CertifyLinks(p)
  PROVE  Effect(p)
<1>1. /\ pc[p] = "link" /\ Quits(p)
  BY StaysQuits DEF CertifyLinks, boundVars, treeVars
<1>2. CASE Raise(p)
  BY <1>1, <1>2, RaiseEffect
<1>3. CASE /\ Reverified(p) /\ links = Links
           /\ Write(p, Completed, Binding(p), "complete")
  <2>1. Dir(p) \in LinkDirs /\ Dir(p) \notin RestoreDirs
    BY <1>1 DEF RestoreInv, ProcInv, RestoreDirs
  <2>2. Certified(p)
    BY <1>3, <2>1 DEF Certified, Reverified
  <2> QED
    BY <1>1, <1>3, <2>2, WriteEffect
<1> QED
  BY <1>2, <1>3 DEF CertifyLinks

LEMMA StopsEffect ==
  ASSUME RestoreInv, NEW p \in Procs, Stops(p)
  PROVE  Effect(p)
<1>1. pc[p] # "idle" /\ Quits(p)
  BY LeavesQuits DEF Stops, Fails, Killed, treeVars
<1>2. CASE End(p, "none")
  BY <1>1, <1>2, EndEffect
<1>3. CASE Raise(p)
  BY <1>1, <1>3, RaiseEffect
<1> QED
  BY <1>2, <1>3 DEF Stops, Fails, Killed

\* Whatever a process does, it is one of these effects.
LEMMA StepEffect ==
  ASSUME RestoreInv, NEW p \in Procs, Call(p) \/ Step(p) \/ Stops(p)
  PROVE  Effect(p)
BY CallEffect, ClaimStepEffect, BeginEffect, LockStageEffect, CompleteEffect,
   OpenFilesEffect, CopyEffect, FlushEffect, CertifyEffect, OpenLinksEffect,
   PlaceLinkEffect, CertifyLinksEffect, StopsEffect
   DEF Step

-----------------------------------------------------------------------------
(* What the effects keep.                                                  *)

\* A file that holds the data of a package is left as it is, and safe.
LEMMA FileKept ==
  ASSUME RestoreInv, NEW p \in Procs, Tree(p), NEW b \in Bindings, NEW f \in Files,
         tree[f] = Data(b, f)
  PROVE  tree'[f] = Data(b, f) /\ (Safe(b, f) => Safe(b, f)')
<1>1. RestoreTypes
  BY DEF RestoreInv
<1>2. Data(b, f)' = Data(b, f)
  BY DEF Data
<1>3. CASE UNCHANGED <<tree, synced, links>> \/ MakesLink(p)
  BY <1>2, <1>3 DEF MakesLink, Safe
<1>4. CASE CopiesBlock(p)
  <2>1. tree'[f] = Data(b, f)
    BY <1>1, <1>4, Extension DEF CopiesBlock, RestoreTypes
  <2> QED
    BY <1>2, <1>4, <2>1 DEF CopiesBlock, Safe
<1>5. CASE SyncsFile
  <2>1. PICK g \in Files : synced' = [synced EXCEPT ![g] = Len(tree[g])]
    BY <1>5 DEF SyncsFile
  <2>2. Len(tree[f]) = NumBlocks
    BY DataType
  <2>3. synced'[f] \in {synced[f], NumBlocks}
    BY <1>1, <2>1, <2>2 DEF RestoreTypes
  <2> QED
    BY <1>2, <1>5, <2>3 DEF SyncsFile, Safe
<1> QED
  BY <1>3, <1>4, <1>5 DEF Tree

LEMMA TreeKept ==
  ASSUME RestoreInv, NEW p \in Procs, Tree(p), NEW b \in Bindings
  PROVE  /\ Whole(b) => Whole(b)'
         /\ Solid(b) => Solid(b)'
         /\ links = Links => links' = Links
<1>1. ASSUME Whole(b)
      PROVE  Whole(b)'
  <2>1. \A f \in Files : tree'[f] = Data(b, f)
    BY <1>1, FileKept DEF Whole
  <2> QED
    BY <2>1 DEF Whole, Data
<1>2. ASSUME Solid(b)
      PROVE  Solid(b)'
  <2>1. ASSUME NEW f \in Files
        PROVE  Safe(b, f)'
    <3>1. Safe(b, f) /\ tree[f] = Data(b, f)
      BY <1>2 DEF Solid, Safe
    <3> QED
      BY <3>1, FileKept
  <2> QED
    BY <2>1 DEF Solid
<1>3. links = Links => links' = Links
  BY DEF Tree, CopiesBlock, SyncsFile, MakesLink
<1> QED
  BY <1>1, <1>2, <1>3

LEMMA CertifiedStays ==
  ASSUME RestoreInv, NEW p \in Procs, Tree(p), NEW q \in Procs, call'[q] = call[q],
         call[q] \in CallsOf, Certified(q)
  PROVE  Certified(q)'
<1> DEFINE b == Binding(q)
<1>1. b \in Bindings /\ Dir(q)' = Dir(q) /\ Binding(q)' = b
  BY DEF Binding, Dir, CallsOf
<1>2. Whole(b)' /\ (Solid(b) => Solid(b)') /\ (links = Links => links' = Links)
  BY <1>1, TreeKept DEF Certified
<1>3. Whole(Binding(q))' /\ (Solid(b) => Solid(Binding(q))')
  BY <1>1, <1>2 DEF Whole, Solid, Safe, Data
<1> QED
  BY <1>1, <1>2, <1>3 DEF Certified, RestoreDirs, Links

\* The lock of the staging keeps every other copy apart.
LEMMA OthersKept ==
  ASSUME RestoreInv, NEW p \in Procs, Effect(p), NEW q \in Procs, q # p
  PROVE  ProcInv(q)'
<1>1. ProcInv(q)
  BY DEF RestoreInv
<1>2. /\ pc'[q] = pc[q] /\ call'[q] = call[q] /\ job'[q] = job[q]
      /\ index'[q] = index[q] /\ Tree(p)
  BY DEF Effect, Others
<1>3. Dir(q)' = Dir(q) /\ Binding(q)' = Binding(q)
  BY <1>2 DEF Dir, Binding
<1>4. CASE pc[q] = "idle"
  BY <1>1, <1>2, <1>4 DEF ProcInv, Writing, HasCertified
<1>5. CASE pc[q] # "idle"
  <2>1. call[q] \in CallsOf /\ Binding(q) \in Bindings
    BY <1>1, <1>5 DEF ProcInv, CallsOf, Binding
  <2>2. Writing(q)' => JobOf(q)'
    BY <1>1, <1>2, <1>3 DEF ProcInv, Writing, JobOf
  <2>3. pc[q] \in {"open", "copy", "flush"} => stageLock = {q} /\ stageLock' = {q}
    BY <1>1 DEF ProcInv, Effect, Others
  <2>4. ASSUME pc[q] \in {"copy", "flush"}, NEW f \in Files, f < index[q]
        PROVE  Safe(Binding(q), f)'
    <3>1. Safe(Binding(q), f) /\ tree[f] = Data(Binding(q), f)
      BY <1>1, <2>4 DEF ProcInv, Safe
    <3>2. PICK b \in Bindings : b = Binding(q)
      BY <2>1
    <3>3. Safe(b, f)'
      BY <1>2, <3>1, <3>2, FileKept
    <3> QED
      BY <1>3, <3>2, <3>3 DEF Safe, Data
  <2>5. ASSUME pc[q] = "flush"
        PROVE  \E k \in 1 .. NumBlocks :
                 tree'[index'[q]] = SubSeq(Data(Binding(q), index[q])', 1, k)
    <3>1. tree' = tree
      BY <1>2, <2>3, <2>5 DEF Tree, CopiesBlock, SyncsFile, MakesLink
    <3> QED
      BY <1>1, <1>2, <1>3, <2>5, <3>1 DEF ProcInv, Data
  <2>6. ASSUME pc[q] = "link"
        PROVE  Whole(Binding(q))'
    <3>1. PICK b \in Bindings : b = Binding(q)
      BY <2>1
    <3>2. Whole(b)
      BY <1>1, <2>6, <3>1 DEF ProcInv
    <3>3. Whole(b)'
      BY <1>2, <3>2, TreeKept
    <3> QED
      BY <1>3, <3>1, <3>3 DEF Whole, Data
  <2>7. HasCertified(q)' => Certified(q)'
    <3>1. HasCertified(q)' => HasCertified(q)
      BY <1>2 DEF HasCertified, Writing
    <3> QED
      BY <1>1, <1>2, <2>1, <3>1, CertifiedStays DEF ProcInv
  <2> QED
    BY <1>1, <1>2, <1>3, <2>1, <2>2, <2>3, <2>4, <2>5, <2>6, <2>7
       DEF ProcInv, RestoreDirs
<1> QED
  BY <1>4, <1>5

LEMMA TreeStep ==
  ASSUME RestoreInv, NEW p \in Procs, Effect(p)
  PROVE  TreeInv'
<1>1. /\ RestoreTypes /\ ReceiptsSolid /\ LinksOnWholeTree /\ LinkReceiptTrue
      /\ ProcInv(p) /\ Tree(p) /\ Files1(p) /\ powerLost' = powerLost
  BY DEF RestoreInv, TreeInv, Effect
<1>2. HasCertified(p) \/ pc[p] = "link" => call[p] \in CallsOf
  BY <1>1 DEF ProcInv, HasCertified, Writing
<1>3. ASSUME NEW d \in RestoreDirs, NEW b \in Bindings, file'[d][Completed] = b,
             ~powerLost'
      PROVE  Solid(b)'
  <2>1. Solid(b)
    BY <1>1, <1>3 DEF RestoreDirs, ReceiptsSolid, Files1, ProcInv, Certified
  <2> QED
    BY <1>1, <2>1, TreeKept
<1>4. ASSUME links' # {}, ~powerLost'
      PROVE  \E b \in Bindings : Whole(b)'
  <2>1. CASE links # {}
    <3>1. PICK b \in Bindings : Whole(b)
      BY <1>1, <1>4, <2>1 DEF LinksOnWholeTree
    <3> QED
      BY <1>1, <3>1, TreeKept
  <2>2. CASE links = {}
    <3>1. pc[p] = "link"
      BY <1>1, <1>4, <2>2 DEF Tree, CopiesBlock, SyncsFile, MakesLink
    <3> DEFINE b == Binding(p)
    <3>2. b \in Bindings /\ Whole(b)
      BY <1>1, <1>2, <3>1 DEF ProcInv, CallsOf, Binding
    <3> HIDE DEF b
    <3> QED
      BY <1>1, <3>2, TreeKept
  <2> QED
    BY <2>1, <2>2
<1>5. ASSUME NEW d \in LinkDirs, NEW b \in Bindings, file'[d][Completed] = b, ~powerLost'
      PROVE  Whole(b)' /\ links' = Links
  <2>1. d \in Dirs
    BY StagingAssumption
  <2>2. Whole(b) /\ links = Links
    BY <1>1, <1>5, <2>1 DEF LinkReceiptTrue, Files1, ProcInv, Certified
  <2> QED
    BY <1>1, <2>2, TreeKept
<1>6. ReceiptsSolid'
  BY <1>3 DEF ReceiptsSolid, RestoreDirs
<1>7. LinksOnWholeTree'
  BY <1>4 DEF LinksOnWholeTree
<1>8. LinkReceiptTrue'
  BY <1>5 DEF LinkReceiptTrue, Links
<1> QED
  BY <1>6, <1>7, <1>8 DEF TreeInv

LEMMA EffectKeeps ==
  ASSUME RestoreInv, NEW p \in Procs, Effect(p)
  PROVE  RestoreInv'
<1>1. \A q \in Procs : ProcInv(q)'
  BY OthersKept DEF Effect
<1> QED
  BY <1>1, TreeStep DEF Effect, RestoreInv

\* What a loss of power leaves of a file: nothing, all, or a part of it; and no
\* part of a file that is safe.
LEMMA SurvivorFacts ==
  ASSUME NEW f \in Files, tree[f] \in Seq(Blocks), synced[f] \in Nat,
         NEW t \in Survivors(f)
  PROVE  /\ t \in Seq(Blocks)
         /\ Len(t) \in Nat /\ Len(t) <= Len(tree[f])
         /\ synced[f] = Len(tree[f]) => t \in {<<>>, tree[f]}
<1>1. <<>> \in Seq(Blocks) /\ Len(<<>>) = 0 /\ Len(tree[f]) \in Nat
  OBVIOUS
<1>2. CASE t \in {<<>>, tree[f]}
  <2>1. CASE t = <<>>
    BY <1>1, <2>1
  <2>2. CASE t = tree[f]
    BY <1>1, <2>2
  <2> QED
    BY <1>2, <2>1, <2>2
<1>3. CASE t \notin {<<>>, tree[f]}
  <2>1. PICK n \in {synced[f]} \cap 0 .. Len(tree[f]) - 1, junk \in {<<>>, <<"bad">>} :
          t = SubSeq(tree[f], 1, n) \o junk
    BY <1>3 DEF Survivors
  <2>2. n \in Nat /\ n = synced[f] /\ n < Len(tree[f])
    BY <1>1, <2>1
  <2> DEFINE s == SubSeq(tree[f], 1, n)
  <2>3. s \in Seq(Blocks) /\ Len(s) = n
    <3>1. \A i \in 1 .. n : tree[f][i] \in Blocks
      BY <1>1, <2>2
    <3> QED
      BY <1>1, <2>2, <3>1, SubSeqProperties
  <2>4. junk \in Seq(Blocks) /\ Len(junk) \in Nat /\ Len(junk) <= 1
    <3>1. CASE junk = <<>>
      BY <3>1
    <3>2. CASE junk = <<"bad">>
      BY <3>2 DEF Blocks
    <3> QED
      BY <3>1, <3>2
  <2> HIDE DEF s
  <2>5. s \o junk \in Seq(Blocks) /\ Len(s \o junk) = n + Len(junk)
    BY <2>3, <2>4
  <2>6. t = s \o junk
    BY <2>1 DEF s
  <2> QED
    BY <1>1, <2>2, <2>4, <2>5, <2>6
<1> QED
  BY <1>2, <1>3

LEMMA LossTree ==
  ASSUME RestoreTypes, PowerFails
  PROVE  /\ tree' \in [Files -> Seq(Blocks)]
         /\ \A f \in Files :
              /\ Len(tree'[f]) \in Nat /\ Len(tree'[f]) <= Len(tree[f])
              /\ synced[f] = Len(tree[f]) => tree'[f] \in {<<>>, tree[f]}
<1>1. \A f \in Files : tree[f] \in Seq(Blocks) /\ synced[f] \in Nat
  BY DEF RestoreTypes
<1>2. DOMAIN tree' = Files /\ tree' = [f \in Files |-> tree'[f]]
      /\ \A f \in Files : tree'[f] \in Survivors(f)
  <2>1. CASE StagingDamaged
    BY <2>1 DEF StagingDamaged
  <2>2. CASE StagingGone
    BY <2>2 DEF StagingGone, Survivors
  <2> QED
    BY <2>1, <2>2 DEF PowerFails
<1>3. ASSUME NEW f \in Files
      PROVE  /\ tree'[f] \in Seq(Blocks)
             /\ Len(tree'[f]) \in Nat /\ Len(tree'[f]) <= Len(tree[f])
             /\ synced[f] = Len(tree[f]) => tree'[f] \in {<<>>, tree[f]}
  <2> DEFINE t == tree'[f]
  <2>1. t \in Survivors(f)
    BY <1>2
  <2> HIDE DEF t
  <2>2. /\ t \in Seq(Blocks) /\ Len(t) \in Nat /\ Len(t) <= Len(tree[f])
        /\ synced[f] = Len(tree[f]) => t \in {<<>>, tree[f]}
    BY <1>1, <2>1, SurvivorFacts
  <2> QED
    BY <2>2 DEF t
<1> QED
  BY <1>2, <1>3

\* A loss of power ends every call, so that nothing is certified any more.
LEMMA LossKeeps ==
  ASSUME RestoreInv, PowerFails
  PROVE  RestoreInv'
<1>1. RestoreTypes
  BY DEF RestoreInv
<1>2. PICK gone \in SUBSET unsynced, as \in {"torn", "bad"} :
        file' = [d \in Dirs |->
                   [n \in Names |->
                      IF <<d, n>> \notin gone THEN file[d][n]
                        ELSE IF n \in Sized THEN as ELSE "torn"]]
  BY DEF PowerFails, PowerLoss
<1>3. /\ powerLost' = TRUE /\ pc' = [p \in Procs |-> "idle"]
      /\ call' = [p \in Procs |-> NoCall] /\ job' = [p \in Procs |-> NoJob]
      /\ result' = [p \in Procs |-> "none"] /\ index' = [p \in Procs |-> 1]
      /\ synced' = [f \in Files |-> Len(tree'[f])]
  BY DEF PowerFails, PowerLoss
<1>4. file' \in [Dirs -> [Names -> States]]
  BY <1>1, <1>2 DEF RestoreTypes, States
<1>5. RestoreTypes'
  <2>1. tree' \in [Files -> Seq(Blocks)] /\ \A f \in Files : Len(tree'[f]) \in Nat
    BY <1>1, LossTree
  <2>2. synced' \in [Files -> Nat]
    BY <1>3, <2>1
  <2> QED
    BY <1>3, <1>4, <2>1, <2>2 DEF RestoreTypes, Points
<1>6. \A p \in Procs : ProcInv(p)'
  BY <1>3 DEF ProcInv, Writing, HasCertified
<1>7. TreeInv'
  BY <1>3 DEF TreeInv, ReceiptsSolid, LinksOnWholeTree, LinkReceiptTrue
<1> QED
  BY <1>5, <1>6, <1>7 DEF RestoreInv

-----------------------------------------------------------------------------
LEMMA RestoreInit == Init => RestoreInv
<1> SUFFICES ASSUME Init
             PROVE  RestoreInv
  OBVIOUS
<1>1. RestoreTypes
  <2>1. file \in [Dirs -> [Names -> States]]
    BY ContentFacts DEF Init, ClaimInit
  <2>2. tree \in [Files -> Seq(Blocks)] /\ synced \in [Files -> Nat]
    BY DEF Init
  <2>3. pc \in [Procs -> Points] /\ call \in [Procs -> CallsOf \cup {NoCall}]
    BY DEF Init, ClaimInit, Points
  <2>4. DOMAIN job = Procs /\ DOMAIN result = Procs /\ index \in [Procs -> Nat]
    BY DEF Init, ClaimInit
  <2> QED
    BY <2>1, <2>2, <2>3, <2>4 DEF RestoreTypes
<1>2. \A p \in Procs : pc[p] = "idle"
  BY DEF Init, ClaimInit
<1>3. \A p \in Procs : ProcInv(p)
  BY <1>2 DEF ProcInv, Writing, HasCertified
<1>4. \A d \in Dirs : file[d][Completed] \notin Bindings
  BY NameFacts, ContentFacts DEF Init, ClaimInit
<1>5. TreeInv
  BY <1>4, StagingAssumption
     DEF Init, TreeInv, ReceiptsSolid, LinksOnWholeTree, LinkReceiptTrue, RestoreDirs
<1> QED
  BY <1>1, <1>3, <1>5 DEF RestoreInv

LEMMA RestoreStutter ==
  ASSUME RestoreInv, UNCHANGED vars
  PROVE  RestoreInv'
<1> USE DEF vars, dirVars, procVars, boundVars, treeVars
<1>1. RestoreTypes'
  BY DEF RestoreInv, RestoreTypes
<1>2. ASSUME NEW p \in Procs
      PROVE  ProcInv(p)'
  BY DEF RestoreInv, ProcInv, Writing, JobOf, HasCertified, Certified, Whole, Solid,
         Safe, Dir, Binding
<1>3. TreeInv'
  BY DEF RestoreInv, TreeInv, ReceiptsSolid, LinksOnWholeTree, LinkReceiptTrue, Whole,
         Solid, Safe
<1> QED
  BY <1>1, <1>2, <1>3 DEF RestoreInv

LEMMA StepOrLoss ==
  ASSUME RestoreInv, Next
  PROVE  (\E p \in Procs : Effect(p)) \/ PowerFails
BY StepEffect DEF Next

LEMMA RestoreInvariant == Spec => []RestoreInv
<1>1. RestoreInv /\ [Next]_vars => RestoreInv'
  BY StepOrLoss, EffectKeeps, LossKeeps, RestoreStutter
<1> QED
  BY <1>1, RestoreInit, PTL DEF Spec

\* A loss of power completes no restore.
LEMMA LossReceipts ==
  ASSUME PowerFails, NEW d \in RestoreDirs, NEW b \in Bindings, file'[d][Completed] = b
  PROVE  file[d][Completed] = b
<1>1. PICK gone \in SUBSET unsynced, as \in {"torn", "bad"} :
        file' = [e \in Dirs |->
                   [n \in Names |->
                      IF <<e, n>> \notin gone THEN file[e][n]
                        ELSE IF n \in Sized THEN as ELSE "torn"]]
  BY DEF PowerFails, PowerLoss
<1>2. d \in Dirs /\ b \notin {"torn", "bad"}
  BY ContentAssumption DEF RestoreDirs
<1>3. file'[d][Completed] \in {file[d][Completed], "torn", "bad"}
  BY <1>1, <1>2, NameFacts
<1> QED
  BY <1>2, <1>3

\* RestoreReceiptTrue: a restore gets its completion receipt only when every file
\* of its package is in the staging, also after a loss of power.  As long as the
\* power stays on they all stay, whichever other package or link policy is
\* restored there; a loss of power leaves each of them whole or takes it away.
THEOREM ReceiptsStayTrue == Spec => RestoreReceiptTrue
<1> DEFINE
      True1(d, b) ==
        /\ file[d][Completed] # b /\ file'[d][Completed] = b => Whole(b)
        /\ file[d][Completed] = b /\ ~powerLost =>
             /\ Whole(b)
             /\ powerLost' => \A f \in Files : tree'[f] \in {<<>>, Data(b, f)}
<1>1. ASSUME RestoreInv, Next, NEW d \in RestoreDirs, NEW b \in Bindings,
             file[d][Completed] # b, file'[d][Completed] = b
      PROVE  Whole(b)
  <2>1. CASE PowerFails
    BY <1>1, <2>1, LossReceipts
  <2>2. ASSUME NEW p \in Procs, Effect(p)
        PROVE  Whole(b)
    BY <1>1, <2>2 DEF RestoreDirs, RestoreInv, Effect, Files1, ProcInv, Certified
  <2> QED
    BY <1>1, <2>1, <2>2, StepOrLoss
<1>2. ASSUME RestoreInv, NEW d \in RestoreDirs, NEW b \in Bindings,
             file[d][Completed] = b, ~powerLost
      PROVE  Solid(b) /\ Whole(b)
  BY <1>2 DEF RestoreInv, TreeInv, ReceiptsSolid, Solid, Safe, Whole
<1>3. ASSUME RestoreInv, Next, ~powerLost, powerLost', NEW b \in Bindings, Solid(b),
             NEW f \in Files
      PROVE  tree'[f] \in {<<>>, Data(b, f)}
  <2>1. PowerFails
    BY <1>3, StepOrLoss DEF Effect
  <2>2. tree[f] = Data(b, f) /\ synced[f] = Len(tree[f])
    BY <1>3, DataType DEF Solid, Safe
  <2> QED
    BY <1>3, <2>1, <2>2, LossTree DEF RestoreInv
<1>4. RestoreInv /\ [Next]_vars =>
        [\A d \in RestoreDirs, b \in Bindings : True1(d, b)]_vars
  BY <1>1, <1>2, <1>3
<1> QED
  BY <1>4, RestoreInvariant, PTL DEF Spec, RestoreReceiptTrue

\* LinksOnWholeTree: as long as the power stays on, links exist only beside all
\* the files of one package.
THEOREM LinkedTreeWhole == Spec => []LinksOnWholeTree
<1>1. RestoreInv => LinksOnWholeTree
  BY DEF RestoreInv, TreeInv
<1> QED
  BY <1>1, RestoreInvariant, PTL

\* LinkReceiptTrue: as long as the power stays on, the completion receipt of the
\* links stands for every link and every file.
THEOREM LinkReceiptsStayTrue == Spec => []LinkReceiptTrue
<1>1. RestoreInv => LinkReceiptTrue
  BY DEF RestoreInv, TreeInv
<1> QED
  BY <1>1, RestoreInvariant, PTL

\* AnswersFromTree: a call that returns has the whole package in the staging at
\* that moment, and every link if it restores links, after losses of power too.
THEOREM AnswersAreTrue == Spec => AnswersFromTree
<1> DEFINE True1(p) ==
      result[p] # "pass" /\ result'[p] = "pass" =>
        Whole(Binding(p)) /\ (Dir(p) \in LinkDirs => links = Links)
<1>1. ASSUME RestoreInv, Next, NEW p \in Procs
      PROVE  True1(p)
  <2>1. CASE PowerFails
    BY <2>1 DEF PowerFails, PowerLoss
  <2>2. ASSUME NEW q \in Procs, Effect(q)
        PROVE  True1(p)
    <3>1. CASE q = p
      BY <2>2, <3>1 DEF Effect, Answers, Certified
    <3>2. CASE q # p
      BY <2>2, <3>2 DEF Effect, Others
    <3> QED
      BY <3>1, <3>2
  <2> QED
    BY <1>1, <2>1, <2>2, StepOrLoss
<1>2. RestoreInv /\ [Next]_vars => [\A p \in Procs : True1(p)]_vars
  BY <1>1
<1> QED
  BY <1>2, RestoreInvariant, PTL DEF Spec, AnswersFromTree

-----------------------------------------------------------------------------
(* Types.  What a call writes has a name, and its receipt a number, as a   *)
(* call begins only while there are fewer than MaxAttempts and leaves one  *)
(* at most.                                                                *)

Jobs == [name : Names, content : Contents, then : Points \cup {"pass", "raised"}]

\* A call that has no number yet.
Early(p) ==
  \/ pc[p] \in {"idle", "mkdir", "lock", "claim", "begin"}
  \/ Writing(p) /\ job[p].then = "begin"

\* What is known of a process at each of its control points.
Control(p) ==
  /\ attempt[p] = NoAttempt <=> Early(p)
  /\ IF Writing(p) THEN job[p].content = "receipt" => job[p].name = Receipt(attempt[p])
                   ELSE job[p] = NoJob
  /\ \A d \in Dirs : p \in lock[d] =>
       Dir(p) = d /\ pc[p] \notin {"idle", "mkdir", "lock"}
  /\ p \in stageLock => ~Early(p) /\ pc[p] # "stage"

ControlTypes ==
  /\ attempt \in [Procs -> 0 .. NoAttempt] /\ job \in [Procs -> Jobs]
  /\ result \in [Procs -> {"none", "pass"}]
  /\ lock \in [Dirs -> SUBSET Procs] /\ stageLock \subseteq Procs

\* The receipts that exist, and the calls that have not left theirs.
Left == {r \in Dirs \X Receipts : Exists(r[1], r[2])}
Unspent == {p \in Procs : /\ pc[p] # "idle"
                          /\ attempt[p] # NoAttempt => ~Present(p, Receipt(attempt[p]))}

Counted == Cardinality(Left) + Cardinality(Unspent) <= MaxAttempts + Cardinality(Procs)

DataTypes ==
  /\ made \subseteq Dirs /\ unsynced \subseteq {u \in Dirs \X Names : Exists(u[1], u[2])}
  /\ faults \in 0 .. MaxFaults /\ powerLost \in BOOLEAN /\ staged \in BOOLEAN
  /\ links \subseteq Links /\ index \in [Procs -> 1 .. NumFiles + NumLinks + 1]

Lengths == \A f \in Files : Len(tree[f]) <= NumBlocks /\ synced[f] <= Len(tree[f])

TypeInv ==
  /\ ControlTypes /\ DataTypes /\ Lengths /\ Counted
  /\ \A p \in Procs : Control(p)

Slots == 0 .. MaxAttempts + Cardinality(Procs)

LEMMA SlotFacts ==
  /\ Cardinality(Procs) \in Nat /\ NoAttempt \in Nat /\ MaxAttempts \in Nat
  /\ NoAttempt = MaxAttempts + Cardinality(Procs) + 1
  /\ \A n \in 0 .. NoAttempt : n # NoAttempt => Receipt(n) \in Receipts
  /\ Receipts \subseteq Names /\ Receipts \cap {Claim, Completed} = {}
  /\ Names = {Claim, Completed} \cup Receipts
  /\ IsFiniteSet(Receipts)
<1>1. Cardinality(Procs) \in Nat /\ MaxAttempts \in Nat
  BY FS_CardinalityType, FiniteAssumption, BoundAssumption
<1>2. NoAttempt \in Nat /\ Slots = 0 .. NoAttempt - 1
      /\ NoAttempt = MaxAttempts + Cardinality(Procs) + 1
  BY <1>1 DEF NoAttempt, Slots
<1>3. Receipts = {Receipt(n) : n \in Slots}
  BY DEF Receipts, Slots
<1>4. \A n \in 0 .. NoAttempt : n # NoAttempt => n \in Slots
  BY <1>2
<1>5. Names = {Claim, Completed} \cup Receipts
  BY StagingAssumption DEF Names, StateMembers
<1>6. Receipts \cap {Claim, Completed} = {}
  BY <1>3, NameFacts
<1>7. IsFiniteSet(Receipts)
  <2> DEFINE f == [n \in Slots |-> Receipt(n)]
  <2>1. IsFiniteSet(Slots)
    BY <1>2, FS_Interval DEF Slots
  <2>2. f \in Surjection(Slots, Receipts)
    BY <1>3 DEF Surjection
  <2> HIDE DEF f
  <2> QED
    BY <2>1, <2>2, FS_Surjection
<1> QED
  BY <1>1, <1>2, <1>3, <1>4, <1>5, <1>6, <1>7

LEMMA IdleJob == NoJob \in Jobs /\ NoJob.then \notin {"begin", "raised"}
BY NameFacts DEF NoJob, Jobs, Contents, Points

\* What a step of a process does to the control state: its own is as it should
\* be, and the others keep theirs.
ControlStep(p) ==
  /\ ControlTypes' /\ Control(p)'
  /\ \A q \in Procs \ {p} :
       attempt'[q] = attempt[q] /\ \A d \in Dirs : q \in lock'[d] => q \in lock[d]

\* A call under way keeps its directory, and its number once it has one.
SameCall(p) ==
  pc'[p] # "idle" =>
    /\ pc[p] # "idle" /\ Dir(p)' = Dir(p)
    /\ attempt'[p] = attempt[p] \/ attempt[p] = NoAttempt

LEMMA EndControl ==
  ASSUME RestoreInv, TypeInv, NEW p \in Procs, pc[p] # "idle",
         NEW r \in {"none", "pass"}, End(p, r), stageLock' = stageLock \ {p}
  PROVE  ControlStep(p) /\ SameCall(p)
<1>1. /\ pc \in [Procs -> Points] /\ ControlTypes /\ Dir(p) \in Dirs
      /\ \A d \in Dirs : p \in lock[d] => Dir(p) = d
  BY DEF RestoreInv, RestoreTypes, ProcInv, CallsOf, Dir, TypeInv, Control
<1>2. /\ pc' = [pc EXCEPT ![p] = "idle"] /\ job' = [job EXCEPT ![p] = NoJob]
      /\ attempt' = [attempt EXCEPT ![p] = NoAttempt]
      /\ result' = [result EXCEPT ![p] = r]
      /\ lock' = [lock EXCEPT ![Dir(p)] = @ \ {p}]
  BY DEF End
<1>3. ControlTypes'
  <2>1. NoAttempt \in 0 .. NoAttempt /\ NoJob \in Jobs
    BY SlotFacts, IdleJob
  <2> QED
    BY <1>1, <1>2, <2>1 DEF ControlTypes, Jobs, NoAttempt
<1>4. pc'[p] = "idle" /\ job'[p] = NoJob /\ attempt'[p] = NoAttempt
  BY <1>1, <1>2 DEF ControlTypes
<1>5. \A d \in Dirs : p \notin lock'[d]
  BY <1>1, <1>2 DEF ControlTypes
<1>6. Control(p)'
  BY <1>4, <1>5 DEF Control, Early, Writing, NoJob, NoAttempt
<1>7. \A q \in Procs \ {p} :
        attempt'[q] = attempt[q] /\ \A d \in Dirs : q \in lock'[d] => q \in lock[d]
  BY <1>1, <1>2 DEF ControlTypes
<1> QED
  BY <1>3, <1>4, <1>6, <1>7 DEF ControlStep, SameCall

\* A step to another point, with the write j in progress if there is one.
LEMMA MoveControl ==
  ASSUME RestoreInv, TypeInv, NEW p \in Procs, pc[p] # "idle",
         NEW point \in Points, pc' = [pc EXCEPT ![p] = point],
         NEW j \in Jobs, job' = [job EXCEPT ![p] = j],
         UNCHANGED <<call, attempt, result>>,
         lock' = lock \/ lock' = [lock EXCEPT ![Dir(p)] = {p}],
         point \notin {"idle", "mkdir", "lock"} \/ (pc[p] = "mkdir" /\ lock' = lock),
         stageLock' = stageLock \/ (stageLock' = {p} /\ ~Early(p) /\ point # "stage"),
         point # "stage" \/ p \notin stageLock,
         Early(p) <=> \/ point \in {"idle", "mkdir", "lock", "claim", "begin"}
                      \/ point \in {"create", "fill", "sync"} /\ j.then = "begin",
         IF point \in {"create", "fill", "sync"}
           THEN j.content = "receipt" => j.name = Receipt(attempt[p])
           ELSE j = NoJob,
         point # "idle"
  PROVE  ControlStep(p) /\ SameCall(p)
<1>1. /\ pc \in [Procs -> Points] /\ ControlTypes /\ Control(p) /\ Dir(p) \in Dirs
  BY DEF RestoreInv, RestoreTypes, ProcInv, CallsOf, Dir, TypeInv
<1>2. pc'[p] = point /\ job'[p] = j /\ Dir(p)' = Dir(p) /\ attempt' = attempt
  BY <1>1 DEF ControlTypes, Dir
<1>3. ControlTypes'
  BY <1>1 DEF ControlTypes, Jobs, NoAttempt
<1>4. \A q \in Procs \ {p} : \A d \in Dirs : q \in lock'[d] => q \in lock[d]
  BY <1>1 DEF ControlTypes
<1>5. Writing(p)' <=> point \in {"create", "fill", "sync"}
  BY <1>2 DEF Writing
<1>6. Early(p)' <=> Early(p)
  BY <1>2, <1>5 DEF Early
<1>7. attempt'[p] = NoAttempt' <=> Early(p)'
  BY <1>1, <1>2, <1>6 DEF Control, NoAttempt
<1>8. \A d \in Dirs : p \in lock'[d] =>
        Dir(p)' = d /\ pc'[p] \notin {"idle", "mkdir", "lock"}
  <2>1. ASSUME NEW d \in Dirs, p \in lock'[d]
        PROVE  Dir(p) = d /\ (pc[p] = "mkdir" => lock' # lock)
    BY <1>1, <2>1 DEF Control, ControlTypes
  <2> QED
    BY <1>2, <2>1
<1>9. p \in stageLock' => ~Early(p)' /\ pc'[p] # "stage"
  BY <1>1, <1>2, <1>6 DEF Control
<1>10. IF Writing(p)' THEN job'[p].content = "receipt" => job'[p].name = Receipt(attempt'[p])
                      ELSE job'[p] = NoJob'
  BY <1>2, <1>5 DEF NoJob, Claim
<1>11. Control(p)'
  BY <1>7, <1>8, <1>9, <1>10 DEF Control, Receipt
<1> QED
  BY <1>1, <1>2, <1>3, <1>4, <1>11 DEF ControlStep, SameCall

LEMMA WriteControl ==
  ASSUME RestoreInv, TypeInv, NEW p \in Procs, pc[p] \notin {"idle", "mkdir", "lock"},
         NEW n \in Names, NEW c \in Contents, NEW then, Write(p, n, c, then),
         lock' = lock, stageLock' = stageLock,
         then \in Points \cup {"pass", "raised"}, Early(p) <=> then = "begin",
         c = "receipt" => n = Receipt(attempt[p])
  PROVE  ControlStep(p) /\ SameCall(p)
<1> DEFINE j == [name |-> n, content |-> c, then |-> then]
<1>1. j \in Jobs /\ j.name = n /\ j.content = c /\ j.then = then
  BY DEF Jobs
<1>2. /\ pc' = [pc EXCEPT ![p] = "create"] /\ job' = [job EXCEPT ![p] = j]
      /\ UNCHANGED <<call, attempt, result>>
  BY DEF Write
<1> HIDE DEF j
<1>3. "create" \in Points
  BY DEF Points
<1> QED
  BY <1>1, <1>2, <1>3, MoveControl

\* A failure before or during a write of the call, which leaves the staging as
\* it ends.
LEMMA RaiseControl ==
  ASSUME RestoreInv, TypeInv, NEW p \in Procs, pc[p] \notin {"idle", "mkdir", "lock"},
         Raise(p), stageLock' = IF pc'[p] = "idle" THEN stageLock \ {p} ELSE stageLock
  PROVE  ControlStep(p) /\ SameCall(p)
<1>1. pc \in [Procs -> Points] /\ ControlTypes /\ Control(p)
  BY DEF RestoreInv, RestoreTypes, TypeInv
<1>2. CASE End(p, "none")
  <2>1. pc'[p] = "idle"
    BY <1>1, <1>2 DEF End
  <2> QED
    BY <1>2, <2>1, EndControl
<1>3. CASE /\ Write(p, Receipt(attempt[p]), "receipt", "raised") /\ lock' = lock
           /\ attempt[p] # NoAttempt
  <2> DEFINE n == Receipt(attempt[p])
             c == "receipt"
             then == "raised"
  <2>1. n \in Names /\ c \in Contents
    BY <1>1, <1>3, SlotFacts DEF ControlTypes, Contents
  <2>2. pc'[p] = "create"
    BY <1>1, <1>3 DEF Write
  <2>3. then = "raised" /\ n = Receipt(attempt[p]) /\ ~Early(p)
    BY <1>1, <1>3 DEF Control
  <2>4. Write(p, n, c, then)
    BY <1>3
  <2> HIDE DEF n, c, then
  <2> QED
    BY <1>3, <2>1, <2>2, <2>3, <2>4, WriteControl
<1> QED
  BY <1>2, <1>3 DEF Raise

\* A failure of the adapter itself writes the receipt of its call.
LEMMA RefuseControl ==
  ASSUME RestoreInv, TypeInv, NEW p \in Procs,
         pc[p] \in {"stage", "open", "copy", "link"}, Raise(p), stageLock' = stageLock
  PROVE  ControlStep(p) /\ SameCall(p)
<1>1. pc \in [Procs -> Points] /\ Control(p)
  BY DEF RestoreInv, RestoreTypes, TypeInv
<1>2. ~Early(p) /\ ~Writing(p)
  BY DEF Early, Writing
<1>3. attempt[p] # NoAttempt /\ job[p].then # "raised"
  BY <1>1, <1>2, IdleJob DEF Control
<1>4. pc'[p] = "create"
  BY <1>1, <1>3 DEF Raise, Write
<1> QED
  BY <1>4, RaiseControl

LEMMA GotoControl ==
  ASSUME RestoreInv, TypeInv, NEW p \in Procs, pc[p] # "idle", ~Writing(p),
         NEW point \in Points \ {"idle", "create", "fill", "sync"}, Goto(p, point),
         lock' = lock \/ lock' = [lock EXCEPT ![Dir(p)] = {p}],
         point # "lock" \/ (pc[p] = "mkdir" /\ lock' = lock), point # "mkdir",
         stageLock' = stageLock \/ (stageLock' = {p} /\ ~Early(p) /\ point # "stage"),
         point # "stage",
         pc[p] \in {"mkdir", "lock", "claim", "begin"}
           <=> point \in {"lock", "claim", "begin"}
  PROVE  ControlStep(p) /\ SameCall(p)
<1>1. job \in [Procs -> Jobs] /\ job[p] = NoJob
  BY DEF TypeInv, ControlTypes, Control
<1>2. /\ pc' = [pc EXCEPT ![p] = point] /\ job' = [job EXCEPT ![p] = NoJob]
      /\ UNCHANGED <<call, attempt, result>>
  BY <1>1 DEF Goto
<1>3. Early(p) <=> \/ point \in {"idle", "mkdir", "lock", "claim", "begin"}
                   \/ point \in {"create", "fill", "sync"} /\ NoJob.then = "begin"
  BY DEF Early
<1>4. NoJob \in Jobs
  BY IdleJob
<1> QED
  BY <1>2, <1>3, <1>4, MoveControl

LEMMA LeavesStage ==
  ASSUME RestoreInv, NEW p \in Procs, Leaves(p)
  PROVE  stageLock' = IF pc'[p] = "idle" THEN stageLock \ {p} ELSE stageLock
BY DEF Leaves

LEMMA EndLeaving ==
  ASSUME RestoreInv, TypeInv, NEW p \in Procs, pc[p] # "idle",
         NEW r \in {"none", "pass"}, End(p, r), Leaves(p)
  PROVE  ControlStep(p) /\ SameCall(p)
<1>1. pc'[p] = "idle"
  BY DEF End, RestoreInv, RestoreTypes
<1> QED
  BY <1>1, LeavesStage, EndControl

LEMMA ClaimControl ==
  ASSUME RestoreInv, TypeInv, NEW p \in Procs,
         Mkdir(p) \/ Lock(p) \/ CheckClaim(p), Leaves(p)
  PROVE  ControlStep(p) /\ SameCall(p)
<1>1. /\ pc[p] \in {"mkdir", "lock", "claim"} /\ ~Writing(p) /\ Early(p)
      /\ pc \in [Procs -> Points] /\ Binding(p) \in Bindings
  BY DEF Mkdir, Lock, CheckClaim, Writing, Early, RestoreInv, RestoreTypes, ProcInv,
         CallsOf, Binding
<1>2. CASE End(p, "none")
  BY <1>1, <1>2, EndLeaving
<1>3. ASSUME NEW point \in {"lock", "claim", "begin"}, Goto(p, point),
             lock' = lock \/ lock' = [lock EXCEPT ![Dir(p)] = {p}],
             point # "lock" \/ (pc[p] = "mkdir" /\ lock' = lock)
      PROVE  ControlStep(p) /\ SameCall(p)
  <2>1. pc'[p] = point /\ point \in Points \ {"idle", "create", "fill", "sync"}
    BY <1>1, <1>3 DEF Goto, Points
  <2>2. stageLock' = stageLock
    BY <2>1, <1>3, LeavesStage
  <2> QED
    BY <1>1, <1>3, <2>1, <2>2, GotoControl
<1>4. CASE Write(p, Claim, Binding(p), "begin") /\ lock' = lock /\ pc[p] = "claim"
  <2>1. pc'[p] = "create"
    BY <1>1, <1>4 DEF Write
  <2>2. stageLock' = stageLock
    BY <2>1, LeavesStage
  <2>3. /\ Claim \in Names /\ Binding(p) \in Contents /\ "begin" \in Points
        /\ Binding(p) # "receipt"
    BY <1>1, NameFacts, ContentFacts DEF Contents, Points
  <2> QED
    BY <1>1, <1>4, <2>2, <2>3, WriteControl
<1>5. CASE Mkdir(p)
  BY <1>2, <1>3, <1>5 DEF Mkdir
<1>6. CASE Lock(p)
  BY <1>2, <1>3, <1>6 DEF Lock
<1>7. CASE CheckClaim(p)
  BY <1>2, <1>3, <1>4, <1>7 DEF CheckClaim
<1> QED
  BY <1>5, <1>6, <1>7

LEMMA WritingControl ==
  ASSUME RestoreInv, TypeInv, NEW p \in Procs,
         Create(p) \/ Fill(p) \/ Sync(p), Leaves(p)
  PROVE  ControlStep(p) /\ SameCall(p)
<1>1. /\ pc[p] \in {"create", "fill", "sync"} /\ Writing(p) /\ JobOf(p)
      /\ pc \in [Procs -> Points] /\ job \in [Procs -> Jobs] /\ Control(p)
  BY DEF Create, Fill, Sync, Writing, RestoreInv, RestoreTypes, ProcInv, TypeInv,
         ControlTypes
<1>2. CASE Raise(p)
  BY <1>1, <1>2, LeavesStage, RaiseControl
<1>3. ASSUME NEW point \in {"fill", "sync"}, Goto(p, point), lock' = lock
      PROVE  ControlStep(p) /\ SameCall(p)
  <2> DEFINE j == job[p]
  <2>1. /\ pc' = [pc EXCEPT ![p] = point] /\ job' = [job EXCEPT ![p] = j]
        /\ UNCHANGED <<call, attempt, result>> /\ j \in Jobs
    BY <1>1, <1>3 DEF Goto
  <2>2. pc'[p] = point /\ point \in Points
    BY <1>1, <2>1 DEF Points
  <2>3. stageLock' = stageLock
    BY <2>2, LeavesStage
  <2>4. /\ Early(p) <=> j.then = "begin"
        /\ j.content = "receipt" => j.name = Receipt(attempt[p])
    BY <1>1 DEF Early, Control
  <2> HIDE DEF j
  <2> QED
    BY <1>1, <1>3, <2>1, <2>2, <2>3, <2>4, MoveControl
<1>4. CASE End(p, "none") \/ End(p, "pass")
  BY <1>1, <1>4, EndLeaving
<1>5. CASE /\ job[p].then \notin {"pass", "raised"}
           /\ pc' = [pc EXCEPT ![p] = job[p].then]
           /\ job' = [job EXCEPT ![p] = NoJob]
           /\ UNCHANGED <<lock, call, attempt, result>>
  <2> DEFINE point == job[p].then
  <2>1. point \in {"begin", "complete"} /\ (Early(p) <=> point = "begin")
    BY <1>1, <1>5 DEF JobOf, Early
  <2>2. /\ pc' = [pc EXCEPT ![p] = point] /\ point \in Points /\ NoJob \in Jobs
        /\ NoJob.then # "begin"
    BY <1>5, <2>1, IdleJob DEF Points
  <2>3. pc'[p] = point
    BY <1>1, <2>2
  <2>4. stageLock' = stageLock
    BY <2>1, <2>3, LeavesStage
  <2> HIDE DEF point
  <2> QED
    BY <1>1, <1>5, <2>1, <2>2, <2>4, MoveControl
<1>6. CASE Create(p)
  BY <1>2, <1>3, <1>6 DEF Create
<1>7. CASE Fill(p)
  BY <1>3, <1>7 DEF Fill
<1>8. CASE Sync(p)
  BY <1>4, <1>5, <1>8 DEF Sync
<1> QED
  BY <1>6, <1>7, <1>8

LEMMA StagingControl ==
  ASSUME RestoreInv, TypeInv, NEW p \in Procs,
         LockStage(p) \/ Complete(p) \/ OpenFiles(p) \/ Copy(p) \/ Flush(p)
  PROVE  ControlStep(p) /\ SameCall(p)
<1>1. /\ pc[p] \in {"stage", "open", "copy", "flush", "complete"} /\ ~Early(p)
      /\ ~Writing(p) /\ ControlTypes /\ Control(p)
  BY DEF LockStage, Complete, OpenFiles, Copy, Flush, Early, Writing, TypeInv
<1>2. ASSUME pc[p] # "flush", pc[p] # "complete", Raise(p), stageLock' = stageLock
      PROVE  ControlStep(p) /\ SameCall(p)
  BY <1>1, <1>2, RefuseControl
<1>3. ASSUME NEW point \in {"open", "copy", "flush"}, Goto(p, point), lock' = lock,
             stageLock' = stageLock \/ stageLock' = {p}
      PROVE  ControlStep(p) /\ SameCall(p)
  <2>1. point \in Points \ {"idle", "create", "fill", "sync"}
    BY DEF Points
  <2> QED
    BY <1>1, <1>3, <2>1, GotoControl
<1>4. CASE LockStage(p)
  BY <1>2, <1>3, <1>4 DEF LockStage
<1>5. CASE Complete(p)
  <2> DEFINE n == Receipt(attempt[p])
             c == "receipt"
             then == "pass"
  <2>1. n \in Names /\ c \in Contents
    BY <1>1, SlotFacts DEF ControlTypes, Control, Contents
  <2>2. Write(p, n, c, then) /\ then = "pass" /\ n = Receipt(attempt[p])
    BY <1>5 DEF Complete
  <2>3. lock' = lock /\ stageLock' = stageLock /\ pc[p] = "complete"
    BY <1>5 DEF Complete, dirVars
  <2> HIDE DEF n, c, then
  <2> QED
    BY <1>1, <2>1, <2>2, <2>3, WriteControl
<1>6. CASE OpenFiles(p)
  BY <1>2, <1>3, <1>6 DEF OpenFiles
<1>7. CASE Copy(p)
  BY <1>2, <1>3, <1>7 DEF Copy
<1>8. CASE Flush(p)
  BY <1>3, <1>8 DEF Flush, dirVars
<1> QED
  BY <1>4, <1>5, <1>6, <1>7, <1>8

LEMMA CertifyControl ==
  ASSUME RestoreInv, TypeInv, NEW p \in Procs, Certify(p) \/ CertifyLinks(p)
  PROVE  ControlStep(p) /\ SameCall(p)
<1>1. /\ pc[p] \in {"copy", "link"} /\ ~Early(p) /\ ~Writing(p)
      /\ Binding(p) \in Bindings
      /\ stageLock' = stageLock
  BY DEF Certify, CertifyLinks, Early, Writing, RestoreInv, ProcInv, CallsOf, Binding
<1>2. CASE Raise(p)
  BY <1>1, <1>2, RefuseControl
<1>3. CASE Goto(p, "complete") /\ lock' = lock
  <2>1. "complete" \in Points
    BY DEF Points
  <2> QED
    BY <1>1, <1>3, <2>1, GotoControl
<1>4. CASE Write(p, Completed, Binding(p), "complete") /\ lock' = lock
  <2>1. /\ Completed \in Names /\ Binding(p) \in Contents /\ "complete" \in Points
        /\ Binding(p) # "receipt"
    BY <1>1, NameFacts, ContentFacts DEF Contents, Points
  <2> QED
    BY <1>1, <1>4, <2>1, WriteControl
<1>5. CASE Certify(p)
  BY <1>2, <1>3, <1>4, <1>5 DEF Certify
<1>6. CASE CertifyLinks(p)
  BY <1>2, <1>4, <1>6 DEF CertifyLinks
<1> QED
  BY <1>5, <1>6

LEMMA LinkControl ==
  ASSUME RestoreInv, TypeInv, NEW p \in Procs, OpenLinks(p) \/ PlaceLink(p)
  PROVE  ControlStep(p) /\ SameCall(p)
<1>1. /\ pc[p] \in {"open", "link"} /\ ~Early(p) /\ ~Writing(p)
      /\ pc \in [Procs -> Points] /\ ControlTypes /\ Control(p)
  BY DEF OpenLinks, PlaceLink, Early, Writing, RestoreInv, RestoreTypes, TypeInv
<1>2. CASE OpenLinks(p) /\ Raise(p)
  BY <1>1, <1>2, LeavesStage, RaiseControl DEF OpenLinks
<1>3. CASE OpenLinks(p) /\ End(p, "pass")
  BY <1>1, <1>3, EndLeaving DEF OpenLinks
<1>4. CASE OpenLinks(p) /\ Goto(p, "link") /\ lock' = lock
  <2>1. pc'[p] = "link" /\ "link" \in Points
    BY <1>1, <1>4 DEF Goto, Points
  <2>2. stageLock' = stageLock
    BY <1>4, <2>1 DEF OpenLinks, Leaves
  <2> QED
    BY <1>1, <1>4, <2>1, <2>2, GotoControl
<1>5. CASE PlaceLink(p)
  <2>1. UNCHANGED <<pc, call, attempt, job, result, lock, stageLock>>
    BY <1>5 DEF PlaceLink, procVars, dirVars
  <2> QED
    BY <1>1, <2>1 DEF ControlStep, SameCall, ControlTypes, Control, Early, Writing, Dir,
                      NoAttempt, NoJob, Jobs
<1> QED
  BY <1>2, <1>3, <1>4, <1>5 DEF OpenLinks

LEMMA StopControl ==
  ASSUME RestoreInv, TypeInv, NEW p \in Procs, Fails(p) \/ Killed(p), Leaves(p)
  PROVE  ControlStep(p) /\ SameCall(p)
<1>1. pc[p] # "idle"
  BY DEF Fails, Killed
<1>2. CASE End(p, "none")
  BY <1>1, <1>2, EndLeaving
<1>3. CASE Raise(p) /\ pc[p] \notin {"idle", "mkdir", "lock"}
  BY <1>3, LeavesStage, RaiseControl
<1> QED
  BY <1>2, <1>3 DEF Fails, Killed

LEMMA LeftFacts ==
  /\ IsFiniteSet(Left) /\ Cardinality(Left) \in Nat
  /\ \A S \in SUBSET Procs : IsFiniteSet(S) /\ Cardinality(S) \in Nat
                               /\ Cardinality(S) <= Cardinality(Procs)
<1>1. IsFiniteSet(Dirs \X Receipts)
  BY SlotFacts, FS_Product, FiniteAssumption
<1>2. Left \subseteq Dirs \X Receipts
  BY DEF Left
<1>3. IsFiniteSet(Left) /\ Cardinality(Left) \in Nat
  BY <1>1, <1>2, FS_Subset, FS_CardinalityType
<1>4. \A S \in SUBSET Procs : IsFiniteSet(S) /\ Cardinality(S) \in Nat
                                /\ Cardinality(S) <= Cardinality(Procs)
  BY FS_Subset, FS_CardinalityType, FiniteAssumption
<1> QED
  BY <1>3, <1>4

\* A call that has no number finds one that is left for it.
LEMMA NumberInRange ==
  ASSUME TypeInv, NEW p \in Procs, Dir(p) \in Dirs, pc[p] # "idle", attempt[p] = NoAttempt
  PROVE  Number(p) \in 0 .. NoAttempt /\ Number(p) # NoAttempt
<1> DEFINE S == {n \in Receipts : Present(p, n)}
           f == [n \in S |-> <<Dir(p), n>>]
<1>1. f \in [S -> Left]
  BY DEF Left, Present
<1>2. \A m, n \in S : f[m] = f[n] => m = n
  OBVIOUS
<1> HIDE DEF f, S
<1>3. f \in Injection(S, Left)
  BY <1>1, <1>2 DEF Injection, IsInjective
<1>4. IsFiniteSet(S) /\ Cardinality(S) <= Cardinality(Left)
  BY <1>3, LeftFacts, FS_Injection
<1>5. Cardinality(S) \in Nat
  BY <1>4, FS_CardinalityType
<1>6. p \in Unspent
  BY DEF Unspent
<1>7. IsFiniteSet(Unspent) /\ Cardinality(Unspent) \in Nat
  BY LeftFacts DEF Unspent
<1>8. Cardinality(Unspent) # 0
  BY <1>6, <1>7, FS_EmptySet
<1>9. Cardinality(S) + 1 <= MaxAttempts + Cardinality(Procs)
  BY <1>4, <1>5, <1>7, <1>8, SlotFacts, LeftFacts DEF TypeInv, Counted
<1>10. Number(p) = Cardinality(S)
  BY DEF Number, S
<1> QED
  BY <1>5, <1>9, <1>10, SlotFacts

LEMMA BeginControl ==
  ASSUME RestoreInv, TypeInv, NEW p \in Procs, Begin(p)
  PROVE  ControlStep(p) /\ SameCall(p)
<1>1. /\ pc[p] = "begin" /\ Dir(p) \in Dirs /\ ControlTypes /\ Control(p)
      /\ pc \in [Procs -> Points]
  BY DEF Begin, RestoreInv, RestoreTypes, ProcInv, CallsOf, Dir, TypeInv
<1>2. attempt[p] = NoAttempt /\ job[p] = NoJob /\ p \notin stageLock
  BY <1>1 DEF Control, Early, Writing
<1> DEFINE k == Number(p)
<1>3. k \in 0 .. NoAttempt /\ k # NoAttempt
  BY <1>1, <1>2, NumberInRange
<1>4. /\ attempt' = [attempt EXCEPT ![p] = k] /\ pc' = [pc EXCEPT ![p] = "stage"]
      /\ UNCHANGED <<lock, call, job, result, stageLock>>
  BY DEF Begin, dirVars
<1> HIDE DEF k
<1>5. ControlTypes'
  BY <1>1, <1>3, <1>4 DEF ControlTypes, Jobs, NoAttempt
<1>6. /\ attempt'[p] = k /\ pc'[p] = "stage" /\ job'[p] = NoJob /\ Dir(p)' = Dir(p)
      /\ \A q \in Procs \ {p} : attempt'[q] = attempt[q]
  BY <1>1, <1>2, <1>4 DEF ControlTypes, Dir
<1>7. Control(p)'
  BY <1>1, <1>2, <1>3, <1>4, <1>6 DEF Control, Early, Writing, NoAttempt, NoJob
<1> QED
  BY <1>1, <1>2, <1>4, <1>5, <1>6, <1>7 DEF ControlStep, SameCall

-----------------------------------------------------------------------------
\* No file disappears, and one appears as the process that writes it makes it.
Creates(p) ==
  /\ Writing(p) /\ Writing(p)' /\ UNCHANGED <<call, job, attempt>>
  /\ ~Present(p, job[p].name)
  /\ \E c \in States \ {"absent"} : file' = [file EXCEPT ![Dir(p)][job[p].name] = c]

SameFiles == \A d \in Dirs, n \in Names : file'[d][n] = "absent" <=> file[d][n] = "absent"

LEMMA PresenceStep ==
  ASSUME RestoreInv, TypeInv, NEW p \in Procs, Call(p) \/ Step(p) \/ Stops(p)
  PROVE  SameFiles \/ Creates(p)
<1>1. CASE Create(p) /\ ~Present(p, job[p].name)
  <2>1. pc[p] = "create" /\ pc'[p] = "fill"
    BY <1>1 DEF Create, Goto, RestoreInv, RestoreTypes
  <2>2. "torn" \in States \ {"absent"}
    BY ContentFacts
  <2> QED
    BY <1>1, <2>1, <2>2 DEF Create, Creates, Goto, Writing
<1>2. CASE Fill(p)
  <2>1. /\ pc[p] = "fill" /\ pc'[p] = "sync" /\ JobOf(p) /\ call[p] \in CallsOf
        /\ job[p] \in Jobs /\ file \in [Dirs -> [Names -> States]]
        /\ UNCHANGED <<call, job, attempt>>
    BY <1>2 DEF Fill, Goto, RestoreInv, RestoreTypes, ProcInv, Writing, TypeInv, ControlTypes
  <2>2. job[p].content \in States \ {"absent"}
    BY <2>1, ContentAssumption, ContentFacts DEF Jobs, Contents, States
  <2>3. file' = [file EXCEPT ![Dir(p)][job[p].name] = job[p].content]
    BY <1>2 DEF Fill
  <2>4. CASE Present(p, job[p].name)
    BY <2>1, <2>2, <2>3, <2>4 DEF SameFiles, Present, Exists
  <2>5. CASE ~Present(p, job[p].name)
    BY <2>1, <2>2, <2>3, <2>5 DEF Creates, Writing
  <2> QED
    BY <2>4, <2>5
<1>3. CASE file' = file
  BY <1>3 DEF SameFiles
<1>4. ASSUME ~(Create(p) /\ ~Present(p, job[p].name)), ~Fill(p)
      PROVE  file' = file
  <2>0. CASE Create(p)
    BY <1>4, <2>0 DEF Create
  <2>1. CASE Call(p)
    BY <2>1 DEF Call, Calls, dirVars
  <2>2. CASE Mkdir(p) \/ Lock(p) \/ CheckClaim(p) \/ Sync(p)
    BY <2>2 DEF Mkdir, Lock, CheckClaim, Sync
  <2>3. CASE Begin(p) \/ LockStage(p) \/ Complete(p)
    BY <2>3 DEF Begin, LockStage, Complete, dirVars
  <2>4. CASE OpenFiles(p) \/ Copy(p) \/ Flush(p) \/ Certify(p)
    BY <2>4 DEF OpenFiles, Copy, Flush, Certify, dirVars
  <2>5. CASE OpenLinks(p) \/ PlaceLink(p) \/ CertifyLinks(p)
    BY <2>5 DEF OpenLinks, PlaceLink, CertifyLinks, dirVars
  <2>6. CASE Stops(p)
    BY <2>6 DEF Stops, Fails, Killed
  <2> QED
    BY <1>4, <2>0, <2>1, <2>2, <2>3, <2>4, <2>5, <2>6 DEF Step, ClaimStep
<1> QED
  BY <1>1, <1>2, <1>3, <1>4

\* A call that has left its receipt stays so, and a receipt that appears is that
\* of a call that had left none.
LEMMA UnspentStep ==
  ASSUME RestoreInv, TypeInv, NEW p \in Procs, Effect(p), ControlStep(p), SameCall(p),
         SameFiles \/ Creates(p)
  PROVE  Unspent' \subseteq Unspent
<1>1. ASSUME NEW q \in Procs, pc[q] # "idle", attempt[q] # NoAttempt
      PROVE  Dir(q) \in Dirs /\ Receipt(attempt[q]) \in Names
  BY <1>1, SlotFacts DEF RestoreInv, ProcInv, CallsOf, Dir, TypeInv, ControlTypes
<1>2. ASSUME NEW d \in Dirs, NEW n \in Names, file[d][n] # "absent"
      PROVE  file'[d][n] # "absent"
  <2>1. CASE SameFiles
    BY <1>2, <2>1 DEF SameFiles
  <2>2. CASE Creates(p)
    <3>1. file \in [Dirs -> [Names -> States]]
      BY DEF RestoreInv, RestoreTypes
    <3>2. PICK c \in States \ {"absent"} : file' = [file EXCEPT ![Dir(p)][job[p].name] = c]
      BY <2>2 DEF Creates
    <3> QED
      BY <1>2, <3>1, <3>2
  <2> QED
    BY <2>1, <2>2
<1>3. ASSUME NEW q \in Procs, pc'[q] # "idle"
      PROVE  /\ pc[q] # "idle" /\ Dir(q)' = Dir(q)
             /\ attempt'[q] = attempt[q] \/ attempt[q] = NoAttempt
  <2>1. CASE q = p
    BY <1>3, <2>1 DEF SameCall
  <2>2. CASE q # p
    BY <1>3, <2>2 DEF Effect, Others, ControlStep, Dir
  <2> QED
    BY <2>1, <2>2
<1>4. ASSUME NEW q \in Procs, pc'[q] # "idle", attempt[q] # NoAttempt,
             file[Dir(q)][Receipt(attempt[q])] # "absent"
      PROVE  attempt'[q] # NoAttempt /\ file'[Dir(q)'][Receipt(attempt'[q])] # "absent"
  BY <1>1, <1>2, <1>3, <1>4
<1> QED
  BY <1>3, <1>4 DEF Unspent, Present, Exists, NoAttempt, Receipt

LEMMA CountedStep ==
  ASSUME RestoreInv, TypeInv, NEW p \in Procs, Unspent' \subseteq Unspent,
         SameFiles \/ Creates(p)
  PROVE  Counted'
<1>1. /\ IsFiniteSet(Left) /\ Cardinality(Left) \in Nat
      /\ IsFiniteSet(Unspent) /\ Cardinality(Unspent) \in Nat
  BY LeftFacts DEF Unspent
<1>2. IsFiniteSet(Unspent') /\ Cardinality(Unspent') \in Nat
      /\ Cardinality(Unspent') <= Cardinality(Unspent)
  BY <1>1, FS_Subset, FS_CardinalityType
<1>3. Cardinality(Left) + Cardinality(Unspent) <= MaxAttempts + Cardinality(Procs)
  BY DEF TypeInv, Counted
<1>4. CASE Left' = Left
  BY <1>1, <1>2, <1>3, <1>4, SlotFacts DEF Counted
<1>5. CASE Left' # Left
  <2> DEFINE n == job[p].name
             new == <<Dir(p), n>>
  <2>1. /\ file \in [Dirs -> [Names -> States]] /\ Receipts \subseteq Names
        /\ Receipts \cap {Claim, Completed} = {}
    BY SlotFacts DEF RestoreInv, RestoreTypes
  <2>2. Creates(p)
    BY <1>5, <2>1 DEF SameFiles, Left, Exists
  <2>3. /\ JobOf(p) /\ Control(p) /\ pc[p] # "idle" /\ Dir(p) \in Dirs
        /\ file[Dir(p)][n] = "absent"
    BY <2>2 DEF Creates, Writing, RestoreInv, ProcInv, TypeInv, CallsOf, Dir, Present, Exists
  <2>4. PICK c \in States \ {"absent"} : file' = [file EXCEPT ![Dir(p)][n] = c]
    BY <2>2 DEF Creates
  <2>5. Left' \subseteq Left \cup {new}
    BY <2>1, <2>4 DEF Left, Exists
  <2>6. n \in Receipts
    BY <1>5, <2>1, <2>3, <2>4 DEF Left, Exists
  <2>7. n = Receipt(attempt[p]) /\ attempt[p] # NoAttempt
    <3>1. job[p].content = "receipt" /\ job[p].then # "begin" /\ Writing(p)
      BY <2>1, <2>2, <2>3, <2>6 DEF JobOf, Creates
    <3> QED
      BY <2>3, <3>1 DEF Control, Early, Writing
  <2>8. p \in Unspent
    BY <2>3, <2>7 DEF Unspent, Present, Exists
  <2>9. p \notin Unspent'
    <3>1. attempt' = attempt /\ Dir(p)' = Dir(p)
      BY <2>2 DEF Creates, Dir
    <3>2. file'[Dir(p)][n] # "absent"
      BY <2>1, <2>3, <2>4, <2>6
    <3> QED
      BY <2>7, <3>1, <3>2 DEF Unspent, Present, Exists, NoAttempt, Receipt
  <2> HIDE DEF n, new
  <2>10. Cardinality(Left') <= Cardinality(Left) + 1 /\ Cardinality(Left') \in Nat
    <3>1. /\ IsFiniteSet(Left \cup {new})
          /\ \/ Cardinality(Left \cup {new}) = Cardinality(Left)
             \/ Cardinality(Left \cup {new}) = Cardinality(Left) + 1
      <4>1. /\ IsFiniteSet(Left \cup {new})
            /\ Cardinality(Left \cup {new}) =
                 IF new \in Left THEN Cardinality(Left) ELSE Cardinality(Left) + 1
        BY <1>1, FS_AddElement
      <4> QED
        BY <4>1
    <3>2. IsFiniteSet(Left') /\ Cardinality(Left') <= Cardinality(Left \cup {new})
      BY <2>5, <3>1, FS_Subset
    <3> QED
      BY <1>1, <3>1, <3>2, FS_CardinalityType
  <2>11. Cardinality(Unspent') + 1 <= Cardinality(Unspent)
    <3>1. Unspent' \subseteq Unspent \ {p}
      BY <2>9
    <3>2. IsFiniteSet(Unspent \ {p})
          /\ Cardinality(Unspent \ {p}) = Cardinality(Unspent) - 1
      BY <1>1, <2>8, FS_RemoveElement
    <3> QED
      BY <1>1, <1>2, <3>1, <3>2, FS_Subset
  <2> QED
    BY <1>1, <1>2, <1>3, <2>10, <2>11, SlotFacts DEF Counted
<1> QED
  BY <1>4, <1>5

\* The bound on calls leaves a number for each.
LEMMA CallTyped ==
  ASSUME RestoreInv, TypeInv, NEW p \in Procs, Call(p)
  PROVE  ControlStep(p) /\ Counted'
<1>1. PICK c \in CallsOf : Calls(p, c)
  BY DEF Call
<1>2. /\ pc[p] = "idle" /\ pc' = [pc EXCEPT ![p] = "mkdir"]
      /\ result' = [result EXCEPT ![p] = "none"]
      /\ UNCHANGED <<attempt, job, lock, file>> /\ Cardinality(Left) < MaxAttempts
  BY <1>1 DEF Calls, dirVars, Left
<1>3. /\ ControlTypes /\ Control(p) /\ pc \in [Procs -> Points] /\ stageLock' = stageLock
  BY DEF TypeInv, RestoreInv, RestoreTypes, Call
<1>4. attempt[p] = NoAttempt /\ job[p] = NoJob /\ p \notin stageLock
      /\ \A d \in Dirs : p \notin lock[d]
  BY <1>2, <1>3 DEF Control, Early, Writing
<1>5. pc'[p] = "mkdir"
  BY <1>2, <1>3
<1>6. Control(p)'
  BY <1>2, <1>3, <1>4, <1>5 DEF Control, Early, Writing, NoAttempt, NoJob
<1>7. ControlTypes'
  BY <1>2, <1>3 DEF ControlTypes, Jobs, NoAttempt
<1>8. Left' = Left
  BY <1>2 DEF Left, Exists
<1>9. /\ Cardinality(Left) \in Nat /\ Cardinality(Unspent') \in Nat
      /\ Cardinality(Unspent') <= Cardinality(Procs)
  <2>1. Unspent' \subseteq Procs
    BY DEF Unspent
  <2> QED
    BY <2>1, LeftFacts
<1>10. Cardinality(Left) + Cardinality(Unspent') <= MaxAttempts + Cardinality(Procs)
  BY <1>2, <1>9, SlotFacts
<1> QED
  BY <1>2, <1>6, <1>7, <1>8, <1>10 DEF Counted, ControlStep

-----------------------------------------------------------------------------
(* The variables of the tree, and the theorem.                             *)

LEMMA LengthsStep ==
  ASSUME RestoreInv, TypeInv, NEW p \in Procs, Tree(p), RestoreTypes'
  PROVE  Lengths'
<1>1. /\ tree \in [Files -> Seq(Blocks)] /\ synced \in [Files -> Nat]
      /\ NumBlocks \in Nat \ {0}
      /\ \A f \in Files : Len(tree[f]) <= NumBlocks /\ synced[f] <= Len(tree[f])
  BY StagingAssumption DEF RestoreInv, RestoreTypes, TypeInv, Lengths
<1>2. CASE UNCHANGED <<tree, synced, links>> \/ MakesLink(p)
  BY <1>1, <1>2 DEF MakesLink, Lengths
<1>3. CASE CopiesBlock(p)
  <2> DEFINE g == index[p]
             b == Binding(p)
             k == IF Len(tree[g]) < NumBlocks THEN Len(tree[g]) + 1 ELSE NumBlocks
             new == Extended(b, g)
  <2>1. g \in Files /\ b \in Bindings /\ tree' = [tree EXCEPT ![g] = new] /\ synced' = synced
    BY <1>3 DEF CopiesBlock
  <2>2. new = SubSeq(Data(b, g), 1, k)
    BY DEF Extended
  <2> HIDE DEF new, g, b
  <2>3. Len(tree[g]) \in Nat /\ Len(tree[g]) <= NumBlocks /\ synced[g] <= Len(tree[g])
    BY <1>1, <2>1
  <2>4. k \in 1 .. NumBlocks /\ Len(tree[g]) <= k
    BY <1>1, <2>3
  <2> HIDE DEF k
  <2>5. Len(new) = k
    <3>1. Data(b, g) \in Seq(Blocks) /\ Len(Data(b, g)) = NumBlocks
      BY <2>1, DataType
    <3>2. \A i \in 1 .. k : Data(b, g)[i] \in Blocks
      BY <1>1, <2>4, <3>1
    <3> QED
      BY <2>2, <2>4, <3>2, SubSeqProperties
  <2>6. Len(new) <= NumBlocks /\ synced[g] <= Len(new)
    <3>1. synced[g] \in Nat
      BY <1>1, <2>1
    <3> QED
      BY <1>1, <2>3, <2>4, <2>5, <3>1
  <2>7. ASSUME NEW f \in Files
        PROVE  Len(tree'[f]) <= NumBlocks /\ synced'[f] <= Len(tree'[f])
    <3>1. CASE f = g
      BY <1>1, <2>1, <2>6, <3>1
    <3>2. CASE f # g
      BY <1>1, <2>1, <3>2
    <3> QED
      BY <3>1, <3>2
  <2> QED
    BY <2>7 DEF Lengths
<1>4. CASE SyncsFile
  <2>1. PICK g \in Files : synced' = [synced EXCEPT ![g] = Len(tree[g])]
    BY <1>4 DEF SyncsFile
  <2>2. ASSUME NEW f \in Files
        PROVE  Len(tree[f]) <= NumBlocks /\ synced'[f] <= Len(tree[f])
    <3>1. Len(tree[f]) \in Nat
      BY <1>1
    <3> QED
      BY <1>1, <2>1, <3>1
  <2> QED
    BY <1>4, <2>2 DEF Lengths, SyncsFile
<1> QED
  BY <1>2, <1>3, <1>4 DEF Tree

\* What a step does to the directories, and to the entries without a sync.
LEMMA EntriesStep ==
  ASSUME RestoreInv, TypeInv, NEW p \in Procs, Call(p) \/ Step(p) \/ Stops(p)
  PROVE  /\ made' \subseteq Dirs
         /\ unsynced' \subseteq {u \in Dirs \X Names : Exists(u[1], u[2])'}
<1>1. /\ made \subseteq Dirs /\ file \in [Dirs -> [Names -> States]]
      /\ unsynced \subseteq {u \in Dirs \X Names : file[u[1]][u[2]] # "absent"}
  BY DEF TypeInv, DataTypes, RestoreInv, RestoreTypes, Exists
<1>2. pc[p] # "idle" => Dir(p) \in Dirs
  BY DEF RestoreInv, ProcInv, CallsOf, Dir
<1>3. \/ made' = made /\ unsynced' \subseteq unsynced
      \/ Mkdir(p) /\ unsynced' \subseteq unsynced
      \/ Create(p) /\ ~Present(p, job[p].name) /\ made' = made
  <2>1. CASE Call(p)
    BY <2>1 DEF Call, Calls, dirVars
  <2>2. CASE Mkdir(p) \/ Lock(p) \/ CheckClaim(p) \/ Fill(p) \/ Sync(p)
    BY <2>2 DEF Mkdir, Lock, CheckClaim, Fill, Sync
  <2>3. CASE Create(p)
    BY <2>3 DEF Create
  <2>4. CASE Begin(p) \/ LockStage(p) \/ Complete(p)
    BY <2>4 DEF Begin, LockStage, Complete, dirVars
  <2>5. CASE OpenFiles(p) \/ Copy(p) \/ Flush(p) \/ Certify(p)
    BY <2>5 DEF OpenFiles, Copy, Flush, Certify, dirVars
  <2>6. CASE OpenLinks(p) \/ PlaceLink(p) \/ CertifyLinks(p)
    BY <2>6 DEF OpenLinks, PlaceLink, CertifyLinks, dirVars
  <2>7. CASE Stops(p)
    BY <2>7 DEF Stops, Fails, Killed
  <2> QED
    BY <2>1, <2>2, <2>3, <2>4, <2>5, <2>6, <2>7 DEF Step, ClaimStep
<1>4. made' \subseteq Dirs
  BY <1>1, <1>2, <1>3 DEF Mkdir
<1>5. ASSUME NEW d \in Dirs, NEW n \in Names, file[d][n] # "absent"
      PROVE  file'[d][n] # "absent"
  <2>1. CASE SameFiles
    BY <1>5, <2>1 DEF SameFiles
  <2>2. CASE Creates(p)
    <3>1. PICK c \in States \ {"absent"} : file' = [file EXCEPT ![Dir(p)][job[p].name] = c]
      BY <2>2 DEF Creates
    <3> QED
      BY <1>1, <1>5, <3>1
  <2> QED
    BY <2>1, <2>2, PresenceStep
<1>6. CASE unsynced' \subseteq unsynced
  BY <1>1, <1>4, <1>5, <1>6 DEF Exists
<1>7. CASE Create(p) /\ ~Present(p, job[p].name)
  <2>1. /\ job[p].name \in Names /\ pc[p] = "create"
    BY <1>7 DEF Create, TypeInv, ControlTypes, Jobs
  <2>2. /\ unsynced' = unsynced \cup {<<Dir(p), job[p].name>>}
        /\ file' = [file EXCEPT ![Dir(p)][job[p].name] = "torn"]
    BY <1>7 DEF Create
  <2>3. file'[Dir(p)][job[p].name] # "absent"
    BY <1>1, <1>2, <2>1, <2>2
  <2> QED
    BY <1>1, <1>2, <1>4, <1>5, <2>1, <2>2, <2>3 DEF Exists
<1> QED
  BY <1>3, <1>4, <1>6, <1>7

\* A copy is at a file or past the last, and so are the links.
LEMMA IndexStep ==
  ASSUME RestoreInv, TypeInv, NEW p \in Procs, Call(p) \/ Step(p) \/ Stops(p)
  PROVE  index' \in [Procs -> 1 .. NumFiles + NumLinks + 1]
<1>1. /\ index \in [Procs -> 1 .. NumFiles + NumLinks + 1]
      /\ NumFiles \in Nat \ {0} /\ NumLinks \in Nat
  BY StagingAssumption DEF TypeInv, DataTypes
<1>2. \/ index' = index \/ index' = [index EXCEPT ![p] = 1]
      \/ Flush(p) \/ PlaceLink(p)
  <2>1. CASE Call(p) \/ Begin(p) \/ LockStage(p) \/ Complete(p)
    BY <2>1 DEF Call, Begin, LockStage, Complete
  <2>2. CASE ClaimStep(p) \/ OpenLinks(p) \/ Stops(p)
    BY <2>2 DEF ClaimStep, OpenLinks, Stops, Leaves
  <2>3. CASE OpenFiles(p) \/ Copy(p) \/ Certify(p) \/ CertifyLinks(p)
    BY <2>3 DEF OpenFiles, Copy, Certify, CertifyLinks
  <2> QED
    BY <2>1, <2>2, <2>3 DEF Step
<1>3. CASE Flush(p)
  <2>1. index[p] \in Files
    BY <1>3 DEF Flush, RestoreInv, ProcInv
  <2>2. index' = [index EXCEPT ![p] = IF Len(tree[index[p]]) = NumBlocks THEN index[p] + 1
                                                                      ELSE index[p]]
    BY <1>3 DEF Flush
  <2> QED
    BY <1>1, <2>1, <2>2 DEF Files
<1>4. CASE PlaceLink(p)
  <2>1. index[p] \in Links /\ index' = [index EXCEPT ![p] = @ + 1]
    BY <1>4 DEF PlaceLink
  <2> QED
    BY <1>1, <2>1 DEF Links
<1> QED
  BY <1>1, <1>2, <1>3, <1>4

LEMMA DataStep ==
  ASSUME RestoreInv, TypeInv, NEW p \in Procs, Call(p) \/ Step(p) \/ Stops(p), Effect(p)
  PROVE  DataTypes'
<1>1. DataTypes /\ MaxFaults \in Nat
  BY BoundAssumption DEF TypeInv
<1>2. powerLost' = powerLost /\ Tree(p)
  BY DEF Effect
<1>3. links' \subseteq Links
  BY <1>1, <1>2 DEF DataTypes, Tree, CopiesBlock, SyncsFile, MakesLink
<1>4. faults' = faults \/ (faults < MaxFaults /\ faults' = faults + 1)
  <2>1. CASE Call(p)
    BY <2>1 DEF Call, Calls, boundVars
  <2>2. CASE ClaimStep(p)
    BY <2>2 DEF ClaimStep, Mkdir, Lock, CheckClaim, Create, Fill, Sync, boundVars
  <2>3. CASE Begin(p) \/ LockStage(p) \/ Complete(p)
    BY <2>3 DEF Begin, LockStage, Complete, boundVars
  <2>4. CASE OpenFiles(p) \/ Copy(p) \/ Flush(p) \/ Certify(p)
    BY <2>4 DEF OpenFiles, Copy, Flush, Certify, boundVars
  <2>5. CASE OpenLinks(p) \/ PlaceLink(p) \/ CertifyLinks(p)
    BY <2>5 DEF OpenLinks, PlaceLink, CertifyLinks, boundVars
  <2>6. CASE Stops(p)
    BY <2>6 DEF Stops, Fails, Killed
  <2> QED
    BY <2>1, <2>2, <2>3, <2>4, <2>5, <2>6 DEF Step
<1>5. staged' \in BOOLEAN
  <2>1. CASE Call(p) \/ ClaimStep(p) \/ Stops(p)
    BY <1>1, <2>1 DEF Call, ClaimStep, Stops, treeVars, DataTypes
  <2>2. CASE Begin(p) \/ LockStage(p) \/ Complete(p)
    BY <1>1, <2>2 DEF Begin, LockStage, Complete, treeVars, DataTypes
  <2>3. CASE OpenFiles(p)
    BY <1>1, <2>3 DEF OpenFiles, DataTypes
  <2>4. CASE Copy(p) \/ Flush(p) \/ Certify(p)
    BY <1>1, <2>4 DEF Copy, Flush, Certify, treeVars, DataTypes
  <2>5. CASE OpenLinks(p) \/ PlaceLink(p) \/ CertifyLinks(p)
    BY <1>1, <2>5 DEF OpenLinks, PlaceLink, CertifyLinks, treeVars, DataTypes
  <2> QED
    BY <2>1, <2>2, <2>3, <2>4, <2>5 DEF Step
<1>6. faults' \in 0 .. MaxFaults
  BY <1>1, <1>4 DEF DataTypes
<1> QED
  BY <1>1, <1>2, <1>3, <1>5, <1>6, EntriesStep, IndexStep DEF DataTypes, Links

\* Whatever a process does, its control state stays as it should be, and so does
\* that of the others.
LEMMA StepControl ==
  ASSUME RestoreInv, TypeInv, NEW p \in Procs, Step(p) \/ Stops(p)
  PROVE  ControlStep(p) /\ SameCall(p)
<1>1. CASE ClaimStep(p)
  BY <1>1, ClaimControl, WritingControl DEF ClaimStep
<1>2. CASE Begin(p)
  BY <1>2, BeginControl
<1>3. CASE LockStage(p) \/ Complete(p) \/ OpenFiles(p) \/ Copy(p) \/ Flush(p)
  BY <1>3, StagingControl
<1>4. CASE Certify(p) \/ CertifyLinks(p)
  BY <1>4, CertifyControl
<1>5. CASE OpenLinks(p) \/ PlaceLink(p)
  BY <1>5, LinkControl
<1>6. CASE Stops(p)
  BY <1>6, StopControl DEF Stops
<1> QED
  BY <1>1, <1>2, <1>3, <1>4, <1>5, <1>6 DEF Step

LEMMA TypeStep ==
  ASSUME RestoreInv, TypeInv, NEW p \in Procs, Call(p) \/ Step(p) \/ Stops(p)
  PROVE  TypeInv'
<1>1. Effect(p)
  BY StepEffect
<1>2. SameFiles \/ Creates(p)
  BY PresenceStep
<1>3. ControlStep(p) /\ Counted'
  <2>1. CASE Call(p)
    BY <2>1, CallTyped
  <2>2. CASE Step(p) \/ Stops(p)
    <3>1. ControlStep(p) /\ SameCall(p)
      BY <2>2, StepControl
    <3>2. Unspent' \subseteq Unspent
      BY <1>1, <1>2, <3>1, UnspentStep
    <3> QED
      BY <1>2, <3>1, <3>2, CountedStep
  <2> QED
    BY <2>1, <2>2
<1>4. DataTypes' /\ Lengths'
  BY <1>1, DataStep, LengthsStep DEF Effect
<1>5. ASSUME NEW q \in Procs, q # p
      PROVE  Control(q)'
  <2>1. /\ pc'[q] = pc[q] /\ job'[q] = job[q] /\ Dir(q)' = Dir(q)
        /\ attempt'[q] = attempt[q] /\ \A d \in Dirs : q \in lock'[d] => q \in lock[d]
        /\ q \in stageLock' => q \in stageLock
    BY <1>1, <1>3, <1>5 DEF Effect, Others, ControlStep, Dir
  <2>2. Control(q)
    BY DEF TypeInv
  <2> QED
    BY <2>1, <2>2 DEF Control, Early, Writing, NoAttempt, NoJob, Receipt
<1>6. Control(p)' /\ ControlTypes'
  BY <1>3 DEF ControlStep
<1>7. \A q \in Procs : Control(q)'
  BY <1>5, <1>6
<1> QED
  BY <1>3, <1>4, <1>6, <1>7 DEF TypeInv

\* A loss of power makes no file longer.
LEMMA LossLengths ==
  ASSUME RestoreInv, TypeInv, PowerFails
  PROVE  Lengths'
<1>1. /\ NumBlocks \in Nat \ {0}
      /\ \A f \in Files : Len(tree[f]) \in Nat /\ Len(tree[f]) <= NumBlocks
  BY StagingAssumption DEF RestoreInv, RestoreTypes, TypeInv, Lengths
<1>2. \A f \in Files : Len(tree'[f]) \in Nat /\ Len(tree'[f]) <= Len(tree[f])
  BY LossTree DEF RestoreInv
<1>3. synced' = [f \in Files |-> Len(tree'[f])]
  BY DEF PowerFails
<1> QED
  BY <1>1, <1>2, <1>3 DEF Lengths

LEMMA IdleControl ==
  ASSUME pc = [p \in Procs |-> "idle"], attempt = [p \in Procs |-> NoAttempt],
         job = [p \in Procs |-> NoJob], result = [p \in Procs |-> "none"],
         lock = [d \in Dirs |-> {}], stageLock = {}
  PROVE  ControlTypes /\ Unspent = {} /\ \A p \in Procs : Control(p)
<1>1. NoAttempt \in 0 .. NoAttempt /\ NoJob \in Jobs
  BY SlotFacts, IdleJob
<1> QED
  BY <1>1 DEF ControlTypes, Unspent, Control, Early, Writing

LEMMA TypesLost ==
  ASSUME RestoreInv, TypeInv, PowerFails
  PROVE  TypeInv'
<1>1. /\ pc' = [p \in Procs |-> "idle"] /\ attempt' = [p \in Procs |-> NoAttempt]
      /\ job' = [p \in Procs |-> NoJob] /\ result' = [p \in Procs |-> "none"]
      /\ lock' = [d \in Dirs |-> {}] /\ stageLock' = {} /\ unsynced' = {}
      /\ index' = [p \in Procs |-> 1] /\ powerLost' = TRUE
      /\ UNCHANGED <<made, faults>>
  BY DEF PowerFails, PowerLoss
<1>2. ControlTypes' /\ Unspent' = {} /\ \A p \in Procs : Control(p)'
  <2>1. NoAttempt \in 0 .. NoAttempt /\ NoJob \in Jobs
    BY SlotFacts, IdleJob
  <2>2. ControlTypes'
    BY <1>1, <2>1 DEF ControlTypes, Jobs, NoAttempt
  <2>3. Unspent' = {}
    BY <1>1 DEF Unspent
  <2>4. \A p \in Procs : Control(p)'
    BY <1>1 DEF Control, Early, Writing, NoAttempt, NoJob
  <2> QED
    BY <2>2, <2>3, <2>4
<1>3. DataTypes'
  <2>1. NumFiles \in Nat \ {0} /\ NumLinks \in Nat
    BY StagingAssumption
  <2>2. index' \in [Procs -> 1 .. NumFiles + NumLinks + 1]
    BY <1>1, <2>1
  <2>3. staged' \in BOOLEAN /\ links' \subseteq Links
    BY DEF PowerFails, StagingDamaged, StagingGone, TypeInv, DataTypes
  <2> QED
    BY <1>1, <2>2, <2>3 DEF TypeInv, DataTypes, Links
<1>4. Left' = Left
  <2>1. PICK gone \in SUBSET unsynced, as \in {"torn", "bad"} :
          file' = [d \in Dirs |->
                     [n \in Names |->
                        IF <<d, n>> \notin gone THEN file[d][n]
                          ELSE IF n \in Sized THEN as ELSE "torn"]]
    BY DEF PowerFails, PowerLoss
  <2>2. \A d \in Dirs, n \in Names : <<d, n>> \in unsynced => file[d][n] # "absent"
    BY DEF TypeInv, DataTypes, Exists
  <2>3. \A d \in Dirs, n \in Names : file'[d][n] = "absent" <=> file[d][n] = "absent"
    BY <2>1, <2>2
  <2>4. Receipts \subseteq Names
    BY SlotFacts
  <2> QED
    BY <2>3, <2>4 DEF Left, Exists
<1>5. Counted'
  <2>1. Cardinality(Left) \in Nat /\ Cardinality(Unspent) \in Nat
        /\ Cardinality({}) = 0
    BY LeftFacts, FS_EmptySet DEF Unspent
  <2>2. Cardinality(Left) + Cardinality(Unspent) <= MaxAttempts + Cardinality(Procs)
    BY DEF TypeInv, Counted
  <2>3. Cardinality(Left') = Cardinality(Left) /\ Cardinality(Unspent') = 0
    BY <1>2, <1>4, <2>1
  <2> QED
    BY <2>1, <2>2, <2>3, SlotFacts DEF Counted
<1> QED
  BY <1>2, <1>3, <1>5, LossLengths DEF TypeInv

LEMMA TypesInit == Init => TypeInv
<1> SUFFICES ASSUME Init
             PROVE  TypeInv
  OBVIOUS
<1>1. ControlTypes /\ Unspent = {} /\ \A p \in Procs : Control(p)
  BY IdleControl DEF Init, ClaimInit
<1>2. Left = {}
  BY SlotFacts DEF Init, ClaimInit, Left, Exists
<1>3. Counted
  BY <1>1, <1>2, SlotFacts, FS_EmptySet DEF Counted
<1>4. DataTypes
  <2>1. /\ made = {} /\ unsynced = {} /\ faults = 0 /\ powerLost = FALSE
        /\ staged = FALSE /\ links = {} /\ index = [p \in Procs |-> 1]
    BY DEF Init, ClaimInit
  <2>2. 0 \in 0 .. MaxFaults
    BY BoundAssumption
  <2>3. 1 \in 1 .. NumFiles + NumLinks + 1
    BY StagingAssumption
  <2>4. index \in [Procs -> 1 .. NumFiles + NumLinks + 1]
    BY <2>1, <2>3
  <2> QED
    BY <2>1, <2>2, <2>4 DEF DataTypes
<1>5. Lengths
  <2>1. \A f \in Files : Len(tree[f]) = 0 /\ synced[f] = 0
    BY DEF Init
  <2> QED
    BY <2>1, StagingAssumption DEF Lengths
<1> QED
  BY <1>1, <1>3, <1>4, <1>5 DEF TypeInv

LEMMA TypesStutter ==
  ASSUME TypeInv, UNCHANGED vars
  PROVE  TypeInv'
<1> USE DEF vars, dirVars, procVars, boundVars, treeVars
<1>1. ControlTypes'
  BY DEF TypeInv, ControlTypes, Jobs, NoAttempt
<1>2. DataTypes' /\ Lengths'
  BY DEF TypeInv, DataTypes, Lengths, Exists, Links
<1>3. ASSUME NEW p \in Procs
      PROVE  Control(p)'
  <2>1. Control(p)
    BY DEF TypeInv
  <2> QED
    BY <2>1 DEF Control, Early, Writing, Dir, NoAttempt, NoJob, Receipt
<1>4. Left' = Left /\ Unspent' = Unspent
  BY DEF Left, Unspent, Exists, Present, Dir, NoAttempt, Receipt
<1>5. Counted'
  BY <1>4 DEF TypeInv, Counted
<1> QED
  BY <1>1, <1>2, <1>3, <1>5 DEF TypeInv

LEMMA TypeInvariant == Spec => []TypeInv
<1>1. RestoreInv /\ TypeInv /\ [Next]_vars => TypeInv'
  BY TypeStep, TypesLost, TypesStutter DEF Next
<1> QED
  BY <1>1, TypesInit, RestoreInvariant, PTL DEF Spec

\* TypeOK: what a call writes always has a name, its receipt among them, and no
\* file is longer than the one of its package or safe beyond its end; the
\* staging and every directory are locked only by a call that works there.
THEOREM RestoringTypes == Spec => []TypeOK
<1>1. ASSUME RestoreInv, TypeInv
      PROVE  TypeOK
  <2>1. /\ RestoreTypes /\ ControlTypes /\ DataTypes /\ Lengths
        /\ \A p \in Procs : Control(p)
    BY <1>1 DEF RestoreInv, TypeInv
  <2>2. stageLock \subseteq {p \in Procs : pc[p] # "idle"}
    BY <2>1 DEF ControlTypes, Control, Early
  <2>3. ClaimTypeOK
    BY <2>1 DEF ClaimTypeOK, RestoreTypes, ControlTypes, DataTypes, Control
  <2>4. \A f \in Files : Len(tree[f]) <= NumBlocks /\ synced[f] \in 0 .. Len(tree[f])
    BY <2>1 DEF RestoreTypes, Lengths
  <2> QED
    BY <2>1, <2>2, <2>3, <2>4 DEF TypeOK, RestoreTypes, ControlTypes, DataTypes, Jobs
<1> QED
  BY <1>1, RestoreInvariant, TypeInvariant, PTL

=============================================================================
