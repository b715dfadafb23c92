------------------------- MODULE PackChunkSetProofs -------------------------
(***************************************************************************)
(* A packaged bundle is of one configuration and its completion receipt    *)
(* stands for all of its parts, for any number of processes, directories,  *)
(* configurations and parts, and through any errors, deaths and resumes.   *)
(***************************************************************************)
EXTENDS PackChunkSet, FiniteSetTheorems, TLAPS

PackTypes ==
  /\ lock \in [Dirs -> SUBSET Procs]
  /\ file \in [Dirs -> [Names -> States]]
  /\ pc \in [Procs -> Points]
  /\ call \in [Procs -> CallsOf \cup {NoCall}]
  /\ index \in [Procs -> 1 .. NumParts + 1]
  /\ DOMAIN job = Procs /\ DOMAIN result = Procs /\ DOMAIN failures = Dirs
  /\ powerLost \in BOOLEAN

Working(p) == pc[p] \notin {"idle", "mkdir", "lock"}
Writing(p) == pc[p] \in {"create", "fill", "sync"}

\* What a process may be writing, and where it goes on.
JobOf(p) ==
  \/ /\ job[p].name = Claim /\ job[p].content = Binding(p)
     /\ job[p].then = "begin"
  \/ /\ job[p].name \in Parts \cup {PackageSet} /\ job[p].content = Binding(p)
     /\ job[p].then \in {"part", "verify"}
  \/ /\ job[p].name = Completed /\ job[p].content = Binding(p)
     /\ job[p].then = "complete"
  \/ /\ job[p].name \notin {Claim} \cup PackMembers /\ job[p].content = "receipt"
     /\ job[p].then \in {"pass", "raised"}

Finished(p) == Verified(p) /\ Here(p)[Completed] = Binding(p)

\* Where the claim is the process's own, and where the bundle is finished.
HasClaim(p) ==
  \/ pc[p] \in {"begin", "part", "verify", "complete"}
  \/ Writing(p) /\ job[p].then \in {"part", "verify", "complete"}
HasFinished(p) == pc[p] = "complete" \/ (Writing(p) /\ job[p].then = "pass")

\* The lock, the write in progress, and what a process found before it went on.
ProcInv(p) ==
  /\ pc[p] # "idle" => call[p] \in CallsOf
  /\ Working(p) => lock[Dir(p)] = {p}
  /\ Writing(p) => JobOf(p)
  /\ HasClaim(p) => Here(p)[Claim] = Binding(p)
  /\ job[p].name \in Names =>
       /\ pc[p] = "fill" => Here(p)[job[p].name] = "torn"
       /\ pc[p] = "sync" => Here(p)[job[p].name] = job[p].content
  /\ pc[p] = "fill" /\ job[p].then = "begin" =>
       \A n \in Names : Here(p)[n] \notin Bindings
  /\ Writing(p) /\ job[p].then = "complete" => Verified(p)
  /\ HasFinished(p) => Finished(p)

\* A configuration is in a directory only after its claim, which may have
\* become unreadable since.
ClaimedFirst ==
  \A d \in Dirs, n \in Names :
    file[d][n] \in Bindings => file[d][Claim] \in {file[d][n], "torn"}

BundleInv == ClaimedFirst /\ OneConfiguration /\ CompletedIsWhole

PackInv == PackTypes /\ (\A p \in Procs : ProcInv(p)) /\ BundleInv

-----------------------------------------------------------------------------
LEMMA NameFacts ==
  /\ Claim \in Names /\ Completed \in Names /\ PackageSet \in Names
  /\ Parts \subseteq Names
  /\ Claim \notin PackMembers /\ Completed \notin Parts \cup {PackageSet}
  /\ PackageSet \notin Parts
  /\ \A n : Receipt(n) \notin {Claim} \cup PackMembers
  /\ Claim \notin Sized
  /\ PackMembers = {PackageSet, Completed} \cup Parts
BY PartAssumption
   DEF Claim, Completed, PackageSet, Part, Parts, PackMembers, Names, Receipt

LEMMA ContentFacts ==
  /\ Bindings \subseteq States /\ "receipt" \in States
  /\ "torn" \in States /\ "absent" \in States
  /\ "torn" \notin Bindings /\ "absent" \notin Bindings
  /\ "bad" \notin Bindings /\ "receipt" \notin Bindings
BY ContentAssumption DEF States, Contents

\* What a step of one process does to the others and to the files.
Others(p) ==
  /\ \A q \in Procs \ {p} :
       pc'[q] = pc[q] /\ call'[q] = call[q] /\ job'[q] = job[q]
         /\ result'[q] = result[q]
  /\ \A d \in Dirs :
       \/ lock'[d] = lock[d] \/ lock'[d] = lock[d] \ {p}
       \/ lock[d] = {} /\ lock'[d] = {p}

CreatesFile(p) ==
  /\ pc[p] = "create" /\ Here(p)[job[p].name] = "absent"
  /\ file' = [file EXCEPT ![Dir(p)][job[p].name] = "torn"]

FillsFile(p) ==
  /\ pc[p] = "fill"
  /\ file' = [file EXCEPT ![Dir(p)][job[p].name] = job[p].content]

MovesPart(p) ==
  /\ pc[p] = "part"
  /\ \E n \in Parts :
       /\ Here(p)[n] = "torn"
       /\ file' = [file EXCEPT ![Dir(p)][n] = "absent"]

Files(p) ==
  \/ file' = file /\ failures' = failures
  \/ (CreatesFile(p) \/ FillsFile(p)) /\ failures' = failures
  \/ /\ MovesPart(p)
     /\ \A d \in Dirs : failures[d] \subseteq failures'[d]
     /\ failures'[Dir(p)] # failures[Dir(p)]

\* A call returns a result only for a whole bundle.
Answers(p) == result[p] # "pass" /\ result'[p] = "pass" => Finished(p)

Effect(p) ==
  /\ PackTypes' /\ Others(p) /\ Files(p) /\ ProcInv(p)' /\ Answers(p)
  /\ powerLost' = powerLost

-----------------------------------------------------------------------------
(* The ends of a call, and the start of a write.                           *)

LEMMA EndEffect ==
  ASSUME PackInv, NEW p \in Procs, pc[p] # "idle", NEW r, End(p, r),
         r = "pass" => Finished(p),
         UNCHANGED <<file, failures, powerLost>>,
         index' \in [Procs -> 1 .. NumParts + 1]
  PROVE  Effect(p)
<1>1. PackTypes /\ ProcInv(p) /\ Dir(p) \in Dirs
  BY DEF PackInv, ProcInv, CallsOf, Dir
<1>2. /\ pc' = [pc EXCEPT ![p] = "idle"] /\ call' = [call EXCEPT ![p] = NoCall]
      /\ job' = [job EXCEPT ![p] = NoJob] /\ result' = [result EXCEPT ![p] = r]
      /\ lock' = [lock EXCEPT ![Dir(p)] = @ \ {p}]
  BY DEF End
<1>3. PackTypes'
  BY <1>1, <1>2 DEF PackTypes, Points
<1>4. Others(p)
  BY <1>1, <1>2 DEF PackTypes, Others
<1>5. ProcInv(p)'
  <2>1. pc'[p] = "idle"
    BY <1>1, <1>2 DEF PackTypes
  <2> QED
    BY <2>1 DEF ProcInv, Working, Writing, HasClaim, HasFinished
<1>6. Answers(p)
  BY <1>1, <1>2 DEF PackTypes, Answers
<1> QED
  BY <1>3, <1>4, <1>5, <1>6 DEF Effect, Files

LEMMA WriteEffect ==
  ASSUME PackInv, NEW p \in Procs, Working(p),
         NEW n, NEW c, NEW then, Write(p, n, c, then),
         \/ n = Claim /\ c = Binding(p) /\ then = "begin"
         \/ /\ n \in Parts \cup {PackageSet} /\ c = Binding(p)
            /\ then \in {"part", "verify"}
         \/ n = Completed /\ c = Binding(p) /\ then = "complete"
         \/ /\ n \notin {Claim} \cup PackMembers /\ c = "receipt"
            /\ then \in {"pass", "raised"},
         then \in {"part", "verify", "complete"} => Here(p)[Claim] = Binding(p),
         then = "complete" => Verified(p),
         then = "pass" => Finished(p),
         UNCHANGED <<lock, file, failures, powerLost>>,
         index' \in [Procs -> 1 .. NumParts + 1]
  PROVE  Effect(p)
<1>1. PackTypes /\ ProcInv(p)
  BY DEF PackInv
<1>2. /\ pc' = [pc EXCEPT ![p] = "create"]
      /\ job' = [job EXCEPT ![p] = [name |-> n, content |-> c, then |-> then]]
      /\ call' = call /\ result' = result
  BY DEF Write
<1>3. PackTypes'
  BY <1>1, <1>2 DEF PackTypes, Points
<1>4. Others(p)
  BY <1>1, <1>2 DEF PackTypes, Others
<1>5. ProcInv(p)'
  <2>1. pc'[p] = "create"
    BY <1>1, <1>2 DEF PackTypes
  <2>2. job'[p].name = n /\ job'[p].content = c /\ job'[p].then = then
    BY <1>1, <1>2 DEF PackTypes
  <2>3. /\ Dir(p)' = Dir(p) /\ Binding(p)' = Binding(p) /\ Here(p)' = Here(p)
        /\ Verified(p)' = Verified(p) /\ Finished(p)' = Finished(p)
    BY <1>2 DEF Dir, Binding, Here, Verified, Whole, Finished
  <2>4. call'[p] \in CallsOf /\ lock'[Dir(p)'] = {p}
    BY <1>1, <1>2, <2>3 DEF ProcInv, Working
  <2>5. JobOf(p)'
    BY <2>2, <2>3 DEF JobOf
  <2>6. HasClaim(p)' => Here(p)'[Claim] = Binding(p)'
    BY <2>1, <2>2, <2>3 DEF HasClaim, Writing
  <2>7. HasFinished(p)' => Finished(p)'
    BY <2>1, <2>2, <2>3 DEF HasFinished
  <2>8. Writing(p)' /\ job'[p].then = "complete" => Verified(p)'
    BY <2>2, <2>3
  <2> QED
    BY <2>1, <2>4, <2>5, <2>6, <2>7, <2>8 DEF ProcInv
<1>6. Answers(p)
  BY <1>2 DEF Answers
<1> QED
  BY <1>3, <1>4, <1>5, <1>6 DEF Effect, Files

LEMMA RaiseEffect ==
  ASSUME PackInv, NEW p \in Procs, Working(p), Raise(p),
         UNCHANGED <<file, failures, index, powerLost>>
  PROVE  Effect(p)
<1>1. pc[p] # "idle" /\ index' \in [Procs -> 1 .. NumParts + 1]
  BY DEF Working, PackInv, PackTypes
<1>2. CASE End(p, "none")
  BY <1>1, <1>2, EndEffect
<1>3. CASE Write(p, Receipt(attempt[p]), "receipt", "raised") /\ UNCHANGED lock
  <2>1. Receipt(attempt[p]) \notin {Claim} \cup PackMembers
    BY NameFacts
  <2> DEFINE n == Receipt(attempt[p])
  <2> HIDE DEF n
  <2>2. Write(p, n, "receipt", "raised") /\ n \notin {Claim} \cup PackMembers
    BY <1>3, <2>1 DEF n
  <2> QED
    BY <1>1, <1>3, <2>2, WriteEffect
<1> QED
  BY <1>2, <1>3 DEF Raise

-----------------------------------------------------------------------------
(* claim_directory and the writing of a file.                              *)

LEMMA CallEffect ==
  ASSUME PackInv, NEW p \in Procs, Call(p)
  PROVE  Effect(p)
<1>1. PackTypes
  BY DEF PackInv
<1>2. PICK c \in CallsOf : Calls(p, c)
  BY DEF Call
<1>3. /\ pc' = [pc EXCEPT ![p] = "mkdir"] /\ call' = [call EXCEPT ![p] = c]
      /\ result' = [result EXCEPT ![p] = "none"]
      /\ UNCHANGED <<lock, file, job, powerLost>>
  BY <1>2 DEF Calls, dirVars, boundVars
<1>4. UNCHANGED <<index, failures>>
  BY DEF Call
<1>5. PackTypes'
  BY <1>1, <1>3, <1>4 DEF PackTypes, Points
<1>6. pc'[p] = "mkdir" /\ call'[p] \in CallsOf
  BY <1>1, <1>3 DEF PackTypes
<1>7. ProcInv(p)'
  BY <1>6 DEF ProcInv, Working, Writing, HasClaim, HasFinished
<1>8. Others(p)
  BY <1>1, <1>3 DEF PackTypes, Others
<1>9. Answers(p)
  BY <1>1, <1>3 DEF PackTypes, Answers
<1> QED
  BY <1>3, <1>4, <1>5, <1>7, <1>8, <1>9 DEF Effect, Files

\* A step that moves a process to a point and changes nothing else of it.
LEMMA GotoEffect ==
  ASSUME PackInv, NEW p \in Procs, pc[p] # "idle",
         NEW point \in {"lock", "claim", "begin", "part", "verify", "complete"},
         pc' = [pc EXCEPT ![p] = point],
         UNCHANGED <<call, result, file, failures, powerLost>>,
         job' = job \/ job' = [job EXCEPT ![p] = NoJob],
         lock' = lock \/ (lock[Dir(p)] = {} /\ lock' = [lock EXCEPT ![Dir(p)] = {p}]),
         index' \in [Procs -> 1 .. NumParts + 1],
         point # "lock" => lock'[Dir(p)] = {p},
         point \in {"begin", "part", "verify", "complete"} =>
           Here(p)[Claim] = Binding(p),
         point = "complete" => Finished(p)
  PROVE  Effect(p)
<1>1. PackTypes /\ call[p] \in CallsOf /\ Dir(p) \in Dirs
  BY DEF PackInv, ProcInv, CallsOf, Dir
<1>2. PackTypes'
  BY <1>1 DEF PackTypes, Points
<1>3. pc'[p] = point
  BY <1>1 DEF PackTypes
<1>4. /\ Dir(p)' = Dir(p) /\ Binding(p)' = Binding(p) /\ Here(p)' = Here(p)
      /\ Finished(p)' = Finished(p)
  BY DEF Dir, Binding, Here, Verified, Whole, Finished
<1>5. ProcInv(p)'
  <2>1. ~Writing(p)'
    BY <1>3 DEF Writing
  <2>2. HasClaim(p)' => Here(p)'[Claim] = Binding(p)'
    BY <1>3, <1>4, <2>1 DEF HasClaim
  <2>3. HasFinished(p)' => Finished(p)'
    BY <1>3, <1>4, <2>1 DEF HasFinished
  <2>4. Working(p)' => lock'[Dir(p)'] = {p}
    BY <1>3, <1>4 DEF Working
  <2>5. call'[p] \in CallsOf
    BY <1>1
  <2> QED
    BY <1>3, <2>1, <2>2, <2>3, <2>4, <2>5 DEF ProcInv
<1>6. Others(p)
  BY <1>1 DEF PackTypes, Others
<1> QED
  BY <1>2, <1>5, <1>6 DEF Effect, Files, Answers

LEMMA MkdirEffect ==
  ASSUME PackInv, NEW p \in Procs, Mkdir(p), UNCHANGED <<index, failures>>
  PROVE  Effect(p)
<1>1. /\ pc[p] = "mkdir" /\ UNCHANGED <<file, powerLost>>
      /\ index' \in [Procs -> 1 .. NumParts + 1]
  BY DEF Mkdir, boundVars, PackInv, PackTypes
<1>2. CASE End(p, "none")
  BY <1>1, <1>2, EndEffect
<1>3. CASE Goto(p, "lock") /\ UNCHANGED lock
  BY <1>1, <1>3, GotoEffect DEF Goto
<1> QED
  BY <1>2, <1>3 DEF Mkdir

LEMMA LockEffect ==
  ASSUME PackInv, NEW p \in Procs, Lock(p), UNCHANGED <<index, failures>>
  PROVE  Effect(p)
<1>1. /\ pc[p] = "lock" /\ UNCHANGED <<file, powerLost>>
      /\ index' \in [Procs -> 1 .. NumParts + 1]
  BY DEF Lock, boundVars, PackInv, PackTypes
<1>2. CASE End(p, "none")
  BY <1>1, <1>2, EndEffect
<1>3. CASE /\ lock[Dir(p)] = {} /\ lock' = [lock EXCEPT ![Dir(p)] = {p}]
           /\ Goto(p, "claim")
  <2>1. Dir(p) \in Dirs /\ lock \in [Dirs -> SUBSET Procs]
    BY <1>1 DEF PackInv, PackTypes, ProcInv, CallsOf, Dir
  <2>2. lock'[Dir(p)] = {p}
    BY <1>3, <2>1
  <2> QED
    BY <1>1, <1>3, <2>2, GotoEffect DEF Goto
<1> QED
  BY <1>2, <1>3 DEF Lock

LEMMA ClaimEffect ==
  ASSUME PackInv, NEW p \in Procs, CheckClaim(p), UNCHANGED <<index, failures>>
  PROVE  Effect(p)
<1>1. /\ pc[p] = "claim" /\ UNCHANGED <<file, powerLost>>
      /\ index' \in [Procs -> 1 .. NumParts + 1]
  BY DEF CheckClaim, boundVars, PackInv, PackTypes
<1>2. Working(p) /\ lock[Dir(p)] = {p}
  BY <1>1 DEF Working, PackInv, ProcInv
<1>3. CASE End(p, "none")
  BY <1>1, <1>3, EndEffect
<1>4. CASE ClaimMatches(p) /\ Goto(p, "begin") /\ UNCHANGED lock
  BY <1>1, <1>2, <1>4, GotoEffect DEF Goto, ClaimMatches
<1>5. CASE Write(p, Claim, Binding(p), "begin") /\ UNCHANGED lock
  BY <1>1, <1>2, <1>5, WriteEffect
<1> QED
  BY <1>3, <1>4, <1>5 DEF CheckClaim

\* While a file is written, what was found before stays as it was.
LEMMA WritingKeeps ==
  ASSUME PackInv, NEW p \in Procs, pc[p] \in {"create", "fill"},
         pc' = [pc EXCEPT ![p] = IF pc[p] = "create" THEN "fill" ELSE "sync"],
         UNCHANGED <<call, job, lock>>,
         \A m \in Names : Here(p)[m] \in Bindings => file'[Dir(p)][m] = Here(p)[m]
  PROVE  /\ call'[p] \in CallsOf /\ lock'[Dir(p)'] = {p}
         /\ JobOf(p)'
         /\ HasClaim(p)' => Here(p)'[Claim] = Binding(p)'
         /\ Writing(p)' /\ job'[p].then = "complete" => Verified(p)'
         /\ HasFinished(p)' => Finished(p)'
<1>1. /\ Working(p) /\ Writing(p) /\ PackTypes /\ ProcInv(p)
      /\ call[p] \in CallsOf
  BY DEF Working, Writing, PackInv, ProcInv
<1>2. /\ Binding(p) \in Bindings /\ Binding(p)' = Binding(p) /\ Dir(p)' = Dir(p)
  BY <1>1 DEF Binding, CallsOf, Dir
<1>3. \A m \in Names : Here(p)[m] \in Bindings => Here(p)'[m] = Here(p)[m]
  BY <1>2 DEF Here
<1>4. Verified(p) => Verified(p)'
  BY <1>2, <1>3, NameFacts DEF Verified, Whole, Here
<1>5. Finished(p) => Finished(p)'
  BY <1>2, <1>3, <1>4, NameFacts DEF Finished
<1>6. pc'[p] \in {"fill", "sync"}
  BY <1>1 DEF PackTypes
<1>7. /\ HasClaim(p)' => HasClaim(p)
      /\ HasFinished(p)' => HasFinished(p)
  BY <1>1, <1>6 DEF HasClaim, HasFinished, Writing
<1>8. HasClaim(p)' => Here(p)'[Claim] = Binding(p)'
  BY <1>1, <1>2, <1>3, <1>7, NameFacts DEF ProcInv
<1>9. HasFinished(p)' => Finished(p)'
  BY <1>1, <1>5, <1>7 DEF ProcInv
<1>10. JobOf(p)'
  BY <1>1, <1>2 DEF ProcInv, JobOf
<1>11. Writing(p)' /\ job'[p].then = "complete" => Verified(p)'
  BY <1>1, <1>4 DEF ProcInv
<1>12. call'[p] \in CallsOf /\ lock'[Dir(p)'] = {p}
  BY <1>1, <1>2 DEF ProcInv
<1> QED
  BY <1>8, <1>9, <1>10, <1>11, <1>12

LEMMA CreateEffect ==
  ASSUME PackInv, NEW p \in Procs, Create(p), UNCHANGED <<index, failures>>
  PROVE  Effect(p)
<1>1. pc[p] = "create" /\ UNCHANGED powerLost
  BY DEF Create, boundVars
<1>2. /\ Working(p) /\ Writing(p) /\ PackTypes /\ ProcInv(p) /\ BundleInv
      /\ call[p] \in CallsOf /\ Dir(p) \in Dirs
  BY <1>1 DEF Working, Writing, PackInv, ProcInv, CallsOf, Dir
<1>3. CASE Raise(p) /\ UNCHANGED <<file, unsynced>>
  BY <1>1, <1>2, <1>3, RaiseEffect
<1>4. CASE /\ ~Present(p, job[p].name)
           /\ file' = [file EXCEPT ![Dir(p)][job[p].name] = "torn"]
           /\ Goto(p, "fill") /\ UNCHANGED lock
  <2> DEFINE n == job[p].name
  <2>1. Here(p)[n] = "absent"
    BY <1>4 DEF Present, Exists, Here
  <2>2. /\ pc' = [pc EXCEPT ![p] = "fill"] /\ pc'[p] = "fill"
        /\ UNCHANGED <<call, job, result, lock>>
    BY <1>2, <1>4 DEF Goto, PackTypes
  <2>3. file' \in [Dirs -> [Names -> States]]
    BY <1>2, <1>4, ContentFacts DEF PackTypes
  <2>4. PackTypes'
    BY <1>1, <1>2, <2>2, <2>3 DEF PackTypes, Points
  <2>5. \A m \in Names : /\ m = n => file'[Dir(p)][m] = "torn"
                         /\ m # n => file'[Dir(p)][m] = file[Dir(p)][m]
    BY <1>2, <1>4 DEF PackTypes
  <2>6. \A m \in Names : Here(p)[m] \in Bindings => file'[Dir(p)][m] = Here(p)[m]
    BY <2>1, <2>5, ContentFacts DEF Here
  <2>7. ASSUME job[p].then = "begin", NEW m \in Names
        PROVE  Here(p)'[m] \notin Bindings
    <3>1. n = Claim
      BY <1>2, <2>7 DEF ProcInv, JobOf
    <3>2. Here(p)[m] \notin Bindings
      BY <1>2, <2>1, <3>1, ContentFacts DEF BundleInv, ClaimedFirst, Here
    <3> QED
      BY <2>2, <2>5, <3>2, ContentFacts DEF Here, Dir
  <2>8. job'[p].name \in Names => Here(p)'[job'[p].name] = "torn"
    BY <2>2, <2>5 DEF Here, Dir
  <2>9. ProcInv(p)'
    <3>1. \A m \in Names : job'[p].then = "begin" => Here(p)'[m] \notin Bindings
      BY <2>2, <2>7
    <3> QED
      BY <1>1, <2>2, <2>6, <2>8, <3>1, WritingKeeps DEF ProcInv
  <2>10. Others(p)
    BY <1>2, <2>2 DEF PackTypes, Others
  <2>11. CreatesFile(p)
    BY <1>1, <1>4, <2>1 DEF CreatesFile
  <2> QED
    BY <1>1, <2>2, <2>4, <2>9, <2>10, <2>11 DEF Effect, Files, Answers
<1> QED
  BY <1>3, <1>4 DEF Create

LEMMA FillEffect ==
  ASSUME PackInv, NEW p \in Procs, Fill(p), UNCHANGED <<index, failures>>
  PROVE  Effect(p)
<1> DEFINE n == job[p].name
<1>1. /\ pc[p] = "fill" /\ UNCHANGED <<lock, powerLost>>
      /\ file' = [file EXCEPT ![Dir(p)][n] = job[p].content]
  BY DEF Fill, boundVars
<1>2. /\ Writing(p) /\ PackTypes /\ ProcInv(p)
      /\ call[p] \in CallsOf /\ Dir(p) \in Dirs
  BY <1>1 DEF Writing, PackInv, ProcInv, CallsOf, Dir
<1>3. /\ pc' = [pc EXCEPT ![p] = "sync"] /\ pc'[p] = "sync"
      /\ UNCHANGED <<call, job, result>>
  BY <1>2 DEF Fill, Goto, PackTypes
<1>4. job[p].content \in States
  <2>1. Binding(p) \in Bindings
    BY <1>2 DEF Binding, CallsOf
  <2> QED
    BY <1>2, <2>1, ContentFacts DEF ProcInv, JobOf
<1>5. file' \in [Dirs -> [Names -> States]]
  BY <1>1, <1>2, <1>4 DEF PackTypes
<1>6. PackTypes'
  BY <1>1, <1>2, <1>3, <1>5 DEF PackTypes, Points
<1>7. \A m \in Names : /\ m = n => file'[Dir(p)][m] = job[p].content
                       /\ m # n => file'[Dir(p)][m] = file[Dir(p)][m]
  BY <1>1, <1>2 DEF PackTypes
<1>8. \A m \in Names : Here(p)[m] \in Bindings => file'[Dir(p)][m] = Here(p)[m]
  BY <1>1, <1>2, <1>7, ContentFacts DEF Here, ProcInv
<1>9. job'[p].name \in Names => Here(p)'[job'[p].name] = job'[p].content
  BY <1>3, <1>7 DEF Here, Dir
<1>10. ProcInv(p)'
  BY <1>1, <1>3, <1>8, <1>9, WritingKeeps DEF ProcInv
<1>11. Others(p)
  BY <1>1, <1>2, <1>3 DEF PackTypes, Others
<1>12. FillsFile(p)
  BY <1>1 DEF FillsFile
<1> QED
  BY <1>1, <1>3, <1>6, <1>10, <1>11, <1>12 DEF Effect, Files, Answers

LEMMA SyncEffect ==
  ASSUME PackInv, NEW p \in Procs, Sync(p), UNCHANGED <<index, failures>>
  PROVE  Effect(p)
<1>1. /\ pc[p] = "sync" /\ UNCHANGED <<file, powerLost>>
      /\ index' \in [Procs -> 1 .. NumParts + 1]
  BY DEF Sync, boundVars, PackInv, PackTypes
<1>2. /\ Writing(p) /\ Working(p) /\ ProcInv(p) /\ JobOf(p) /\ lock[Dir(p)] = {p}
  BY <1>1 DEF Writing, Working, PackInv, ProcInv
<1>3. CASE job[p].then \in {"pass", "raised"}
  <2> DEFINE r == IF job[p].then = "pass" THEN "pass" ELSE "none"
  <2>1. End(p, r)
    BY <1>3 DEF Sync
  <2>2. r = "pass" => Finished(p)
    BY <1>2 DEF ProcInv, HasFinished
  <2> HIDE DEF r
  <2> QED
    BY <1>1, <2>1, <2>2, EndEffect
<1>4. CASE job[p].then \notin {"pass", "raised"}
  <2> DEFINE t == job[p].then
  <2>1. /\ pc' = [pc EXCEPT ![p] = t] /\ job' = [job EXCEPT ![p] = NoJob]
        /\ UNCHANGED <<lock, call, result>>
    BY <1>4 DEF Sync
  <2>2. t \in {"begin", "part", "verify", "complete"}
    BY <1>2, <1>4 DEF JobOf
  <2>3. Here(p)[Claim] = Binding(p)
    <3>1. CASE t = "begin"
      BY <1>1, <1>2, <3>1, NameFacts DEF JobOf, ProcInv
    <3>2. CASE t # "begin"
      BY <1>2, <2>2, <3>2 DEF ProcInv, HasClaim
    <3> QED
      BY <3>1, <3>2
  <2>4. t = "complete" => Finished(p)
    BY <1>1, <1>2, NameFacts DEF JobOf, ProcInv, Finished
  <2> HIDE DEF t
  <2> QED
    BY <1>1, <1>2, <2>1, <2>2, <2>3, <2>4, GotoEffect
<1> QED
  BY <1>3, <1>4

-----------------------------------------------------------------------------
(* pack_chunk_set.                                                         *)

\* What a process knows when it stands inside the claimed directory.
LEMMA Inside ==
  ASSUME PackInv, NEW p \in Procs, pc[p] \in {"begin", "part", "verify", "complete"}
  PROVE  /\ Working(p) /\ pc[p] # "idle" /\ lock[Dir(p)] = {p}
         /\ Here(p)[Claim] = Binding(p)
         /\ index[p] \in 1 .. NumParts + 1
BY PartAssumption DEF Working, HasClaim, ProcInv, PackInv, PackTypes

LEMMA BeginEffect ==
  ASSUME PackInv, NEW p \in Procs, Begin(p)
  PROVE  Effect(p)
<1>1. /\ pc[p] = "begin" /\ UNCHANGED <<file, failures, powerLost>>
      /\ index' = [index EXCEPT ![p] = 1]
  BY DEF Begin, boundVars
<1>2. index' \in [Procs -> 1 .. NumParts + 1]
  BY <1>1, PartAssumption DEF PackInv, PackTypes
<1>3. CASE /\ attempt' = [attempt EXCEPT ![p] = Number(p)]
           /\ pc' = [pc EXCEPT ![p] = "part"]
           /\ UNCHANGED <<lock, call, job, result>>
  BY <1>1, <1>2, <1>3, Inside, GotoEffect
<1>4. CASE Replayable(p) /\ End(p, "pass")
  <2>1. Finished(p)
    BY <1>4 DEF Replayable, Finished, Verified
  <2> QED
    BY <1>1, <1>2, <1>4, <2>1, Inside, EndEffect
<1>5. CASE /\ pc' = [pc EXCEPT ![p] = "create"]
           /\ job' = [job EXCEPT ![p] = [name |-> Receipt(Number(p)),
                                         content |-> "receipt", then |-> "raised"]]
           /\ UNCHANGED <<lock, call, result>>
  <2> DEFINE n == Receipt(Number(p))
  <2>1. n \notin {Claim} \cup PackMembers
    BY NameFacts
  <2> HIDE DEF n
  <2>2. PackTypes' /\ Others(p)
    BY <1>1, <1>2, <1>5 DEF PackInv, PackTypes, Points, Others
  <2>3. /\ pc'[p] = "create" /\ job'[p].name = n /\ job'[p].content = "receipt"
        /\ job'[p].then = "raised"
    BY <1>5 DEF PackInv, PackTypes, n
  <2>4. JobOf(p)'
    BY <2>1, <2>3 DEF JobOf
  <2>5. call'[p] \in CallsOf /\ lock'[Dir(p)'] = {p}
    BY <1>1, <1>5, Inside DEF PackInv, ProcInv, Dir
  <2>6. ProcInv(p)'
    BY <2>3, <2>4, <2>5 DEF ProcInv, HasClaim, HasFinished
  <2> QED
    BY <1>1, <1>5, <2>2, <2>6 DEF Effect, Files, Answers
<1> QED
  BY <1>3, <1>4, <1>5 DEF Begin

LEMMA ArchiveEffect ==
  ASSUME PackInv, NEW p \in Procs, Archive(p)
  PROVE  Effect(p)
<1>1. /\ pc[p] = "part" /\ UNCHANGED <<index, powerLost>> /\ index[p] \in 1 .. NumParts
      /\ Here(p)[Part(index[p])] = "torn"
  BY PartAssumption DEF Archive, boundVars, PackInv, PackTypes
<1>2. /\ Working(p) /\ pc[p] # "idle" /\ PackTypes /\ ProcInv(p)
      /\ call[p] \in CallsOf /\ Dir(p) \in Dirs
  BY <1>1, Inside DEF PackInv, ProcInv, CallsOf, Dir
<1>3. CASE Raise(p) /\ UNCHANGED <<failures, file, unsynced>>
  BY <1>1, <1>2, <1>3, RaiseEffect
<1>4. CASE /\ Archivable(p, index[p])
           /\ failures' = [failures EXCEPT ![Dir(p)] =
                             @ \cup {<<index[p], attempt[p]>>}]
           /\ file' = [file EXCEPT ![Dir(p)][Part(index[p])] = "absent"]
           /\ UNCHANGED <<procVars, lock>>
  <2> DEFINE n == Part(index[p])
             k == <<index[p], attempt[p]>>
  <2>1. n \in Parts
    BY <1>1 DEF Parts
  <2>2. UNCHANGED <<pc, call, job, result, lock>>
    BY <1>4 DEF procVars
  <2>3. k \notin failures[Dir(p)]
    BY <1>4 DEF Archivable, Kept
  <2> HIDE DEF n, k
  <2>4. /\ file' = [file EXCEPT ![Dir(p)][n] = "absent"] /\ Here(p)[n] = "torn"
        /\ failures' = [failures EXCEPT ![Dir(p)] = @ \cup {k}]
    BY <1>1, <1>4 DEF n, k
  <2>5. file' \in [Dirs -> [Names -> States]]
    BY <1>2, <2>4, ContentFacts DEF PackTypes
  <2>6. PackTypes'
    BY <1>1, <1>2, <2>2, <2>4, <2>5 DEF PackTypes
  <2>7. Others(p)
    BY <2>2 DEF Others
  <2>8. ProcInv(p)'
    <3>1. Here(p)'[Claim] = Here(p)[Claim]
      BY <1>2, <2>1, <2>2, <2>4, NameFacts DEF Here, Dir, PackTypes
    <3>2. Dir(p)' = Dir(p) /\ Binding(p)' = Binding(p)
      BY <2>2 DEF Dir, Binding
    <3>3. pc'[p] = "part" /\ call'[p] \in CallsOf /\ lock'[Dir(p)'] = {p}
      BY <1>1, <1>2, <2>2, <3>2 DEF ProcInv
    <3>4. Here(p)'[Claim] = Binding(p)'
      BY <1>1, <3>1, <3>2, Inside
    <3> QED
      BY <3>3, <3>4 DEF ProcInv, HasFinished, Writing
  <2>9. /\ \A d \in Dirs : failures[d] \subseteq failures'[d]
        /\ failures'[Dir(p)] # failures[Dir(p)]
    BY <1>2, <2>3, <2>4 DEF PackTypes
  <2>10. MovesPart(p)
    BY <1>1, <2>1, <2>4 DEF MovesPart
  <2> QED
    BY <1>1, <2>2, <2>6, <2>7, <2>8, <2>9, <2>10 DEF Effect, Files, Answers
<1> QED
  BY <1>3, <1>4 DEF Archive

LEMMA PackEffect ==
  ASSUME PackInv, NEW p \in Procs, Pack(p)
  PROVE  Effect(p)
<1>1. /\ pc[p] = "part" /\ UNCHANGED <<file, failures, powerLost>>
      /\ index[p] \in 1 .. NumParts
  BY PartAssumption DEF Pack, boundVars, PackInv, PackTypes
<1>2. index \in [Procs -> 1 .. NumParts + 1] /\ NumParts \in Nat
  BY PartAssumption DEF PackInv, PackTypes
<1>3. CASE Write(p, Part(index[p]), Binding(p), "part") /\ UNCHANGED <<lock, index>>
  <2> DEFINE n == Part(index[p])
  <2>1. n \in Parts
    BY <1>1 DEF Parts
  <2> HIDE DEF n
  <2>2. Write(p, n, Binding(p), "part")
    BY <1>3 DEF n
  <2> QED
    BY <1>1, <1>2, <1>3, <2>1, <2>2, Inside, WriteEffect
<1>4. CASE index' = [index EXCEPT ![p] = index[p] + 1] /\ UNCHANGED <<procVars, lock>>
  <2>1. index' \in [Procs -> 1 .. NumParts + 1]
    BY <1>1, <1>2, <1>4
  <2>2. UNCHANGED <<pc, call, job, result, lock>>
    BY <1>4 DEF procVars
  <2>3. pc' = [pc EXCEPT ![p] = "part"]
    BY <1>1, <2>2 DEF PackInv, PackTypes
  <2> QED
    BY <1>1, <2>1, <2>2, <2>3, Inside, GotoEffect
<1>5. CASE Raise(p) /\ UNCHANGED index
  BY <1>1, <1>5, Inside, RaiseEffect
<1> QED
  BY <1>3, <1>4, <1>5 DEF Pack

LEMMA DescribeEffect ==
  ASSUME PackInv, NEW p \in Procs, Describe(p)
  PROVE  Effect(p)
<1>1. /\ pc[p] = "part" /\ UNCHANGED <<file, index, failures, powerLost>>
      /\ index' \in [Procs -> 1 .. NumParts + 1]
  BY DEF Describe, boundVars, PackInv, PackTypes
<1>2. CASE Write(p, PackageSet, Binding(p), "verify") /\ UNCHANGED lock
  BY <1>1, <1>2, Inside, WriteEffect
<1>3. CASE Goto(p, "verify") /\ UNCHANGED lock
  BY <1>1, <1>3, Inside, GotoEffect DEF Goto
<1>4. CASE Raise(p)
  BY <1>1, <1>4, Inside, RaiseEffect
<1> QED
  BY <1>2, <1>3, <1>4 DEF Describe

LEMMA VerifyEffect ==
  ASSUME PackInv, NEW p \in Procs, Verify(p)
  PROVE  Effect(p)
<1>1. /\ pc[p] = "verify" /\ UNCHANGED <<file, index, failures, powerLost>>
      /\ index' \in [Procs -> 1 .. NumParts + 1]
  BY DEF Verify, boundVars, PackInv, PackTypes
<1>2. CASE Verified(p) /\ Write(p, Completed, Binding(p), "complete") /\ UNCHANGED lock
  BY <1>1, <1>2, Inside, WriteEffect
<1>3. CASE Raise(p)
  BY <1>1, <1>3, Inside, RaiseEffect
<1> QED
  BY <1>2, <1>3 DEF Verify

LEMMA CompleteEffect ==
  ASSUME PackInv, NEW p \in Procs, Complete(p)
  PROVE  Effect(p)
<1>1. /\ pc[p] = "complete" /\ UNCHANGED <<lock, file, index, failures, powerLost>>
      /\ index' \in [Procs -> 1 .. NumParts + 1]
  BY DEF Complete, dirVars, boundVars, PackInv, PackTypes
<1> DEFINE n == Receipt(attempt[p])
<1>2. n \notin {Claim} \cup PackMembers
  BY NameFacts
<1>3. Finished(p)
  BY <1>1 DEF PackInv, ProcInv, HasFinished
<1> HIDE DEF n
<1>4. Write(p, n, "receipt", "pass")
  BY DEF Complete, n
<1> QED
  BY <1>1, <1>2, <1>3, <1>4, Inside, WriteEffect

-----------------------------------------------------------------------------
(* Errors and deaths.                                                      *)

LEMMA FailsEffect ==
  ASSUME PackInv, NEW p \in Procs, Fails(p) \/ Killed(p), UNCHANGED <<index, failures>>
  PROVE  Effect(p)
<1>1. /\ pc[p] # "idle" /\ UNCHANGED <<file, powerLost>>
      /\ index' \in [Procs -> 1 .. NumParts + 1]
  BY DEF Fails, Killed, PackInv, PackTypes
<1>2. CASE End(p, "none")
  BY <1>1, <1>2, EndEffect
<1>3. CASE Raise(p) /\ pc[p] \notin {"idle", "mkdir", "lock", "claim"}
  BY <1>1, <1>3, RaiseEffect DEF Working
<1> QED
  BY <1>2, <1>3 DEF Fails, Killed

LEMMA StepEffect ==
  ASSUME PackInv, NEW p \in Procs,
         \/ Call(p) \/ Step(p)
         \/ (Fails(p) \/ Killed(p)) /\ UNCHANGED <<index, failures>>
  PROVE  Effect(p)
<1>1. CASE ClaimStep(p)
  BY <1>1, MkdirEffect, LockEffect, ClaimEffect, CreateEffect, FillEffect, SyncEffect
     DEF ClaimStep
<1> QED
  BY <1>1, CallEffect, BeginEffect, ArchiveEffect, PackEffect, DescribeEffect,
     VerifyEffect, CompleteEffect, FailsEffect DEF Step

-----------------------------------------------------------------------------
(* The files.                                                              *)

\* A process that changes a file works in the directory, and the file was
\* absent or short.
LEMMA FileChange ==
  ASSUME PackInv, NEW p \in Procs, Files(p)
  PROVE  \/ file' = file
         \/ /\ Working(p) /\ Dir(p) \in Dirs /\ call[p] \in CallsOf
            /\ \E n, c : /\ n \in Names => file[Dir(p)][n] \in {"absent", "torn"}
                         /\ file' = [file EXCEPT ![Dir(p)][n] = c]
<1>1. CASE CreatesFile(p) \/ FillsFile(p) \/ MovesPart(p)
  <2>1. Working(p) /\ Dir(p) \in Dirs /\ call[p] \in CallsOf /\ ProcInv(p)
    BY <1>1 DEF CreatesFile, FillsFile, MovesPart, Working, PackInv, ProcInv, CallsOf, Dir
  <2>2. CASE CreatesFile(p)
    BY <2>1, <2>2 DEF CreatesFile, Here
  <2>3. CASE FillsFile(p)
    BY <2>1, <2>3 DEF FillsFile, Here, ProcInv
  <2>4. CASE MovesPart(p)
    BY <2>1, <2>4 DEF MovesPart, Here
  <2> QED
    BY <1>1, <2>2, <2>3, <2>4
<1> QED
  BY <1>1 DEF Files

LEMMA FilesKept ==
  ASSUME PackInv, NEW p \in Procs, Files(p), NEW d \in Dirs, NEW m \in Names
  PROVE  /\ file[d][m] \notin {"absent", "torn"} => file'[d][m] = file[d][m]
         /\ file'[d] # file[d] => d = Dir(p) /\ Working(p)
BY FileChange DEF PackInv, PackTypes

\* A configuration gets into a file by the process that writes its own.
LEMMA FilesNew ==
  ASSUME PackInv, NEW p \in Procs, Files(p), NEW d \in Dirs, NEW m \in Names,
         file'[d][m] \in Bindings, file'[d][m] # file[d][m]
  PROVE  /\ d = Dir(p) /\ m = job[p].name /\ Writing(p) /\ pc[p] = "fill"
         /\ JobOf(p) /\ file'[d][m] = Binding(p) /\ job[p].content = Binding(p)
         /\ FillsFile(p)
<1>1. PackTypes /\ ProcInv(p)
  BY DEF PackInv
<1>2. CASE FillsFile(p)
  <2>1. Writing(p) /\ pc[p] = "fill" /\ JobOf(p)
    BY <1>1, <1>2 DEF FillsFile, Writing, ProcInv
  <2>2. d = Dir(p) /\ m = job[p].name /\ file'[d][m] = job[p].content
    BY <1>1, <1>2 DEF FillsFile, PackTypes
  <2>3. job[p].content = Binding(p)
    BY <2>1, <2>2, ContentFacts DEF JobOf
  <2> QED
    BY <1>2, <2>1, <2>2, <2>3
<1>3. CASE CreatesFile(p)
  BY <1>1, <1>3, ContentFacts DEF CreatesFile, PackTypes
<1>4. CASE MovesPart(p)
  BY <1>1, <1>4, ContentFacts DEF MovesPart, PackTypes
<1> QED
  BY <1>2, <1>3, <1>4 DEF Files

\* Where a process writes a configuration, the claim is of that one afterwards.
LEMMA ClaimAfter ==
  ASSUME PackInv, NEW p \in Procs, Files(p), FillsFile(p), JobOf(p),
         job[p].content = Binding(p), job[p].name \in Names, Dir(p) \in Dirs
  PROVE  /\ file'[Dir(p)][Claim] = Binding(p)
         /\ job[p].name = Claim => \A n \in Names : file[Dir(p)][n] \notin Bindings
<1>1. PackTypes /\ ProcInv(p) /\ pc[p] = "fill" /\ Writing(p) /\ call[p] \in CallsOf
  BY DEF PackInv, FillsFile, Writing, ProcInv
<1>2. Binding(p) \in Bindings
  BY <1>1 DEF Binding, CallsOf
<1>3. CASE job[p].name = Claim
  <2>1. job[p].then = "begin"
    BY <1>2, <1>3, NameFacts, ContentFacts DEF JobOf
  <2>2. \A n \in Names : file[Dir(p)][n] \notin Bindings
    BY <1>1, <2>1 DEF ProcInv, Here
  <2>3. file'[Dir(p)][Claim] = Binding(p)
    BY <1>1, <1>3, NameFacts DEF FillsFile, PackTypes
  <2> QED
    BY <2>2, <2>3
<1>4. CASE job[p].name # Claim
  <2>1. job[p].then \in {"part", "verify", "complete"}
    BY <1>2, <1>4, ContentFacts DEF JobOf
  <2>2. file[Dir(p)][Claim] = Binding(p)
    BY <1>1, <2>1 DEF ProcInv, HasClaim, Here
  <2>3. file'[Dir(p)][Claim] = file[Dir(p)][Claim]
    BY <1>1, <1>4, NameFacts DEF FillsFile, PackTypes
  <2> QED
    BY <1>4, <2>2, <2>3
<1> QED
  BY <1>3, <1>4

LEMMA ClaimedStep ==
  ASSUME PackInv, NEW p \in Procs, Files(p)
  PROVE  ClaimedFirst' /\ OneConfiguration'
<1>1. ClaimedFirst /\ OneConfiguration
  BY DEF PackInv, BundleInv
<1>2. ASSUME NEW d \in Dirs, NEW n \in Names, file'[d][n] \in Bindings,
             file'[d][n] # file[d][n]
      PROVE  /\ file'[d][Claim] = file'[d][n]
             /\ n = Claim => \A m \in Names : file[d][m] \notin Bindings
  BY <1>2, FilesNew, ClaimAfter
<1>3. ASSUME NEW d \in Dirs, NEW n \in Names, file'[d][n] \in Bindings
      PROVE  file'[d][Claim] \in {file'[d][n], "torn"}
  <2>1. CASE file'[d][n] # file[d][n]
    BY <1>2, <1>3, <2>1
  <2>2. CASE file'[d][n] = file[d][n]
    <3>1. file[d][Claim] \in {file[d][n], "torn"}
      BY <1>1, <1>3, <2>2 DEF ClaimedFirst
    <3>2. CASE file[d][Claim] = file[d][n]
      BY <1>3, <2>2, <3>2, FilesKept, NameFacts, ContentFacts
    <3>3. CASE file[d][Claim] = "torn"
      <4>1. CASE file'[d][Claim] \in Bindings
        BY <1>2, <1>3, <2>2, <3>3, <4>1, NameFacts, ContentFacts
      <4>2. CASE file'[d][Claim] \notin Bindings
        <5>1. CASE file' = file
          BY <3>3, <5>1
        <5>2. CASE CreatesFile(p)
          BY <3>3, <5>2, NameFacts DEF CreatesFile, PackInv, PackTypes, Here
        <5>3. CASE FillsFile(p)
          <6>1. PackTypes /\ ProcInv(p) /\ JobOf(p) /\ call[p] \in CallsOf
            BY <5>3 DEF FillsFile, PackInv, ProcInv, Writing
          <6>2. job[p].name = Claim => job[p].content \in Bindings
            BY <6>1, NameFacts DEF JobOf, Binding, CallsOf
          <6> QED
            BY <3>3, <4>2, <5>3, <6>1, <6>2, NameFacts DEF FillsFile, PackTypes
        <5>4. CASE MovesPart(p)
          BY <3>3, <5>4, NameFacts DEF MovesPart, PackInv, PackTypes
        <5> QED
          BY <5>1, <5>2, <5>3, <5>4 DEF Files
      <4> QED
        BY <4>1, <4>2
    <3> QED
      BY <3>1, <3>2, <3>3
  <2> QED
    BY <2>1, <2>2
<1>4. ASSUME NEW d \in Dirs, NEW m \in Names, NEW n \in Names,
             file'[d][m] \in Bindings, file'[d][n] \in Bindings
      PROVE  file'[d][m] = file'[d][n]
  <2>1. CASE file'[d][m] = file[d][m] /\ file'[d][n] = file[d][n]
    BY <1>1, <1>4, <2>1 DEF OneConfiguration
  <2>2. CASE file'[d][m] # file[d][m] \/ file'[d][n] # file[d][n]
    <3>1. file'[d][Claim] \in Bindings
      BY <1>2, <1>4, <2>2
    <3> QED
      BY <1>3, <1>4, <3>1, ContentFacts
  <2> QED
    BY <2>1, <2>2
<1> QED
  BY <1>3, <1>4 DEF ClaimedFirst, OneConfiguration

LEMMA WholeStep ==
  ASSUME PackInv, NEW p \in Procs, Files(p), powerLost' = powerLost
  PROVE  CompletedIsWhole'
<1> SUFFICES ASSUME NEW d \in Dirs, NEW b \in Bindings,
                    file'[d][Completed] = b, ~powerLost
             PROVE  file'[d][PackageSet] = b /\ \A n \in Parts : file'[d][n] = b
  BY DEF CompletedIsWhole, Whole
<1>1. file[d][PackageSet] = b /\ \A n \in Parts : file[d][n] = b
  <2>1. CASE file[d][Completed] = b
    BY <2>1 DEF PackInv, BundleInv, CompletedIsWhole, Whole
  <2>2. CASE file[d][Completed] # b
    <3>1. /\ d = Dir(p) /\ job[p].name = Completed /\ Writing(p) /\ JobOf(p)
          /\ b = Binding(p)
      BY <2>2, FilesNew, NameFacts
    <3>2. job[p].then = "complete"
      BY <3>1, NameFacts DEF JobOf
    <3>3. Verified(p)
      BY <3>1, <3>2 DEF PackInv, ProcInv
    <3> QED
      BY <3>1, <3>3 DEF Verified, Whole, Here
  <2> QED
    BY <2>1, <2>2
<1> QED
  BY <1>1, FilesKept, NameFacts, ContentFacts

\* The lock keeps every other process apart.
LEMMA OthersKept ==
  ASSUME PackInv, NEW p \in Procs, Effect(p), NEW q \in Procs, q # p
  PROVE  ProcInv(q)'
<1>1. ProcInv(q) /\ ProcInv(p) /\ PackTypes
  BY DEF PackInv
<1>2. pc'[q] = pc[q] /\ call'[q] = call[q] /\ job'[q] = job[q]
  BY DEF Effect, Others
<1>3. Dir(q)' = Dir(q) /\ Binding(q)' = Binding(q)
  BY <1>2 DEF Dir, Binding
<1>4. CASE ~Working(q)
  BY <1>1, <1>2, <1>4 DEF ProcInv, Working, Writing, HasClaim, HasFinished
<1>5. CASE Working(q)
  <2>1. lock[Dir(q)] = {q} /\ Dir(q) \in Dirs
    BY <1>1, <1>5 DEF ProcInv, Working, CallsOf, Dir
  <2>2. lock'[Dir(q)'] = {q}
    BY <1>3, <2>1 DEF Effect, Others
  <2>3. Working(p) => Dir(p) # Dir(q)
    BY <1>1, <2>1 DEF ProcInv
  <2>4. file'[Dir(q)] = file[Dir(q)]
    BY <2>1, <2>3, FilesKept, NameFacts DEF Effect
  <2>5. Here(q)' = Here(q)
    BY <1>3, <2>4 DEF Here
  <2>6. Whole(Dir(q), Binding(q))' = Whole(Dir(q), Binding(q))
    BY <1>3, <2>4 DEF Whole
  <2>7. Verified(q)' = Verified(q) /\ Finished(q)' = Finished(q)
    BY <1>3, <2>5, <2>6 DEF Verified, Finished
  <2>8. /\ JobOf(q)' = JobOf(q) /\ Writing(q)' = Writing(q)
        /\ HasClaim(q)' = HasClaim(q) /\ HasFinished(q)' = HasFinished(q)
    BY <1>2, <1>3 DEF JobOf, Writing, HasClaim, HasFinished
  <2> QED
    BY <1>1, <1>2, <1>3, <2>2, <2>5, <2>7, <2>8 DEF ProcInv
<1> QED
  BY <1>4, <1>5

LEMMA EffectKeeps ==
  ASSUME PackInv, NEW p \in Procs, Effect(p)
  PROVE  PackInv'
<1>1. \A q \in Procs : ProcInv(q)'
  BY OthersKept DEF Effect
<1> QED
  BY <1>1, ClaimedStep, WholeStep DEF Effect, PackInv, BundleInv

LEMMA LossKeeps ==
  ASSUME PackInv, PowerLoss, UNCHANGED <<index, failures>>
  PROVE  PackInv'
<1>1. PICK lost \in SUBSET unsynced, as \in {"torn", "bad"} :
        file' = [d \in Dirs |->
                   [n \in Names |->
                      IF <<d, n>> \notin lost THEN file[d][n]
                        ELSE IF n \in Sized THEN as ELSE "torn"]]
  BY DEF PowerLoss
<1>2. /\ powerLost' = TRUE /\ lock' = [d \in Dirs |-> {}]
      /\ pc' = [p \in Procs |-> "idle"] /\ call' = [p \in Procs |-> NoCall]
      /\ job' = [p \in Procs |-> NoJob] /\ result' = [p \in Procs |-> "none"]
  BY DEF PowerLoss
<1>3. file' \in [Dirs -> [Names -> States]]
  BY <1>1 DEF PackInv, PackTypes, States
<1>4. PackTypes'
  BY <1>2, <1>3 DEF PackInv, PackTypes, Points
<1>5. \A p \in Procs : ProcInv(p)'
  BY <1>2 DEF ProcInv, Working, Writing, HasClaim, HasFinished
<1>6. \A d \in Dirs, n \in Names :
        file'[d][n] \in Bindings => file'[d][n] = file[d][n]
  BY <1>1, ContentFacts
<1>7. \A d \in Dirs : file'[d][Claim] \in {file[d][Claim], "torn"}
  BY <1>1, NameFacts
<1>8. ClaimedFirst' /\ OneConfiguration'
  BY <1>6, <1>7 DEF PackInv, BundleInv, ClaimedFirst, OneConfiguration
<1>9. CompletedIsWhole'
  BY <1>2 DEF CompletedIsWhole
<1> QED
  BY <1>4, <1>5, <1>8, <1>9 DEF PackInv, BundleInv

-----------------------------------------------------------------------------
LEMMA PackInit == Init => PackInv
<1> SUFFICES ASSUME Init
             PROVE  PackInv
  OBVIOUS
<1>1. PackTypes
  <2>1. file \in [Dirs -> [Names -> States]]
    BY ContentFacts DEF Init, ClaimInit
  <2>2. index \in [Procs -> 1 .. NumParts + 1]
    BY PartAssumption DEF Init
  <2>3. lock \in [Dirs -> SUBSET Procs] /\ call \in [Procs -> CallsOf \cup {NoCall}]
    BY DEF Init, ClaimInit
  <2>4. pc \in [Procs -> Points]
    BY DEF Init, ClaimInit, Points
  <2>5. DOMAIN job = Procs /\ DOMAIN result = Procs /\ DOMAIN failures = Dirs
    BY DEF Init, ClaimInit
  <2> QED
    BY <2>1, <2>2, <2>3, <2>4, <2>5 DEF Init, ClaimInit, PackTypes
<1>2. \A p \in Procs : pc[p] = "idle"
  BY DEF Init, ClaimInit
<1>3. \A p \in Procs : ProcInv(p)
  BY <1>2 DEF ProcInv, Working, Writing, HasClaim, HasFinished
<1>4. \A d \in Dirs, n \in Names : file[d][n] \notin Bindings
  BY ContentFacts DEF Init, ClaimInit
<1>5. BundleInv
  BY <1>4, NameFacts DEF BundleInv, ClaimedFirst, OneConfiguration, CompletedIsWhole
<1> QED
  BY <1>1, <1>3, <1>5 DEF PackInv

\* A step is a step of one process, a loss of power, or none.
LEMMA StepOrLoss ==
  ASSUME PackInv, Next
  PROVE  \/ \E p \in Procs : Effect(p)
         \/ PowerLoss /\ UNCHANGED <<index, failures>>
BY StepEffect DEF Next, Fault

LEMMA PackStutter ==
  ASSUME PackInv, UNCHANGED vars
  PROVE  PackInv'
<1> USE DEF vars, dirVars, procVars, boundVars
<1>1. PackTypes'
  BY DEF PackInv, PackTypes
<1>2. ASSUME NEW p \in Procs
      PROVE  ProcInv(p)'
  BY DEF PackInv, ProcInv, Working, Writing, JobOf, HasClaim, HasFinished, Finished,
         Verified, Whole, Here, Dir, Binding
<1>3. BundleInv'
  BY DEF PackInv, BundleInv, ClaimedFirst, OneConfiguration, CompletedIsWhole, Whole
<1> QED
  BY <1>1, <1>2, <1>3 DEF PackInv

LEMMA PackInvariant == Spec => []PackInv
<1>1. PackInv /\ [Next]_vars => PackInv'
  BY StepOrLoss, EffectKeeps, LossKeeps, PackStutter
<1> QED
  BY <1>1, PackInit, PTL DEF Spec

\* CompletedIsWhole: as long as the power stays on, a completion receipt stands
\* for the package-set and every part, for any number of processes and parts
\* and through any errors, deaths and resumes.
THEOREM CompletionMeansWhole == Spec => []CompletedIsWhole
<1>1. PackInv => CompletedIsWhole
  BY DEF PackInv, BundleInv
<1> QED
  BY <1>1, PackInvariant, PTL

\* OneConfiguration: what a directory holds is of the one configuration that
\* claimed it, after losses of power too.
THEOREM BundleOfOneConfiguration == Spec => []OneConfiguration
<1>1. PackInv => OneConfiguration
  BY DEF PackInv, BundleInv
<1> QED
  BY <1>1, PackInvariant, PTL

\* ResultIsWhole: a call returns only for a bundle whose parts, package-set and
\* receipt are all there and its own, after losses of power too.
THEOREM ResultsAreWhole == Spec => ResultIsWhole
<1> DEFINE Whole1(p) ==
      result[p] # "pass" /\ result'[p] = "pass" =>
        /\ Whole(Dir(p), Binding(p)) /\ Here(p)[PackageSet] = Binding(p)
        /\ Here(p)[Completed] = Binding(p)
<1>1. ASSUME PackInv, Next, NEW p \in Procs
      PROVE  Whole1(p)
  <2>1. CASE PowerLoss
    BY <2>1 DEF PowerLoss
  <2>2. ASSUME NEW q \in Procs, Effect(q)
        PROVE  Whole1(p)
    <3>1. CASE q = p
      BY <2>2, <3>1 DEF Effect, Answers, Finished, Verified
    <3>2. CASE q # p
      BY <2>2, <3>2 DEF Effect, Others
    <3> QED
      BY <3>1, <3>2
  <2> QED
    BY <1>1, <2>1, <2>2, StepOrLoss
<1>2. PackInv /\ [Next]_vars => [\A p \in Procs : Whole1(p)]_vars
  BY <1>1
<1> QED
  BY <1>2, PackInvariant, PTL DEF Spec, ResultIsWhole

\* NothingOverwritten: only a loss of power changes a written file, and a short
\* part goes to failures/ or nowhere.
THEOREM NeverOverwritten == Spec => NothingOverwritten
<1> DEFINE Kept1(d) ==
      /\ failures[d] \subseteq failures'[d]
      /\ \A n \in Names :
           /\ file[d][n] \in Contents \cup {"bad"} => file'[d][n] = file[d][n]
           /\ file[d][n] = "torn" /\ file'[d][n] = "absent" =>
                failures'[d] # failures[d]
<1>1. ASSUME PackInv, NEW p \in Procs, Files(p), NEW d \in Dirs
      PROVE  Kept1(d)
  <2>1. "absent" \notin Contents \cup {"bad"} /\ "torn" \notin Contents \cup {"bad"}
    BY ContentAssumption DEF Contents
  <2>2. \A n \in Names :
          file[d][n] \in Contents \cup {"bad"} => file'[d][n] = file[d][n]
    BY <1>1, <2>1, FilesKept
  <2>3. failures[d] \subseteq failures'[d]
    BY <1>1 DEF Files
  <2>4. ASSUME NEW n \in Names, file[d][n] = "torn", file'[d][n] = "absent"
        PROVE  failures'[d] # failures[d]
    <3>1. CASE MovesPart(p) /\ failures'[Dir(p)] # failures[Dir(p)]
      BY <1>1, <2>4, <3>1, FilesKept
    <3>2. CASE CreatesFile(p)
      BY <1>1, <2>4, <3>2 DEF CreatesFile, PackInv, PackTypes
    <3>3. CASE FillsFile(p)
      <4>1. JobOf(p) /\ call[p] \in CallsOf
        BY <1>1, <3>3 DEF FillsFile, PackInv, ProcInv, Writing
      <4>2. job[p].content # "absent"
        BY <4>1, ContentFacts DEF JobOf, Binding, CallsOf
      <4> QED
        BY <1>1, <2>4, <3>3, <4>2 DEF FillsFile, PackInv, PackTypes
    <3> QED
      BY <1>1, <2>4, <3>1, <3>2, <3>3 DEF Files
  <2> QED
    BY <2>2, <2>3, <2>4
<1>2. ASSUME PackInv, Next, powerLost' = powerLost, NEW d \in Dirs
      PROVE  Kept1(d)
  <2>1. ~PowerLoss
    BY <1>2 DEF PowerLoss
  <2> QED
    BY <1>1, <1>2, <2>1, StepOrLoss DEF Effect
<1>3. PackInv /\ [Next]_vars => [powerLost' = powerLost => \A d \in Dirs : Kept1(d)]_vars
  BY <1>2
<1> QED
  BY <1>3, PackInvariant, PTL DEF Spec, NothingOverwritten

-----------------------------------------------------------------------------
(* Attempt receipts: their numbers are those from 0 up, as a call counts   *)
(* them under the lock and takes the next.                                 *)

Slots == 0 .. MaxAttempts + Cardinality(Procs)

\* The numbers of the receipts in a directory.
Numbers(d) == {n \in Slots : Exists(d, Receipt(n))}

\* A call that has a number has the next one, until its receipt is there.
OwnNumber(p) ==
  /\ attempt[p] # NoAttempt =>
       /\ Working(p)
       /\ \/ Numbers(Dir(p)) = 0 .. attempt[p] - 1
          \/ /\ Numbers(Dir(p)) = 0 .. attempt[p]
             /\ Writing(p) /\ job[p].name = Receipt(attempt[p])
  /\ Writing(p) /\ job[p].content = "receipt" => job[p].name = Receipt(attempt[p])

ReceiptInv ==
  /\ attempt \in [Procs -> 0 .. NoAttempt]
  /\ \A d \in Dirs : \E k \in 0 .. NoAttempt : Numbers(d) = 0 .. k - 1
  /\ \A d \in Dirs, n \in Slots : <<d, Receipt(n)>> \in unsynced => n \in Numbers(d)
  /\ \A p \in Procs : OwnNumber(p)

SameNumbers == \A d \in Dirs : Numbers(d)' = Numbers(d)

NewReceipt(p) ==
  /\ Working(p) /\ attempt[p] \in Slots /\ Numbers(Dir(p)) = 0 .. attempt[p] - 1
  /\ \A d \in Dirs : Numbers(d)' = IF d = Dir(p) THEN 0 .. attempt[p] ELSE Numbers(d)

\* What a step of a process does to the receipts.
ReceiptEffect(p) ==
  /\ attempt' \in [Procs -> 0 .. NoAttempt]
  /\ \A q \in Procs \ {p} : attempt'[q] = attempt[q]
  /\ SameNumbers \/ NewReceipt(p)
  /\ \A d \in Dirs, n \in Slots : <<d, Receipt(n)>> \in unsynced' => n \in Numbers(d)'
  /\ OwnNumber(p)'

LEMMA SlotFacts ==
  /\ Cardinality(Procs) \in Nat /\ NoAttempt \in Nat /\ MaxAttempts \in Nat
  /\ Slots = 0 .. NoAttempt - 1 /\ NoAttempt \notin Slots
  /\ \A n \in Slots : Receipt(n) \in Receipts /\ Receipt(n) \in Names
  /\ \A m, n : Receipt(m) = Receipt(n) => m = n
  /\ \A n : Receipt(n) \notin {Claim} \cup PackMembers
<1>1. Cardinality(Procs) \in Nat /\ MaxAttempts \in Nat
  BY FS_CardinalityType, FiniteAssumption, BoundAssumption
<1>2. NoAttempt \in Nat /\ Slots = 0 .. NoAttempt - 1 /\ NoAttempt \notin Slots
  BY <1>1 DEF NoAttempt, Slots
<1>3. \A n \in Slots : Receipt(n) \in Receipts /\ Receipt(n) \in Names
  BY DEF Slots, Receipts, Names
<1>4. \A m, n : Receipt(m) = Receipt(n) => m = n
  BY DEF Receipt
<1> QED
  BY <1>1, <1>2, <1>3, <1>4, NameFacts

\* The number of a call is the first that no receipt has.
LEMMA NumberIs ==
  ASSUME NEW p \in Procs, NEW k \in 0 .. NoAttempt, Numbers(Dir(p)) = 0 .. k - 1
  PROVE  Number(p) = k
<1> DEFINE S == {n \in Receipts : Present(p, n)}
           f == [i \in 1 .. k |-> Receipt(i - 1)]
<1>1. k \in Nat /\ k <= NoAttempt
  BY SlotFacts
<1>2. \A i \in 1 .. k : i - 1 \in Slots /\ i - 1 \in Numbers(Dir(p))
  BY <1>1, SlotFacts
<1>3. f \in [1 .. k -> S]
  BY <1>2, SlotFacts DEF Numbers, Present
<1>4. ASSUME NEW x \in S
      PROVE  \E i \in 1 .. k : f[i] = x
  <2>1. PICK n \in Slots : x = Receipt(n)
    BY DEF Receipts, Slots
  <2>2. n \in Numbers(Dir(p))
    BY <2>1 DEF Numbers, Present
  <2>3. n \in 0 .. k - 1 /\ n + 1 \in 1 .. k /\ (n + 1) - 1 = n
    BY <1>1, <2>2
  <2> QED
    BY <2>1, <2>3
<1>5. ASSUME NEW i \in 1 .. k, NEW j \in 1 .. k, f[i] = f[j]
      PROVE  i = j
  <2>1. i - 1 = j - 1
    BY <1>5, SlotFacts
  <2> QED
    BY <1>1, <2>1
<1> HIDE DEF f, S
<1>6. f \in Bijection(1 .. k, S)
  BY <1>3, <1>4, <1>5 DEF Bijection, Injection, Surjection, IsInjective
<1>7. ExistsBijection(1 .. k, S)
  BY <1>6 DEF ExistsBijection
<1>8. Cardinality(S) = k
  BY <1>1, <1>7, FS_CountingElements
<1> QED
  BY <1>8 DEF Number, S

\* Which steps leave the numbers of the receipts as they are.
LEMMA NumbersKept ==
  ASSUME PackInv, NEW p \in Procs, file' = file \/ FillsFile(p) \/ MovesPart(p)
  PROVE  SameNumbers
<1> SUFFICES ASSUME NEW d \in Dirs, NEW n \in Slots
             PROVE  file'[d][Receipt(n)] = "absent" <=> file[d][Receipt(n)] = "absent"
  BY DEF SameNumbers, Numbers, Exists
<1>1. /\ Receipt(n) \in Names /\ Receipt(n) \notin {Claim} \cup PackMembers
      /\ file \in [Dirs -> [Names -> States]]
  BY SlotFacts DEF PackInv, PackTypes
<1>2. CASE FillsFile(p)
  <2>1. /\ JobOf(p) /\ call[p] \in CallsOf
        /\ job[p].name \in Names => file[Dir(p)][job[p].name] = "torn"
    BY <1>2 DEF FillsFile, PackInv, ProcInv, Writing, Here
  <2>2. job[p].content # "absent"
    BY <2>1, ContentFacts DEF JobOf, Binding, CallsOf
  <2> QED
    BY <1>1, <1>2, <2>1, <2>2 DEF FillsFile
<1>3. CASE MovesPart(p)
  BY <1>1, <1>3, NameFacts DEF MovesPart
<1> QED
  BY <1>2, <1>3

LEMMA UnsyncedKept ==
  ASSUME ReceiptInv, SameNumbers, unsynced' \subseteq unsynced
  PROVE  \A d \in Dirs, n \in Slots :
           <<d, Receipt(n)>> \in unsynced' => n \in Numbers(d)'
BY DEF ReceiptInv, SameNumbers

LEMMA EndReceipts ==
  ASSUME PackInv, ReceiptInv, NEW p \in Procs, NEW r, End(p, r),
         SameNumbers, unsynced' \subseteq unsynced
  PROVE  ReceiptEffect(p)
<1>1. attempt' = [attempt EXCEPT ![p] = NoAttempt] /\ pc' = [pc EXCEPT ![p] = "idle"]
  BY DEF End
<1>2. /\ attempt' \in [Procs -> 0 .. NoAttempt]
      /\ \A q \in Procs \ {p} : attempt'[q] = attempt[q]
  BY <1>1, SlotFacts DEF ReceiptInv
<1>3. attempt'[p] = NoAttempt /\ pc'[p] = "idle"
  BY <1>1 DEF ReceiptInv, PackInv, PackTypes
<1>4. OwnNumber(p)'
  BY <1>3 DEF OwnNumber, Writing, NoAttempt
<1> QED
  BY <1>2, <1>4, UnsyncedKept DEF ReceiptEffect

\* A step that moves a process and may start or end a write.
LEMMA MoveReceipts ==
  ASSUME PackInv, ReceiptInv, NEW p \in Procs, NEW point \in Points, NEW j,
         pc' = [pc EXCEPT ![p] = point], job'[p] = j,
         Dir(p)' = Dir(p), attempt' = attempt, SameNumbers, unsynced' \subseteq unsynced,
         attempt[p] # NoAttempt =>
           /\ point \notin {"idle", "mkdir", "lock"}
           /\ \/ Numbers(Dir(p)) = 0 .. attempt[p] - 1
              \/ point \in {"create", "fill", "sync"} /\ j.name = Receipt(attempt[p]),
         point \in {"create", "fill", "sync"} /\ j.content = "receipt" =>
           j.name = Receipt(attempt[p])
  PROVE  ReceiptEffect(p)
<1>1. pc'[p] = point /\ job'[p] = j
  BY DEF PackInv, PackTypes
<1>2. /\ Working(p)' <=> point \notin {"idle", "mkdir", "lock"}
      /\ Writing(p)' <=> point \in {"create", "fill", "sync"}
  BY <1>1 DEF Working, Writing
<1>3. Dir(p) \in Dirs => Numbers(Dir(p))' = Numbers(Dir(p))
  <2>1. ASSUME NEW d \in Dirs
        PROVE  Numbers(d)' = Numbers(d)
    BY DEF SameNumbers
  <2> QED
    BY <2>1 DEF Numbers, Exists
<1>4. attempt[p] # NoAttempt => Dir(p) \in Dirs
  BY DEF ReceiptInv, OwnNumber, Working, PackInv, ProcInv, CallsOf, Dir
<1>5. attempt[p] # NoAttempt =>
        \/ Numbers(Dir(p)) = 0 .. attempt[p] - 1
        \/ /\ Numbers(Dir(p)) = 0 .. attempt[p]
           /\ point \in {"create", "fill", "sync"} /\ j.name = Receipt(attempt[p])
  BY DEF ReceiptInv, OwnNumber
<1>6. OwnNumber(p)'
  BY <1>1, <1>2, <1>3, <1>4, <1>5 DEF OwnNumber, NoAttempt
<1> QED
  BY <1>6, UnsyncedKept DEF ReceiptEffect, ReceiptInv

\* A process that is not writing starts a write: a receipt under its number, or
\* another file.
LEMMA WriteReceipts ==
  ASSUME PackInv, ReceiptInv, NEW p \in Procs, Working(p), NEW n, NEW c, NEW then,
         Write(p, n, c, then), SameNumbers, unsynced' \subseteq unsynced,
         ~Writing(p) \/ n = Receipt(attempt[p]),
         c = "receipt" => n = Receipt(attempt[p])
  PROVE  ReceiptEffect(p)
<1> DEFINE j == [name |-> n, content |-> c, then |-> then]
<1>1. /\ pc' = [pc EXCEPT ![p] = "create"] /\ job'[p] = j
      /\ attempt' = attempt /\ call' = call
  BY DEF Write, PackInv, PackTypes
<1>2. j.name = n /\ j.content = c
  OBVIOUS
<1> HIDE DEF j
<1>3. attempt[p] # NoAttempt =>
        \/ Numbers(Dir(p)) = 0 .. attempt[p] - 1 \/ j.name = Receipt(attempt[p])
  BY <1>2 DEF ReceiptInv, OwnNumber
<1>4. Dir(p)' = Dir(p) /\ "create" \in Points
  BY <1>1 DEF Dir, Points
<1> QED
  BY <1>1, <1>2, <1>3, <1>4, MoveReceipts

LEMMA RaiseReceipts ==
  ASSUME PackInv, ReceiptInv, NEW p \in Procs, Working(p), Raise(p),
         SameNumbers, unsynced' \subseteq unsynced
  PROVE  ReceiptEffect(p)
<1>1. CASE End(p, "none")
  BY <1>1, EndReceipts
<1>2. CASE Write(p, Receipt(attempt[p]), "receipt", "raised")
  <2> DEFINE n == Receipt(attempt[p])
  <2> HIDE DEF n
  <2>1. Write(p, n, "receipt", "raised") /\ n = Receipt(attempt[p])
    BY <1>2 DEF n
  <2> QED
    BY <2>1, WriteReceipts
<1> QED
  BY <1>1, <1>2 DEF Raise

\* A process that is not writing, or not a receipt, goes to another point.
LEMMA GotoReceipts ==
  ASSUME PackInv, ReceiptInv, NEW p \in Procs,
         NEW point \in {"lock", "claim", "begin", "part", "verify", "complete"},
         pc' = [pc EXCEPT ![p] = point], UNCHANGED <<call, attempt, job>>,
         SameNumbers, unsynced' \subseteq unsynced, ~Writing(p),
         attempt[p] # NoAttempt => point # "lock"
  PROVE  ReceiptEffect(p)
<1>1. job'[p] = job[p] /\ Dir(p)' = Dir(p) /\ point \in Points
  BY DEF PackInv, PackTypes, Dir, Points
<1>2. attempt[p] # NoAttempt => Numbers(Dir(p)) = 0 .. attempt[p] - 1
  BY DEF ReceiptInv, OwnNumber
<1> QED
  BY <1>1, <1>2, MoveReceipts

LEMMA CallReceipts ==
  ASSUME PackInv, ReceiptInv, NEW p \in Procs, Call(p)
  PROVE  ReceiptEffect(p)
<1>1. PICK c \in CallsOf : Calls(p, c)
  BY DEF Call
<1>2. /\ pc[p] = "idle" /\ pc' = [pc EXCEPT ![p] = "mkdir"]
      /\ UNCHANGED <<attempt, job, file, unsynced>>
  BY <1>1 DEF Calls, dirVars
<1>3. attempt[p] = NoAttempt
  BY <1>2 DEF ReceiptInv, OwnNumber, Working
<1>4. SameNumbers
  BY <1>2, NumbersKept
<1>5. pc'[p] = "mkdir" /\ attempt'[p] = NoAttempt
  BY <1>2, <1>3 DEF PackInv, PackTypes
<1>6. OwnNumber(p)'
  BY <1>5 DEF OwnNumber, Writing, NoAttempt
<1> QED
  BY <1>2, <1>4, <1>6, UnsyncedKept DEF ReceiptEffect, ReceiptInv

LEMMA ClaimReceipts ==
  ASSUME PackInv, ReceiptInv, NEW p \in Procs, Mkdir(p) \/ Lock(p) \/ CheckClaim(p)
  PROVE  ReceiptEffect(p)
<1>1. pc[p] \in {"mkdir", "lock", "claim"} /\ UNCHANGED <<file, unsynced>>
  BY DEF Mkdir, Lock, CheckClaim
<1>2. SameNumbers /\ unsynced' \subseteq unsynced /\ ~Writing(p)
  BY <1>1, NumbersKept DEF Writing
<1>3. CASE End(p, "none")
  BY <1>2, <1>3, EndReceipts
<1>4. CASE Goto(p, "lock") /\ pc[p] = "mkdir"
  <2>1. attempt[p] = NoAttempt
    BY <1>4 DEF ReceiptInv, OwnNumber, Working
  <2> QED
    BY <1>2, <1>4, <2>1, GotoReceipts DEF Goto
<1>5. CASE Goto(p, "claim") \/ Goto(p, "begin")
  <2>1. CASE Goto(p, "claim")
    BY <1>2, <2>1, GotoReceipts DEF Goto
  <2>2. CASE Goto(p, "begin")
    BY <1>2, <2>2, GotoReceipts DEF Goto
  <2> QED
    BY <1>5, <2>1, <2>2
<1>6. CASE Write(p, Claim, Binding(p), "begin") /\ pc[p] = "claim"
  <2>1. Working(p) /\ Binding(p) # "receipt"
    BY <1>6, ContentFacts DEF Working, PackInv, ProcInv, Binding, CallsOf
  <2> QED
    BY <1>2, <1>6, <2>1, WriteReceipts
<1> QED
  BY <1>3, <1>4, <1>5, <1>6 DEF Mkdir, Lock, CheckClaim

\* The process that writes a receipt writes that of its number.
LEMMA CreateReceipts ==
  ASSUME PackInv, ReceiptInv, NEW p \in Procs, Create(p)
  PROVE  ReceiptEffect(p)
<1>1. pc[p] = "create" /\ Working(p) /\ Writing(p)
  BY DEF Create, Working, Writing
<1>2. /\ Dir(p) \in Dirs /\ JobOf(p) /\ OwnNumber(p)
      /\ file \in [Dirs -> [Names -> States]]
  BY <1>1 DEF PackInv, PackTypes, ProcInv, CallsOf, Dir, ReceiptInv
<1>3. CASE Raise(p) /\ UNCHANGED <<file, unsynced>>
  BY <1>1, <1>3, NumbersKept, RaiseReceipts
<1>4. CASE /\ file[Dir(p)][job[p].name] = "absent"
           /\ file' = [file EXCEPT ![Dir(p)][job[p].name] = "torn"]
           /\ unsynced' = unsynced \cup {<<Dir(p), job[p].name>>}
           /\ Goto(p, "fill")
  <2>1. /\ pc'[p] = "fill" /\ job' = job /\ attempt' = attempt /\ Dir(p)' = Dir(p)
        /\ Working(p)' /\ Writing(p)'
    BY <1>4 DEF Goto, PackInv, PackTypes, Dir, Working, Writing
  <2>2. ASSUME NEW n \in Slots, job[p].name = Receipt(n)
        PROVE  n = attempt[p] /\ attempt[p] # NoAttempt
    <3>1. job[p].content = "receipt"
      BY <1>2, <2>2, SlotFacts, NameFacts DEF JobOf
    <3> QED
      BY <1>1, <1>2, <2>2, <3>1, SlotFacts DEF OwnNumber
  <2>3. CASE attempt[p] \in Slots /\ job[p].name = Receipt(attempt[p])
    <3>1. attempt[p] \in Nat /\ attempt[p] \notin Numbers(Dir(p))
      BY <1>4, <2>3, SlotFacts DEF Numbers, Exists
    <3>2. Numbers(Dir(p)) = 0 .. attempt[p] - 1
      BY <1>2, <2>2, <2>3, <3>1 DEF OwnNumber
    <3>3. Numbers(Dir(p))' = Numbers(Dir(p)) \cup {attempt[p]}
      BY <1>2, <1>4, <2>1, <2>3, SlotFacts DEF Numbers, Exists
    <3>4. \A d \in Dirs \ {Dir(p)} : Numbers(d)' = Numbers(d)
      BY <1>2, <1>4 DEF Numbers, Exists
    <3>5. (0 .. attempt[p] - 1) \cup {attempt[p]} = 0 .. attempt[p]
      BY <3>1
    <3>6. NewReceipt(p)
      <4>1. ASSUME NEW d \in Dirs, d = Dir(p)
            PROVE  Numbers(d)' = 0 .. attempt[p]
        BY <2>1, <3>2, <3>3, <3>5, <4>1 DEF Numbers, Exists
      <4> QED
        BY <1>1, <2>3, <3>2, <3>4, <4>1 DEF NewReceipt
    <3>7. OwnNumber(p)'
      BY <2>1, <2>3, <3>2, <3>3, <3>5 DEF OwnNumber
    <3>8. ASSUME NEW d \in Dirs, NEW n \in Slots, <<d, Receipt(n)>> \in unsynced'
          PROVE  n \in Numbers(d)'
      <4>1. CASE <<d, Receipt(n)>> \in unsynced
        <5>1. n \in Numbers(d)
          BY <4>1 DEF ReceiptInv
        <5> QED
          BY <3>2, <3>4, <3>5, <3>6, <5>1 DEF NewReceipt
      <4>2. CASE d = Dir(p) /\ Receipt(n) = job[p].name
        <5>1. n = attempt[p]
          BY <2>2, <4>2
        <5> QED
          BY <3>1, <3>6, <4>2, <5>1 DEF NewReceipt
      <4> QED
        BY <1>4, <3>8, <4>1, <4>2
    <3> QED
      BY <2>1, <3>6, <3>7, <3>8 DEF ReceiptEffect, ReceiptInv
  <2>4. CASE \A n \in Slots : job[p].name # Receipt(n)
    <3>1. SameNumbers
      <4>1. ASSUME NEW d \in Dirs, NEW n \in Slots
            PROVE  file'[d][Receipt(n)] = file[d][Receipt(n)]
        BY <1>2, <1>4, <2>4, SlotFacts
      <4> QED
        BY <4>1 DEF SameNumbers, Numbers, Exists
    <3>2. Numbers(Dir(p))' = Numbers(Dir(p))
      BY <1>2, <1>4, <2>1, <2>4, SlotFacts DEF Numbers, Exists
    <3>3. OwnNumber(p)'
      BY <1>1, <1>2, <2>1, <3>2 DEF OwnNumber, NoAttempt
    <3>4. \A d \in Dirs, n \in Slots :
            <<d, Receipt(n)>> \in unsynced' => n \in Numbers(d)'
      BY <1>4, <2>4, <3>1 DEF ReceiptInv, SameNumbers
    <3> QED
      BY <2>1, <3>1, <3>3, <3>4 DEF ReceiptEffect, ReceiptInv
  <2> QED
    BY <2>2, <2>3, <2>4
<1> QED
  BY <1>3, <1>4 DEF Create, Present, Exists

LEMMA FillReceipts ==
  ASSUME PackInv, ReceiptInv, NEW p \in Procs, Fill(p)
  PROVE  ReceiptEffect(p)
<1>1. /\ pc[p] = "fill" /\ Goto(p, "sync") /\ unsynced' = unsynced
      /\ FillsFile(p) /\ Working(p) /\ Writing(p)
  BY DEF Fill, FillsFile, Working, Writing
<1>2. /\ job'[p] = job[p] /\ Dir(p)' = Dir(p) /\ attempt' = attempt
      /\ pc' = [pc EXCEPT ![p] = "sync"] /\ "sync" \in Points
  BY <1>1 DEF Goto, PackInv, PackTypes, Dir, Points
<1>3. SameNumbers /\ OwnNumber(p)
  BY <1>1, NumbersKept DEF ReceiptInv
<1> QED
  BY <1>1, <1>2, <1>3, MoveReceipts DEF OwnNumber

LEMMA SyncReceipts ==
  ASSUME PackInv, ReceiptInv, NEW p \in Procs, Sync(p)
  PROVE  ReceiptEffect(p)
<1>1. /\ pc[p] = "sync" /\ file' = file /\ unsynced' \subseteq unsynced
      /\ Writing(p) /\ SameNumbers
  BY NumbersKept DEF Sync, Writing
<1>2. CASE End(p, "pass") \/ End(p, "none")
  BY <1>1, <1>2, EndReceipts
<1>3. CASE /\ job[p].then \notin {"pass", "raised"}
           /\ pc' = [pc EXCEPT ![p] = job[p].then]
           /\ job' = [job EXCEPT ![p] = NoJob]
           /\ UNCHANGED <<call, attempt>>
  <2>1. JobOf(p) /\ OwnNumber(p)
    BY <1>1 DEF PackInv, ProcInv, ReceiptInv
  <2>2. job[p].then \in {"begin", "part", "verify", "complete"}
    BY <1>3, <2>1 DEF JobOf
  <2>3. job[p].name \in {Claim} \cup PackMembers
    BY <1>3, <2>1, NameFacts DEF JobOf
  <2>4. attempt[p] # NoAttempt => Numbers(Dir(p)) = 0 .. attempt[p] - 1
    BY <2>1, <2>3, SlotFacts DEF OwnNumber
  <2>5. job'[p] = NoJob /\ Dir(p)' = Dir(p) /\ job[p].then \in Points
    BY <1>3, <2>2 DEF PackInv, PackTypes, Dir, Points
  <2> QED
    BY <1>1, <1>3, <2>2, <2>4, <2>5, MoveReceipts
<1> QED
  BY <1>2, <1>3 DEF Sync

LEMMA BeginReceipts ==
  ASSUME PackInv, ReceiptInv, NEW p \in Procs, Begin(p)
  PROVE  ReceiptEffect(p)
<1>1. /\ pc[p] = "begin" /\ UNCHANGED <<file, unsynced>> /\ SameNumbers
      /\ Working(p)
  BY NumbersKept DEF Begin, Working
<1>2. CASE End(p, "pass")
  BY <1>1, <1>2, EndReceipts
<1>3. CASE /\ attempt' = [attempt EXCEPT ![p] = Number(p)] /\ call' = call
           /\ \/ pc' = [pc EXCEPT ![p] = "part"]
              \/ /\ pc' = [pc EXCEPT ![p] = "create"]
                 /\ job' = [job EXCEPT ![p] = [name |-> Receipt(Number(p)),
                                               content |-> "receipt",
                                               then |-> "raised"]]
  <2>1. Dir(p) \in Dirs /\ Dir(p)' = Dir(p)
    BY <1>1, <1>3 DEF PackInv, ProcInv, CallsOf, Dir
  <2>2. PICK k \in 0 .. NoAttempt : Numbers(Dir(p)) = 0 .. k - 1
    BY <2>1 DEF ReceiptInv
  <2>3. Number(p) = k
    BY <2>2, NumberIs
  <2>4. /\ attempt' \in [Procs -> 0 .. NoAttempt] /\ attempt'[p] = k
        /\ \A q \in Procs \ {p} : attempt'[q] = attempt[q]
    BY <1>3, <2>3 DEF ReceiptInv
  <2>5. Numbers(Dir(p))' = 0 .. k - 1
    BY <1>1, <2>1, <2>2 DEF Numbers, Exists
  <2>6. OwnNumber(p)'
    <3>1. CASE pc' = [pc EXCEPT ![p] = "part"]
      <4>1. pc'[p] = "part"
        BY <3>1 DEF PackInv, PackTypes
      <4> QED
        BY <2>4, <2>5, <4>1 DEF OwnNumber, Working, Writing
    <3>2. CASE /\ pc' = [pc EXCEPT ![p] = "create"]
               /\ job' = [job EXCEPT ![p] = [name |-> Receipt(Number(p)),
                                             content |-> "receipt",
                                             then |-> "raised"]]
      <4>1. pc'[p] = "create" /\ job'[p].name = Receipt(k)
        BY <2>3, <3>2 DEF PackInv, PackTypes
      <4> QED
        BY <2>4, <2>5, <4>1 DEF OwnNumber, Working, Writing
    <3> QED
      BY <1>3, <3>1, <3>2
  <2> QED
    BY <1>1, <2>4, <2>6, UnsyncedKept DEF ReceiptEffect
<1> QED
  BY <1>2, <1>3 DEF Begin

LEMMA PackingReceipts ==
  ASSUME PackInv, ReceiptInv, NEW p \in Procs,
         Archive(p) \/ Pack(p) \/ Describe(p) \/ Verify(p) \/ Complete(p)
  PROVE  ReceiptEffect(p)
<1>1. /\ pc[p] \in {"part", "verify", "complete"} /\ Working(p) /\ ~Writing(p)
      /\ call[p] \in CallsOf /\ Binding(p) # "receipt"
  BY ContentFacts DEF Archive, Pack, Describe, Verify, Complete, Working, Writing,
                      PackInv, ProcInv, Binding, CallsOf
<1>2. CASE Archive(p)
  <2>1. CASE Raise(p) /\ UNCHANGED <<file, unsynced>>
    BY <1>1, <2>1, NumbersKept, RaiseReceipts
  <2>2. CASE /\ file' = [file EXCEPT ![Dir(p)][Part(index[p])] = "absent"]
             /\ unsynced' = unsynced \ {<<Dir(p), Part(index[p])>>}
             /\ UNCHANGED procVars
    <3>1. index[p] \in 1 .. NumParts /\ Here(p)[Part(index[p])] = "torn"
      <4>1. index[p] \in 1 .. NumParts + 1 /\ index[p] <= NumParts
        BY <1>2 DEF PackInv, PackTypes, Archive
      <4>2. index[p] \in 1 .. NumParts
        BY <4>1, PartAssumption
      <4> QED
        BY <1>2, <4>2 DEF Archive
    <3>2. MovesPart(p)
      BY <1>2, <2>2, <3>1 DEF MovesPart, Parts, Archive
    <3>3. SameNumbers /\ unsynced' \subseteq unsynced
      BY <2>2, <3>2, NumbersKept
    <3>4. attempt' = attempt /\ pc' = pc /\ job' = job /\ call' = call
      BY <2>2 DEF procVars
    <3>5. Numbers(Dir(p))' = Numbers(Dir(p))
      BY <1>1, <3>3, <3>4 DEF SameNumbers, CallsOf, Dir, Numbers, Exists
    <3>6. OwnNumber(p)'
      BY <3>4, <3>5 DEF ReceiptInv, OwnNumber, Working, Writing, NoAttempt
    <3> QED
      BY <3>3, <3>4, <3>6, UnsyncedKept DEF ReceiptEffect, ReceiptInv
  <2> QED
    BY <1>2, <2>1, <2>2 DEF Archive
<1>3. CASE ~Archive(p)
  <2>1. UNCHANGED <<file, unsynced>>
    BY <1>3 DEF Pack, Describe, Verify, Complete, dirVars
  <2>2. SameNumbers /\ unsynced' \subseteq unsynced
    BY <2>1, NumbersKept
  <2>3. CASE Raise(p)
    BY <1>1, <2>2, <2>3, RaiseReceipts
  <2>4. CASE \E n, then : Write(p, n, Binding(p), then)
    BY <1>1, <2>2, <2>4, WriteReceipts
  <2>5. CASE Write(p, Receipt(attempt[p]), "receipt", "pass")
    <3> DEFINE n == Receipt(attempt[p])
    <3> HIDE DEF n
    <3>1. Write(p, n, "receipt", "pass") /\ n = Receipt(attempt[p])
      BY <2>5 DEF n
    <3> QED
      BY <1>1, <2>2, <3>1, WriteReceipts
  <2>6. CASE Goto(p, "verify")
    BY <1>1, <2>2, <2>6, GotoReceipts DEF Goto
  <2>7. CASE UNCHANGED procVars
    <3>1. attempt' = attempt /\ pc' = pc /\ job' = job /\ call' = call
      BY <2>7 DEF procVars
    <3>2. Numbers(Dir(p))' = Numbers(Dir(p))
      BY <2>1, <3>1 DEF Dir, Numbers, Exists
    <3>3. OwnNumber(p)'
      BY <3>1, <3>2 DEF ReceiptInv, OwnNumber, Working, Writing, NoAttempt
    <3> QED
      BY <2>2, <3>1, <3>3, UnsyncedKept DEF ReceiptEffect, ReceiptInv
  <2> QED
    BY <1>3, <2>3, <2>4, <2>5, <2>6, <2>7 DEF Pack, Describe, Verify, Complete
<1> QED
  BY <1>2, <1>3

LEMMA FailReceipts ==
  ASSUME PackInv, ReceiptInv, NEW p \in Procs, Fails(p) \/ Killed(p)
  PROVE  ReceiptEffect(p)
<1>1. UNCHANGED <<file, unsynced>> /\ SameNumbers
  BY NumbersKept DEF Fails, Killed
<1>2. CASE End(p, "none")
  BY <1>1, <1>2, EndReceipts
<1>3. CASE Raise(p) /\ Working(p)
  BY <1>1, <1>3, RaiseReceipts
<1> QED
  BY <1>2, <1>3 DEF Fails, Killed, Working

\* The numbers of the others stay theirs, as the lock keeps them apart.
LEMMA ReceiptsStep ==
  ASSUME PackInv, ReceiptInv, NEW p \in Procs, ReceiptEffect(p), Effect(p)
  PROVE  ReceiptInv'
<1>1. ASSUME NEW d \in Dirs
      PROVE  \E k \in 0 .. NoAttempt : Numbers(d)' = 0 .. k - 1
  <2>1. CASE SameNumbers
    BY <2>1 DEF SameNumbers, ReceiptInv
  <2>2. CASE NewReceipt(p) /\ d = Dir(p)
    <3>1. attempt[p] \in Nat /\ attempt[p] + 1 \in 0 .. NoAttempt
          /\ (attempt[p] + 1) - 1 = attempt[p]
      BY <2>2, SlotFacts DEF NewReceipt
    <3> QED
      BY <2>2, <3>1 DEF NewReceipt
  <2>3. CASE NewReceipt(p) /\ d # Dir(p)
    BY <2>3 DEF NewReceipt, ReceiptInv
  <2> QED
    BY <2>1, <2>2, <2>3 DEF ReceiptEffect
<1>2. ASSUME NEW q \in Procs \ {p}
      PROVE  OwnNumber(q)'
  <2>1. /\ attempt'[q] = attempt[q] /\ pc'[q] = pc[q] /\ job'[q] = job[q]
        /\ call'[q] = call[q]
    BY DEF ReceiptEffect, Effect, Others
  <2>2. /\ OwnNumber(q) /\ Working(q)' = Working(q) /\ Writing(q)' = Writing(q)
        /\ Dir(q)' = Dir(q)
    BY <2>1 DEF ReceiptInv, Working, Writing, Dir
  <2>3. ASSUME Working(q)
        PROVE  Numbers(Dir(q))' = Numbers(Dir(q))
    <3>1. Dir(q) \in Dirs /\ lock[Dir(q)] = {q}
      BY <2>3 DEF PackInv, ProcInv, Working, CallsOf, Dir
    <3>2. Working(p) => Dir(p) # Dir(q)
      BY <3>1 DEF PackInv, ProcInv
    <3>3. \A d \in Dirs : d = Dir(q) => Numbers(d)' = Numbers(d)
      BY <3>2 DEF ReceiptEffect, SameNumbers, NewReceipt
    <3> QED
      BY <2>2, <3>1, <3>3 DEF Numbers, Exists
  <2> QED
    BY <2>1, <2>2, <2>3 DEF OwnNumber, NoAttempt
<1> QED
  BY <1>1, <1>2 DEF ReceiptEffect, ReceiptInv

\* A receipt lost before it was synced is torn and still there.
LEMMA LossNumbers ==
  ASSUME ReceiptInv, PowerLoss
  PROVE  SameNumbers
<1>1. PICK lost \in SUBSET unsynced, as \in {"torn", "bad"} :
        file' = [d \in Dirs |->
                   [n \in Names |->
                      IF <<d, n>> \notin lost THEN file[d][n]
                        ELSE IF n \in Sized THEN as ELSE "torn"]]
  BY DEF PowerLoss
<1>2. ASSUME NEW d \in Dirs, NEW n \in Slots
      PROVE  file'[d][Receipt(n)] = "absent" <=> file[d][Receipt(n)] = "absent"
  <2>1. Receipt(n) \in Names
    BY SlotFacts
  <2>2. <<d, Receipt(n)>> \in unsynced => file[d][Receipt(n)] # "absent"
    BY DEF ReceiptInv, Numbers, Exists
  <2> QED
    BY <1>1, <2>1, <2>2
<1> QED
  BY <1>2 DEF SameNumbers, Numbers, Exists

LEMMA ReceiptsLost ==
  ASSUME ReceiptInv, PowerLoss
  PROVE  ReceiptInv'
<1>1. /\ unsynced' = {} /\ pc' = [p \in Procs |-> "idle"]
      /\ attempt' = [p \in Procs |-> NoAttempt]
  BY DEF PowerLoss
<1>2. SameNumbers
  BY LossNumbers
<1>3. \A p \in Procs : OwnNumber(p)'
  BY <1>1 DEF OwnNumber, Writing, NoAttempt
<1> QED
  BY <1>1, <1>2, <1>3, SlotFacts DEF ReceiptInv, SameNumbers, NoAttempt

LEMMA ReceiptInit == Init => ReceiptInv
<1> SUFFICES ASSUME Init
             PROVE  ReceiptInv
  OBVIOUS
<1>1. /\ attempt = [p \in Procs |-> NoAttempt] /\ unsynced = {}
      /\ \A p \in Procs : pc[p] = "idle"
      /\ file = [d \in Dirs |-> [n \in Names |-> "absent"]]
  BY DEF Init, ClaimInit
<1>2. \A d \in Dirs : Numbers(d) = {}
  BY <1>1, SlotFacts DEF Numbers, Exists
<1>3. 0 \in 0 .. NoAttempt /\ 0 .. 0 - 1 = {}
  BY SlotFacts
<1>4. \A p \in Procs : OwnNumber(p)
  BY <1>1 DEF OwnNumber, Writing
<1>5. attempt \in [Procs -> 0 .. NoAttempt]
  <2>1. NoAttempt \in 0 .. NoAttempt
    BY SlotFacts
  <2> QED
    BY <1>1, <2>1
<1>6. \A d \in Dirs : \E k \in 0 .. NoAttempt : Numbers(d) = 0 .. k - 1
  BY <1>2, <1>3
<1> QED
  BY <1>1, <1>4, <1>5, <1>6 DEF ReceiptInv

LEMMA ReceiptOf ==
  ASSUME PackInv, ReceiptInv, NEW p \in Procs,
         \/ Call(p) \/ Step(p)
         \/ (Fails(p) \/ Killed(p)) /\ UNCHANGED <<index, failures>>
  PROVE  ReceiptEffect(p)
BY CallReceipts, ClaimReceipts, CreateReceipts, FillReceipts, SyncReceipts,
   BeginReceipts, PackingReceipts, FailReceipts DEF Step, ClaimStep

LEMMA ReceiptInvariant == Spec => [](PackInv /\ ReceiptInv)
<1>1. ASSUME PackInv, ReceiptInv, Next
      PROVE  ReceiptInv'
  <2>1. ASSUME NEW p \in Procs,
               \/ Call(p) \/ Step(p)
               \/ (Fails(p) \/ Killed(p)) /\ UNCHANGED <<index, failures>>
        PROVE  ReceiptInv'
    BY <1>1, <2>1, ReceiptOf, StepEffect, ReceiptsStep
  <2>2. CASE PowerLoss
    BY <1>1, <2>2, ReceiptsLost
  <2> QED
    BY <1>1, <2>1, <2>2 DEF Next, Fault
<1>2. ASSUME PackInv, ReceiptInv, UNCHANGED vars
      PROVE  ReceiptInv'
  BY <1>2 DEF vars, dirVars, procVars, ReceiptInv, OwnNumber, Numbers, Exists,
              Working, Writing, Dir, NoAttempt, Slots
<1>3. PackInv /\ ReceiptInv /\ [Next]_vars => PackInv' /\ ReceiptInv'
  BY <1>1, <1>2, StepOrLoss, EffectKeeps, LossKeeps, PackStutter
<1> QED
  BY <1>3, PackInit, ReceiptInit, PTL DEF Spec

\* OwnReceipt: the receipt a call will leave has a number that nobody used, for
\* any number of processes and calls, however they end: none overwrites the
\* record of an earlier failure, and none is refused because of one.
THEOREM ReceiptsAreOwn == Spec => []OwnReceipt
<1>1. ASSUME PackInv, ReceiptInv, NEW p \in Procs,
             attempt[p] # NoAttempt, job[p].name # Receipt(attempt[p])
      PROVE  ~Present(p, Receipt(attempt[p]))
  <2>1. attempt[p] \in Slots /\ attempt[p] \in Nat
    BY <1>1, SlotFacts DEF ReceiptInv
  <2>2. Numbers(Dir(p)) = 0 .. attempt[p] - 1
    BY <1>1 DEF ReceiptInv, OwnNumber
  <2>3. attempt[p] \notin Numbers(Dir(p))
    BY <2>1, <2>2
  <2> QED
    BY <2>1, <2>3 DEF Numbers, Present
<1>2. PackInv /\ ReceiptInv => OwnReceipt
  BY <1>1 DEF OwnReceipt
<1> QED
  BY <1>2, ReceiptInvariant, PTL

-----------------------------------------------------------------------------
(* Types: every number a call takes is that of a receipt, as a call begins  *)
(* only while there are fewer than MaxAttempts and leaves one at most.      *)

Jobs == [name : Names, content : Contents, then : Points \cup {"pass", "raised"}]

Archived == [Dirs -> SUBSET ((1 .. NumParts) \X (0 .. NoAttempt))]

\* The receipts that exist, and the calls that have not left theirs.
Left == {r \in Dirs \X Receipts : Exists(r[1], r[2])}
Unspent == {p \in Procs : /\ pc[p] # "idle"
                          /\ attempt[p] # NoAttempt =>
                               attempt[p] \notin Numbers(Dir(p))}

Counted == Cardinality(Left) + Cardinality(Unspent) <= MaxAttempts + Cardinality(Procs)

\* A call has its number from Begin on.
Numbered(p) ==
  \/ pc[p] \in {"part", "verify", "complete"}
  \/ Writing(p) /\ job[p].then \in {"part", "verify", "complete"}
  => attempt[p] # NoAttempt

HoldsOwn(p) == \A d \in Dirs : p \in lock[d] => Dir(p) = d /\ Working(p)

DataTypes ==
  /\ made \subseteq Dirs /\ unsynced \subseteq Dirs \X Names
  /\ failures \in Archived /\ faults \in 0 .. MaxFaults
  /\ \A d \in Dirs, n \in Receipts : file[d][n] \notin Bindings

TypeInv ==
  /\ DataTypes /\ Counted
  /\ job \in [Procs -> Jobs] /\ result \in [Procs -> {"none", "pass"}]
  /\ \A p \in Procs : HoldsOwn(p) /\ Numbered(p)

\* A call under way keeps its number, or takes it before it left a receipt.
SameCall(p) ==
  pc'[p] # "idle" =>
    /\ pc[p] # "idle" /\ Dir(p)' = Dir(p)
    /\ attempt'[p] = attempt[p] \/ (p \in Unspent /\ file' = file)

ControlTypes(p) ==
  /\ job' \in [Procs -> Jobs] /\ result' \in [Procs -> {"none", "pass"}]
  /\ HoldsOwn(p)' /\ Numbered(p)'

LEMMA EndTypes ==
  ASSUME PackInv, TypeInv, NEW p \in Procs, pc[p] # "idle",
         NEW r \in {"none", "pass"}, End(p, r)
  PROVE  ControlTypes(p) /\ SameCall(p)
<1>1. Dir(p) \in Dirs /\ lock \in [Dirs -> SUBSET Procs]
  BY DEF PackInv, PackTypes, ProcInv, CallsOf, Dir
<1>2. /\ pc' = [pc EXCEPT ![p] = "idle"] /\ job' = [job EXCEPT ![p] = NoJob]
      /\ result' = [result EXCEPT ![p] = r]
      /\ lock' = [lock EXCEPT ![Dir(p)] = @ \ {p}]
  BY DEF End
<1>3. pc'[p] = "idle"
  BY <1>2 DEF PackInv, PackTypes
<1>4. NoJob \in Jobs
  BY NameFacts DEF NoJob, Jobs, Contents, Points
<1>5. job' \in [Procs -> Jobs] /\ result' \in [Procs -> {"none", "pass"}]
  BY <1>2, <1>4 DEF TypeInv
<1>6. \A d \in Dirs : p \notin lock'[d]
  BY <1>1, <1>2 DEF TypeInv, HoldsOwn
<1> QED
  BY <1>3, <1>5, <1>6 DEF ControlTypes, SameCall, HoldsOwn, Numbered, Writing

LEMMA MoveTypes ==
  ASSUME PackInv, TypeInv, NEW p \in Procs, pc[p] # "idle", NEW point \in Points,
         pc' = [pc EXCEPT ![p] = point], UNCHANGED <<call, attempt, result>>,
         job' \in [Procs -> Jobs],
         \A d \in Dirs : p \in lock'[d] => Dir(p) = d,
         point \in {"mkdir", "lock"} => lock' = lock /\ ~Working(p),
         point # "idle",
         \/ point \in {"part", "verify", "complete"}
         \/ /\ point \in {"create", "fill", "sync"}
            /\ job'[p].then \in {"part", "verify", "complete"}
         => attempt[p] # NoAttempt
  PROVE  ControlTypes(p) /\ SameCall(p)
<1>1. pc'[p] = point /\ Dir(p)' = Dir(p)
  BY DEF PackInv, PackTypes, Dir
<1>2. HoldsOwn(p)'
  BY <1>1 DEF TypeInv, HoldsOwn, Working
<1>3. Numbered(p)'
  BY <1>1 DEF Numbered, Writing, NoAttempt
<1> QED
  BY <1>1, <1>2, <1>3 DEF ControlTypes, SameCall, TypeInv

LEMMA WriteTypes ==
  ASSUME PackInv, TypeInv, NEW p \in Procs, Working(p), lock' = lock,
         NEW n \in Names, NEW c \in Contents, NEW then, Write(p, n, c, then),
         then \in Points \cup {"pass", "raised"},
         then \in {"part", "verify", "complete"} => attempt[p] # NoAttempt
  PROVE  ControlTypes(p) /\ SameCall(p)
<1> DEFINE j == [name |-> n, content |-> c, then |-> then]
<1>1. j \in Jobs /\ j.then = then
  BY DEF Jobs
<1>2. /\ pc' = [pc EXCEPT ![p] = "create"] /\ job' = [job EXCEPT ![p] = j]
      /\ UNCHANGED <<call, attempt, result>>
  BY DEF Write
<1> HIDE DEF j
<1>3. job' \in [Procs -> Jobs] /\ job'[p] = j
  BY <1>1, <1>2 DEF TypeInv
<1>4. "create" \in Points /\ pc[p] # "idle"
  BY DEF Points, Working
<1>5. \A d \in Dirs : p \in lock'[d] => Dir(p) = d
  BY DEF TypeInv, HoldsOwn
<1> QED
  BY <1>1, <1>2, <1>3, <1>4, <1>5, MoveTypes

LEMMA RaiseTypes ==
  ASSUME PackInv, ReceiptInv, TypeInv, NEW p \in Procs, Working(p),
         Raise(p)
  PROVE  ControlTypes(p) /\ SameCall(p)
<1>1. CASE End(p, "none")
  BY <1>1, EndTypes DEF Working
<1>2. CASE /\ Write(p, Receipt(attempt[p]), "receipt", "raised") /\ lock' = lock
           /\ attempt[p] # NoAttempt
  <2> DEFINE n == Receipt(attempt[p])
             c == "receipt"
             then == "raised"
  <2>1. n \in Names /\ c \in Contents
    BY <1>2, SlotFacts DEF ReceiptInv, Contents
  <2> HIDE DEF n, c, then
  <2>2. Write(p, n, c, then)
    BY <1>2 DEF n, c, then
  <2>3. then = "raised"
    BY DEF then
  <2> QED
    BY <1>2, <2>1, <2>2, <2>3, WriteTypes
<1> QED
  BY <1>1, <1>2 DEF Raise

LEMMA LeftFacts ==
  /\ IsFiniteSet(Left) /\ Cardinality(Left) \in Nat
  /\ \A S \in SUBSET Procs : IsFiniteSet(S) /\ Cardinality(S) \in Nat
                               /\ Cardinality(S) <= Cardinality(Procs)
  /\ Receipts = {Receipt(n) : n \in Slots}
<1> DEFINE f == [n \in Slots |-> Receipt(n)]
<1>1. Receipts = {Receipt(n) : n \in Slots}
  BY DEF Receipts, Slots
<1>2. IsFiniteSet(Slots)
  BY SlotFacts, FS_Interval DEF Slots
<1>3. f \in Surjection(Slots, Receipts)
  BY <1>1 DEF Surjection
<1> HIDE DEF f
<1>4. IsFiniteSet(Dirs \X Receipts)
  BY <1>2, <1>3, FS_Surjection, FS_Product, FiniteAssumption
<1>5. Left \subseteq Dirs \X Receipts
  BY DEF Left
<1>6. IsFiniteSet(Left) /\ Cardinality(Left) \in Nat
  BY <1>4, <1>5, FS_Subset, FS_CardinalityType
<1>7. \A S \in SUBSET Procs : IsFiniteSet(S) /\ Cardinality(S) \in Nat
                                /\ Cardinality(S) <= Cardinality(Procs)
  BY FS_Subset, FS_CardinalityType, FiniteAssumption
<1> QED
  BY <1>1, <1>6, <1>7

LEMMA LeftKept ==
  ASSUME SameNumbers
  PROVE  Left' = Left
<1>1. \A d \in Dirs, n \in Slots :
        file'[d][Receipt(n)] # "absent" <=> file[d][Receipt(n)] # "absent"
  BY DEF SameNumbers, Numbers, Exists
<1> QED
  BY <1>1, LeftFacts DEF Left, Exists

\* A call that has not left its receipt finds a number for it.
LEMMA NumberInRange ==
  ASSUME ReceiptInv, TypeInv, NEW p \in Unspent, Dir(p) \in Dirs
  PROVE  Number(p) \in 0 .. NoAttempt - 1
<1> DEFINE S == {n \in Receipts : Present(p, n)}
           f == [n \in S |-> <<Dir(p), n>>]
<1>1. f \in [S -> Left]
  BY DEF Left, Present
<1>2. \A m, n \in S : f[m] = f[n] => m = n
  OBVIOUS
<1> HIDE DEF f, S
<1>3. f \in Injection(S, Left)
  BY <1>1, <1>2 DEF Injection, IsInjective
<1>4. IsFiniteSet(S) /\ Cardinality(S) <= Cardinality(Left)
  BY <1>3, LeftFacts, FS_Injection
<1>5. Cardinality(S) \in Nat
  BY <1>4, FS_CardinalityType
<1>6. IsFiniteSet(Unspent) /\ Cardinality(Unspent) \in Nat
  BY LeftFacts DEF Unspent
<1>7. Cardinality(Unspent) # 0
  BY <1>6, FS_EmptySet
<1>8. Cardinality(S) + 1 <= MaxAttempts + Cardinality(Procs)
  BY <1>4, <1>5, <1>6, <1>7, SlotFacts, LeftFacts DEF TypeInv, Counted
<1>9. Number(p) = Cardinality(S)
  BY DEF Number, S
<1> QED
  BY <1>5, <1>8, <1>9, SlotFacts DEF NoAttempt

LEMMA UnspentKept ==
  ASSUME PackInv, ReceiptInv, NEW p \in Procs, ReceiptEffect(p), Effect(p),
         SameCall(p)
  PROVE  /\ Unspent' \subseteq Unspent
         /\ NewReceipt(p) => p \in Unspent /\ p \notin Unspent'
<1>1. \A d \in Dirs : Numbers(d) \subseteq Numbers(d)'
  <2>1. NewReceipt(p) => 0 .. attempt[p] - 1 \subseteq 0 .. attempt[p]
    BY SlotFacts DEF NewReceipt
  <2> QED
    BY <2>1 DEF ReceiptEffect, SameNumbers, NewReceipt
<1>2. ASSUME NEW q \in Procs, pc[q] # "idle"
      PROVE  Dir(q) \in Dirs
  BY <1>2 DEF PackInv, ProcInv, CallsOf, Dir
<1>3. ASSUME NEW q \in Unspent', q # p
      PROVE  q \in Unspent
  <2>1. /\ q \in Procs /\ pc'[q] # "idle"
        /\ attempt'[q] # NoAttempt => attempt'[q] \notin Numbers(Dir(q))'
    BY <1>3 DEF Unspent, NoAttempt
  <2>2. pc[q] # "idle" /\ attempt'[q] = attempt[q] /\ Dir(q)' = Dir(q)
    BY <1>3, <2>1 DEF Effect, Others, ReceiptEffect, Dir
  <2>3. \A d \in Dirs : d = Dir(q) => Numbers(Dir(q))' = Numbers(d)'
    BY <2>2 DEF Numbers, Exists
  <2> QED
    BY <1>1, <1>2, <2>1, <2>2, <2>3 DEF Unspent
<1>4. ASSUME p \in Unspent'
      PROVE  p \in Unspent /\ ~NewReceipt(p)
  <2>1. /\ pc'[p] # "idle"
        /\ attempt'[p] # NoAttempt => attempt'[p] \notin Numbers(Dir(p))'
    BY <1>4 DEF Unspent, NoAttempt
  <2>2. pc[p] # "idle" /\ Dir(p)' = Dir(p) /\ Dir(p) \in Dirs
    BY <1>2, <2>1 DEF SameCall
  <2>3. \A d \in Dirs : d = Dir(p) => Numbers(Dir(p))' = Numbers(d)'
    BY <2>2 DEF Numbers, Exists
  <2>4. CASE attempt'[p] = attempt[p]
    <3>1. p \in Unspent
      BY <1>1, <2>1, <2>2, <2>3, <2>4 DEF Unspent
    <3>2. NewReceipt(p) => attempt[p] \in Numbers(Dir(p))' /\ attempt[p] # NoAttempt
      BY <2>2, <2>3, SlotFacts DEF NewReceipt
    <3> QED
      BY <2>1, <2>4, <3>1, <3>2
  <2>5. CASE p \in Unspent /\ file' = file
    <3>1. Numbers(Dir(p))' = Numbers(Dir(p))
      BY <2>2, <2>5 DEF Numbers, Exists
    <3>2. NewReceipt(p) => attempt[p] \in Numbers(Dir(p))' \ Numbers(Dir(p))
      BY <2>2, <2>3, SlotFacts DEF NewReceipt
    <3> QED
      BY <2>5, <3>1, <3>2
  <2> QED
    BY <2>1, <2>4, <2>5 DEF SameCall
<1>5. NewReceipt(p) => p \in Unspent
  BY SlotFacts DEF NewReceipt, Unspent, Working
<1> QED
  BY <1>3, <1>4, <1>5

\* Each receipt is left by a call that had none to its name.
LEMMA CountedKept ==
  ASSUME TypeInv, NEW p \in Procs, ReceiptEffect(p), Unspent' \subseteq Unspent,
         NewReceipt(p) => p \in Unspent /\ p \notin Unspent'
  PROVE  Counted'
<1>1. /\ IsFiniteSet(Left) /\ Cardinality(Left) \in Nat
      /\ IsFiniteSet(Unspent) /\ Cardinality(Unspent) \in Nat
  BY LeftFacts DEF Unspent
<1>2. IsFiniteSet(Unspent') /\ Cardinality(Unspent') \in Nat
      /\ Cardinality(Unspent') <= Cardinality(Unspent)
  BY <1>1, FS_Subset, FS_CardinalityType
<1>3. CASE SameNumbers
  BY <1>1, <1>2, <1>3, LeftKept, SlotFacts DEF TypeInv, Counted
<1>4. CASE NewReceipt(p)
  <2> DEFINE new == <<Dir(p), Receipt(attempt[p])>>
  <2>1. Left' \subseteq Left \cup {new}
    <3>1. ASSUME NEW d \in Dirs, NEW n \in Slots, file'[d][Receipt(n)] # "absent",
                 file[d][Receipt(n)] = "absent"
          PROVE  d = Dir(p) /\ n = attempt[p]
      <4>1. n \in Numbers(d)' /\ n \notin Numbers(d)
        BY <3>1 DEF Numbers, Exists
      <4>2. d = Dir(p)
        BY <1>4, <4>1 DEF NewReceipt
      <4>3. n \in 0 .. attempt[p] /\ n \notin 0 .. attempt[p] - 1
        BY <1>4, <4>1, <4>2 DEF NewReceipt
      <4> QED
        BY <1>4, <4>2, <4>3, SlotFacts DEF NewReceipt
    <3> QED
      BY <3>1, LeftFacts DEF Left, Exists
  <2> HIDE DEF new
  <2>2. Cardinality(Left') <= Cardinality(Left) + 1 /\ Cardinality(Left') \in Nat
    <3>1. /\ IsFiniteSet(Left \cup {new})
          /\ \/ Cardinality(Left \cup {new}) = Cardinality(Left)
             \/ Cardinality(Left \cup {new}) = Cardinality(Left) + 1
      <4>1. /\ IsFiniteSet(Left \cup {new})
            /\ Cardinality(Left \cup {new}) =
                 IF new \in Left THEN Cardinality(Left) ELSE Cardinality(Left) + 1
        BY <1>1, FS_AddElement
      <4> QED
        BY <4>1
    <3>2. IsFiniteSet(Left') /\ Cardinality(Left') <= Cardinality(Left \cup {new})
      BY <2>1, <3>1, FS_Subset
    <3> QED
      BY <1>1, <3>1, <3>2, FS_CardinalityType
  <2>3. Cardinality(Unspent') + 1 <= Cardinality(Unspent)
    <3>1. Unspent' \subseteq Unspent \ {p}
      BY <1>4
    <3>2. IsFiniteSet(Unspent \ {p})
          /\ Cardinality(Unspent \ {p}) = Cardinality(Unspent) - 1
      BY <1>1, <1>4, FS_RemoveElement
    <3> QED
      BY <1>1, <1>2, <3>1, <3>2, FS_Subset
  <2> QED
    BY <1>1, <1>2, <2>2, <2>3, SlotFacts DEF TypeInv, Counted
<1> QED
  BY <1>3, <1>4 DEF ReceiptEffect

\* The control state after each operation.
LEMMA ClaimTypes ==
  ASSUME PackInv, ReceiptInv, TypeInv, NEW p \in Procs,
         Mkdir(p) \/ Lock(p) \/ CheckClaim(p)
  PROVE  ControlTypes(p) /\ SameCall(p)
<1>1. /\ pc[p] \in {"mkdir", "lock", "claim"} /\ call[p] \in CallsOf
      /\ Dir(p) \in Dirs /\ Binding(p) \in Bindings
  BY DEF Mkdir, Lock, CheckClaim, PackInv, ProcInv, CallsOf, Dir, Binding
<1>2. CASE End(p, "none")
  BY <1>1, <1>2, EndTypes
<1>3. CASE Goto(p, "lock") /\ lock' = lock /\ pc[p] = "mkdir"
  <2>1. job' \in [Procs -> Jobs] /\ \A d \in Dirs : p \in lock'[d] => Dir(p) = d
    BY <1>3 DEF Goto, TypeInv, HoldsOwn
  <2>2. "lock" \in Points /\ ~Working(p)
    BY <1>3 DEF Points, Working
  <2> QED
    BY <1>1, <1>3, <2>1, <2>2, MoveTypes DEF Goto
<1>4. CASE /\ Goto(p, "claim") /\ pc[p] = "lock"
           /\ lock' = [lock EXCEPT ![Dir(p)] = {p}]
  <2>1. job' \in [Procs -> Jobs] /\ \A d \in Dirs : p \in lock'[d] => Dir(p) = d
    BY <1>1, <1>4 DEF Goto, TypeInv, HoldsOwn, PackInv, PackTypes
  <2>2. "claim" \in Points
    BY DEF Points
  <2> QED
    BY <1>1, <1>4, <2>1, <2>2, MoveTypes DEF Goto
<1>5. CASE Goto(p, "begin") /\ lock' = lock /\ pc[p] = "claim"
  <2>1. job' \in [Procs -> Jobs] /\ \A d \in Dirs : p \in lock'[d] => Dir(p) = d
    BY <1>5 DEF Goto, TypeInv, HoldsOwn
  <2>2. "begin" \in Points
    BY DEF Points
  <2> QED
    BY <1>1, <1>5, <2>1, <2>2, MoveTypes DEF Goto
<1>6. CASE Write(p, Claim, Binding(p), "begin") /\ lock' = lock /\ pc[p] = "claim"
  <2>1. Working(p) /\ Claim \in Names /\ Binding(p) \in Contents
    BY <1>1, <1>6, NameFacts DEF Working, Contents
  <2>2. "begin" \in Points
    BY DEF Points
  <2> QED
    BY <1>6, <2>1, <2>2, WriteTypes
<1> QED
  BY <1>2, <1>3, <1>4, <1>5, <1>6 DEF Mkdir, Lock, CheckClaim

LEMMA WritingTypes ==
  ASSUME PackInv, ReceiptInv, TypeInv, NEW p \in Procs,
         Create(p) \/ Fill(p) \/ Sync(p)
  PROVE  ControlTypes(p) /\ SameCall(p)
<1>1. /\ pc[p] \in {"create", "fill", "sync"} /\ Working(p) /\ Writing(p)
      /\ JobOf(p) /\ Numbered(p)
      /\ \A d \in Dirs : p \in lock[d] => Dir(p) = d
  BY DEF Create, Fill, Sync, Working, Writing, PackInv, ProcInv, TypeInv, HoldsOwn
<1>2. CASE Raise(p)
  BY <1>1, <1>2, RaiseTypes
<1>3. ASSUME NEW point \in {"fill", "sync"}, Goto(p, point), lock' = lock
      PROVE  ControlTypes(p) /\ SameCall(p)
  <2>1. job' = job /\ job' \in [Procs -> Jobs] /\ point \in Points
    BY <1>3 DEF Goto, TypeInv, Points
  <2> QED
    BY <1>1, <1>3, <2>1, MoveTypes DEF Goto, Numbered
<1>4. CASE End(p, "none") \/ End(p, "pass")
  BY <1>1, <1>4, EndTypes
<1>5. CASE /\ job[p].then \notin {"pass", "raised"}
           /\ pc' = [pc EXCEPT ![p] = job[p].then]
           /\ job' = [job EXCEPT ![p] = NoJob]
           /\ UNCHANGED <<lock, call, attempt, result>>
  <2>1. job[p].then \in {"begin", "part", "verify", "complete"}
    BY <1>1, <1>5 DEF JobOf
  <2>2. NoJob \in Jobs
    BY NameFacts DEF NoJob, Jobs, Contents, Points
  <2>3. job' \in [Procs -> Jobs] /\ job[p].then \in Points
    BY <1>5, <2>1, <2>2 DEF TypeInv, Points
  <2> QED
    BY <1>1, <1>5, <2>1, <2>3, MoveTypes DEF Numbered
<1>6. CASE Create(p)
  BY <1>2, <1>3, <1>6 DEF Create
<1>7. CASE Fill(p)
  BY <1>3, <1>7 DEF Fill
<1>8. CASE Sync(p)
  BY <1>4, <1>5, <1>8 DEF Sync
<1> QED
  BY <1>6, <1>7, <1>8

LEMMA BeginTypes ==
  ASSUME PackInv, ReceiptInv, TypeInv, NEW p \in Procs, Begin(p)
  PROVE  ControlTypes(p) /\ SameCall(p)
<1>1. pc[p] = "begin" /\ Dir(p) \in Dirs /\ file' = file
  BY DEF Begin, PackInv, ProcInv, CallsOf, Dir
<1>2. p \in Unspent
  <2>1. attempt[p] # NoAttempt =>
          attempt[p] \in Nat /\ Numbers(Dir(p)) = 0 .. attempt[p] - 1
    BY <1>1, SlotFacts DEF ReceiptInv, OwnNumber, Writing
  <2> QED
    BY <1>1, <2>1 DEF Unspent
<1>3. Number(p) \in 0 .. NoAttempt - 1 /\ Number(p) # NoAttempt
  BY <1>1, <1>2, NumberInRange, SlotFacts
<1>4. CASE End(p, "pass")
  BY <1>1, <1>4, EndTypes
<1>5. ASSUME attempt' = [attempt EXCEPT ![p] = Number(p)],
             UNCHANGED <<lock, call, result>>,
             NEW point \in {"part", "create"}, pc' = [pc EXCEPT ![p] = point],
             job' \in [Procs -> Jobs]
      PROVE  ControlTypes(p) /\ SameCall(p)
  <2>1. /\ pc'[p] = point /\ attempt'[p] # NoAttempt /\ Dir(p)' = Dir(p)
    BY <1>3, <1>5 DEF PackInv, PackTypes, ReceiptInv, Dir
  <2>2. HoldsOwn(p)'
    BY <1>5, <2>1 DEF TypeInv, HoldsOwn, Working
  <2>3. Numbered(p)'
    BY <2>1 DEF Numbered, NoAttempt
  <2> QED
    BY <1>1, <1>2, <1>5, <2>1, <2>2, <2>3 DEF ControlTypes, SameCall, TypeInv
<1>6. CASE /\ attempt' = [attempt EXCEPT ![p] = Number(p)]
           /\ pc' = [pc EXCEPT ![p] = "part"]
           /\ UNCHANGED <<lock, call, job, result>>
  BY <1>5, <1>6 DEF TypeInv
<1>7. CASE /\ attempt' = [attempt EXCEPT ![p] = Number(p)]
           /\ pc' = [pc EXCEPT ![p] = "create"]
           /\ job' = [job EXCEPT ![p] = [name |-> Receipt(Number(p)),
                                         content |-> "receipt",
                                         then |-> "raised"]]
           /\ UNCHANGED <<lock, call, result>>
  <2>1. Receipt(Number(p)) \in Names
    BY <1>3, SlotFacts
  <2>2. [name |-> Receipt(Number(p)), content |-> "receipt", then |-> "raised"] \in Jobs
    BY <2>1 DEF Jobs, Contents
  <2>3. job' \in [Procs -> Jobs]
    BY <1>7, <2>2 DEF TypeInv
  <2> QED
    BY <1>5, <1>7, <2>3
<1> QED
  BY <1>4, <1>6, <1>7 DEF Begin

LEMMA PackingTypes ==
  ASSUME PackInv, ReceiptInv, TypeInv, NEW p \in Procs,
         Archive(p) \/ Pack(p) \/ Describe(p) \/ Verify(p) \/ Complete(p)
  PROVE  ControlTypes(p) /\ SameCall(p)
<1>1. /\ pc[p] \in {"part", "verify", "complete"} /\ Working(p)
      /\ attempt[p] # NoAttempt /\ Binding(p) \in Contents
      /\ \A d \in Dirs : p \in lock[d] => Dir(p) = d
  BY DEF Archive, Pack, Describe, Verify, Complete, Working, PackInv, ProcInv,
         Binding, CallsOf, Contents, TypeInv, Numbered, HoldsOwn
<1>2. CASE Raise(p)
  BY <1>1, <1>2, RaiseTypes
<1>3. ASSUME NEW n \in Names, NEW c \in Contents, NEW then,
             then \in Points \cup {"pass", "raised"},
             Write(p, n, c, then), lock' = lock
      PROVE  ControlTypes(p) /\ SameCall(p)
  BY <1>1, <1>3, WriteTypes
<1>4. CASE UNCHANGED <<procVars, lock>>
  <2>1. /\ pc' = pc /\ job' = job /\ call' = call /\ result' = result
        /\ attempt' = attempt /\ lock' = lock
    BY <1>4 DEF procVars
  <2> QED
    BY <1>1, <2>1 DEF ControlTypes, SameCall, TypeInv, HoldsOwn, Numbered, Working,
                      Writing, Dir, NoAttempt
<1>5. CASE Goto(p, "verify") /\ lock' = lock
  <2>1. job' \in [Procs -> Jobs] /\ "verify" \in Points
    BY <1>5 DEF Goto, TypeInv, Points
  <2> QED
    BY <1>1, <1>5, <2>1, MoveTypes DEF Goto
<1>6. CASE Archive(p)
  BY <1>2, <1>4, <1>6 DEF Archive
<1>7. CASE Pack(p)
  <2>1. pc[p] = "part" /\ index[p] <= NumParts /\ index[p] \in 1 .. NumParts + 1
    BY <1>7 DEF Pack, PackInv, PackTypes
  <2>2. index[p] \in 1 .. NumParts
    BY <2>1, PartAssumption
  <2>3. Part(index[p]) \in Names /\ "part" \in Points
    BY <2>2, NameFacts DEF Parts, Points
  <2> QED
    BY <1>1, <1>2, <1>3, <1>4, <1>7, <2>3 DEF Pack, procVars
<1>8. CASE Describe(p)
  BY <1>1, <1>2, <1>3, <1>5, <1>8, NameFacts DEF Describe, Points
<1>9. CASE Verify(p)
  BY <1>1, <1>2, <1>3, <1>9, NameFacts DEF Verify, Points
<1>10. CASE Complete(p)
  <2> DEFINE n == Receipt(attempt[p])
             c == "receipt"
  <2>1. n \in Names /\ c \in Contents
    BY <1>1, SlotFacts DEF ReceiptInv, Contents
  <2> HIDE DEF n, c
  <2>2. Write(p, n, c, "pass") /\ lock' = lock
    BY <1>10 DEF Complete, n, c, dirVars
  <2> QED
    BY <1>3, <2>1, <2>2
<1> QED
  BY <1>6, <1>7, <1>8, <1>9, <1>10

LEMMA CallTypes ==
  ASSUME PackInv, ReceiptInv, TypeInv, NEW p \in Procs, Call(p)
  PROVE  ControlTypes(p) /\ Counted'
<1>1. PICK c \in CallsOf : Calls(p, c)
  BY DEF Call
<1>2. /\ pc[p] = "idle" /\ pc' = [pc EXCEPT ![p] = "mkdir"]
      /\ result' = [result EXCEPT ![p] = "none"]
      /\ UNCHANGED <<attempt, job, lock, file>> /\ Cardinality(Left) < MaxAttempts
  BY <1>1 DEF Calls, dirVars, Left
<1>3. pc'[p] = "mkdir"
  BY <1>2 DEF PackInv, PackTypes
<1>4. \A d \in Dirs : p \notin lock'[d]
  BY <1>2 DEF TypeInv, HoldsOwn, Working
<1>5. ControlTypes(p)
  BY <1>2, <1>3, <1>4 DEF TypeInv, ControlTypes, HoldsOwn, Numbered, Writing
<1>6. Left' = Left
  BY <1>2 DEF Left, Exists
<1>7. /\ Cardinality(Left) \in Nat /\ Cardinality(Unspent') \in Nat
      /\ Cardinality(Unspent') <= Cardinality(Procs)
  <2>1. Unspent' \subseteq Procs
    BY DEF Unspent
  <2> QED
    BY <2>1, LeftFacts
<1>8. Cardinality(Left) + Cardinality(Unspent') <= MaxAttempts + Cardinality(Procs)
  BY <1>2, <1>7, SlotFacts
<1> QED
  BY <1>5, <1>6, <1>8 DEF Counted

LEMMA FailTypes ==
  ASSUME PackInv, ReceiptInv, TypeInv, NEW p \in Procs, Fails(p) \/ Killed(p)
  PROVE  ControlTypes(p) /\ SameCall(p)
<1>1. pc[p] # "idle"
  BY DEF Fails, Killed
<1>2. CASE End(p, "none")
  BY <1>1, <1>2, EndTypes
<1>3. CASE Raise(p) /\ Working(p)
  BY <1>3, RaiseTypes
<1> QED
  BY <1>2, <1>3 DEF Fails, Killed, Working

\* The data after each operation.
LEMMA ReceiptWords ==
  ASSUME PackInv, TypeInv, NEW p \in Procs, Effect(p),
         NEW d \in Dirs, NEW n \in Receipts
  PROVE  file'[d][n] \notin Bindings
<1>1. /\ n \in Names /\ n \notin {Claim} \cup PackMembers
      /\ file[d][n] \notin Bindings
      /\ file \in [Dirs -> [Names -> States]]
  BY LeftFacts, SlotFacts DEF TypeInv, DataTypes, PackInv, PackTypes
<1>2. CASE file' = file
  BY <1>1, <1>2
<1>3. CASE CreatesFile(p)
  BY <1>1, <1>3, ContentFacts DEF CreatesFile
<1>4. CASE FillsFile(p)
  <2>1. JobOf(p)
    BY <1>4 DEF FillsFile, PackInv, ProcInv, Writing
  <2>2. job[p].name = n => job[p].content \notin Bindings
    BY <1>1, <2>1, NameFacts, ContentFacts DEF JobOf
  <2> QED
    BY <1>1, <1>4, <2>2 DEF FillsFile
<1>5. CASE MovesPart(p)
  BY <1>1, <1>5, ContentFacts DEF MovesPart
<1> QED
  BY <1>2, <1>3, <1>4, <1>5 DEF Effect, Files

LEMMA DataKept ==
  ASSUME PackInv, ReceiptInv, TypeInv, NEW p \in Procs, Effect(p),
         \/ Call(p) \/ Step(p)
         \/ (Fails(p) \/ Killed(p)) /\ UNCHANGED <<index, failures>>
  PROVE  DataTypes'
<1>1. \A d \in Dirs, n \in Receipts : file'[d][n] \notin Bindings
  BY ReceiptWords
<1>2. /\ made \subseteq Dirs /\ unsynced \subseteq Dirs \X Names
      /\ failures \in Archived /\ faults \in 0 .. MaxFaults
      /\ pc[p] # "idle" => Dir(p) \in Dirs
  BY DEF TypeInv, DataTypes, PackInv, ProcInv, CallsOf, Dir
<1> DEFINE Moves ==
            /\ made' = made \/ (made' = made \cup {Dir(p)} /\ pc[p] = "mkdir")
            /\ \/ unsynced' \subseteq unsynced
               \/ Create(p) /\ unsynced' = unsynced \cup {<<Dir(p), job[p].name>>}
            /\ faults' = faults \/ (faults' = faults + 1 /\ faults < MaxFaults)
<1>3. Moves
  <2>1. CASE Call(p)
    BY <2>1 DEF Call, Calls, dirVars, boundVars
  <2>2. CASE Mkdir(p) \/ Lock(p) \/ CheckClaim(p)
    BY <2>2 DEF Mkdir, Lock, CheckClaim, boundVars
  <2>3. CASE Create(p)
    BY <2>3 DEF Create, boundVars
  <2>4. CASE Fill(p) \/ Sync(p)
    BY <2>4 DEF Fill, Sync, boundVars
  <2>5. CASE Begin(p) \/ Archive(p)
    BY <2>5 DEF Begin, Archive, boundVars
  <2>6. CASE Pack(p) \/ Describe(p) \/ Verify(p) \/ Complete(p)
    BY <2>6 DEF Pack, Describe, Verify, Complete, dirVars, boundVars
  <2>7. CASE Fails(p) \/ Killed(p)
    BY <2>7 DEF Fails, Killed
  <2> QED
    BY <2>1, <2>2, <2>3, <2>4, <2>5, <2>6, <2>7 DEF Step, ClaimStep
<1>4. failures' = failures \/ Archive(p)
  BY DEF Call, Calls, Step, ClaimStep, Begin, Pack, Describe, Verify, Complete
<1>5. failures' \in Archived
  <2>1. CASE Archive(p) /\ failures' # failures
    <3>1. index[p] \in 1 .. NumParts + 1 /\ index[p] <= NumParts
      BY <2>1 DEF Archive, PackInv, PackTypes
    <3>2. index[p] \in 1 .. NumParts /\ attempt[p] \in 0 .. NoAttempt
      BY <3>1, PartAssumption DEF ReceiptInv
    <3>3. failures' = [failures EXCEPT ![Dir(p)] = @ \cup {<<index[p], attempt[p]>>}]
      BY <2>1 DEF Archive
    <3>4. Dir(p) \in Dirs
      BY <1>2, <2>1 DEF Archive
    <3> QED
      BY <1>2, <3>2, <3>3, <3>4 DEF Archived
  <2> QED
    BY <1>2, <1>4, <2>1
<1>6. made' \subseteq Dirs
  BY <1>2, <1>3
<1>7. unsynced' \subseteq Dirs \X Names
  <2>1. CASE Create(p) /\ unsynced' = unsynced \cup {<<Dir(p), job[p].name>>}
    <3>1. Dir(p) \in Dirs /\ job[p].name \in Names
      BY <1>2, <2>1 DEF Create, TypeInv, Jobs
    <3> QED
      BY <1>2, <2>1, <3>1
  <2> QED
    BY <1>2, <1>3, <2>1
<1>8. faults' \in 0 .. MaxFaults
  BY <1>2, <1>3, BoundAssumption
<1> QED
  BY <1>1, <1>5, <1>6, <1>7, <1>8 DEF DataTypes

LEMMA TypeStep ==
  ASSUME PackInv, ReceiptInv, TypeInv, NEW p \in Procs, Effect(p), ReceiptEffect(p),
         \/ Call(p) \/ Step(p)
         \/ (Fails(p) \/ Killed(p)) /\ UNCHANGED <<index, failures>>
  PROVE  TypeInv'
<1>1. ControlTypes(p) /\ (SameCall(p) \/ Counted')
  BY CallTypes, ClaimTypes, WritingTypes, BeginTypes, PackingTypes, FailTypes
     DEF Step, ClaimStep
<1>2. Counted'
  BY <1>1, UnspentKept, CountedKept
<1>3. ASSUME NEW q \in Procs, q # p
      PROVE  HoldsOwn(q)' /\ Numbered(q)'
  <2>1. /\ pc'[q] = pc[q] /\ call'[q] = call[q] /\ job'[q] = job[q]
        /\ attempt'[q] = attempt[q]
    BY <1>3 DEF Effect, Others, ReceiptEffect
  <2>2. \A d \in Dirs : q \in lock'[d] => q \in lock[d]
    BY <1>3 DEF Effect, Others
  <2> QED
    BY <2>1, <2>2 DEF TypeInv, HoldsOwn, Numbered, Working, Writing, Dir, NoAttempt
<1> QED
  BY <1>1, <1>2, <1>3, DataKept DEF ControlTypes, TypeInv

LEMMA TypesLost ==
  ASSUME PackInv, ReceiptInv, TypeInv, PowerLoss, UNCHANGED failures
  PROVE  TypeInv'
<1>1. PICK lost \in SUBSET unsynced, as \in {"torn", "bad"} :
        file' = [d \in Dirs |->
                   [n \in Names |->
                      IF <<d, n>> \notin lost THEN file[d][n]
                        ELSE IF n \in Sized THEN as ELSE "torn"]]
  BY DEF PowerLoss
<1>2. /\ unsynced' = {} /\ made' = made /\ faults' = faults
      /\ lock' = [d \in Dirs |-> {}] /\ pc' = [p \in Procs |-> "idle"]
      /\ job' = [p \in Procs |-> NoJob] /\ result' = [p \in Procs |-> "none"]
  BY DEF PowerLoss
<1>3. \A d \in Dirs, n \in Receipts : file'[d][n] \notin Bindings
  <2>1. \A n \in Receipts : n \in Names
    BY LeftFacts, SlotFacts
  <2> QED
    BY <1>1, <2>1, ContentFacts DEF TypeInv, DataTypes
<1>4. NoJob \in Jobs
  BY NameFacts DEF NoJob, Jobs, Contents, Points
<1>5. Left' = Left
  BY LossNumbers, LeftKept
<1>6. Unspent' = {} /\ Cardinality({}) = 0
  BY <1>2, FS_EmptySet DEF Unspent
<1>7. Counted'
  <2>1. Cardinality(Left) \in Nat /\ Cardinality(Unspent) \in Nat
    BY LeftFacts DEF Unspent
  <2> QED
    BY <1>5, <1>6, <2>1, SlotFacts DEF TypeInv, Counted
<1>8. \A p \in Procs : HoldsOwn(p)' /\ Numbered(p)'
  BY <1>2 DEF HoldsOwn, Numbered, Writing
<1>9. DataTypes'
  BY <1>2, <1>3 DEF TypeInv, DataTypes
<1> QED
  BY <1>2, <1>4, <1>7, <1>8, <1>9 DEF TypeInv

LEMMA TypeInit == Init => TypeInv
<1> SUFFICES ASSUME Init
             PROVE  TypeInv
  OBVIOUS
<1>1. /\ made = {} /\ lock = [d \in Dirs |-> {}] /\ unsynced = {}
      /\ file = [d \in Dirs |-> [n \in Names |-> "absent"]]
      /\ pc = [p \in Procs |-> "idle"] /\ job = [p \in Procs |-> NoJob]
      /\ result = [p \in Procs |-> "none"] /\ faults = 0
      /\ failures = [d \in Dirs |-> {}]
  BY DEF Init, ClaimInit
<1>2. NoJob \in Jobs
  BY NameFacts DEF NoJob, Jobs, Contents, Points
<1>3. DataTypes
  <2>1. \A n \in Receipts : n \in Names
    BY LeftFacts, SlotFacts
  <2> QED
    BY <1>1, <2>1, BoundAssumption, ContentFacts DEF DataTypes, Archived
<1>4. Left = {} /\ Unspent = {} /\ Cardinality({}) = 0
  <2>1. \A n \in Receipts : n \in Names
    BY LeftFacts, SlotFacts
  <2> QED
    BY <1>1, <2>1, FS_EmptySet DEF Left, Unspent, Exists
<1>5. Counted
  BY <1>4, SlotFacts DEF Counted
<1>6. \A p \in Procs : HoldsOwn(p) /\ Numbered(p)
  BY <1>1 DEF HoldsOwn, Numbered, Writing
<1> QED
  BY <1>1, <1>2, <1>3, <1>5, <1>6 DEF TypeInv

LEMMA TypeStutter ==
  ASSUME TypeInv, UNCHANGED vars
  PROVE  TypeInv'
<1>1. /\ UNCHANGED <<made, lock, file, unsynced, pc, call, attempt, job, result>>
      /\ UNCHANGED <<faults, failures>>
  BY DEF vars, dirVars, procVars, boundVars
<1>2. DataTypes'
  BY <1>1 DEF TypeInv, DataTypes, Archived
<1>3. Left' = Left /\ Unspent' = Unspent
  BY <1>1 DEF Left, Unspent, Numbers, Exists, Dir, NoAttempt
<1>4. \A p \in Procs : HoldsOwn(p)' /\ Numbered(p)'
  BY <1>1 DEF TypeInv, HoldsOwn, Numbered, Working, Writing, Dir, NoAttempt
<1> QED
  BY <1>1, <1>2, <1>3, <1>4 DEF TypeInv, Counted

\* TypeOK: every variable of the packaging keeps its type, for any number of
\* processes and directories: a call takes the number of a receipt, holds only
\* the lock of its own directory, and what it writes is a file of the bundle.
THEOREM PackagingTypes == Spec => []TypeOK
<1>1. ASSUME PackInv, ReceiptInv, TypeInv, Next
      PROVE  TypeInv'
  <2>1. CASE PowerLoss /\ UNCHANGED failures
    BY <1>1, <2>1, TypesLost
  <2>2. ASSUME NEW p \in Procs,
               \/ Call(p) \/ Step(p)
               \/ (Fails(p) \/ Killed(p)) /\ UNCHANGED <<index, failures>>
        PROVE  TypeInv'
    BY <1>1, <2>2, StepEffect, ReceiptOf, TypeStep
  <2> QED
    BY <1>1, <2>1, <2>2 DEF Next, Fault
<1>2. PackInv /\ ReceiptInv /\ TypeInv /\ [Next]_vars => TypeInv'
  BY <1>1, TypeStutter
<1>3. PackInv /\ ReceiptInv /\ TypeInv => TypeOK
  BY DEF PackInv, PackTypes, ReceiptInv, TypeInv, DataTypes, HoldsOwn, Working, Jobs,
         Archived, TypeOK, ClaimTypeOK
<1> QED
  BY <1>2, <1>3, TypeInit, ReceiptInvariant, PTL DEF Spec

=============================================================================
