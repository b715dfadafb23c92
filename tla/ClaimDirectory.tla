--------------------------- MODULE ClaimDirectory ---------------------------
(***************************************************************************)
(* claim_directory and write_json of src/trace_gate/migration_io.py:       *)
(* private directories that each belong to one approved configuration, the *)
(* flock that admits one process at a time, and files that are created     *)
(* exclusively, written and synced, with errors and crashes in between.    *)
(*                                                                         *)
(* A file is what a reader makes of it: absent, torn (short, or not JSON), *)
(* bad (of full size with other bytes), or its content; the content of a   *)
(* file that depends on the configuration is the configuration.  Entries   *)
(* of a directory survive a loss of power once made, data only once        *)
(* synced.                                                                 *)
(***************************************************************************)
EXTENDS Naturals, FiniteSets

CONSTANTS
  Procs,          \* processes that may call the adapter
  Dirs,           \* directories an adapter may be given
  Bindings,       \* approved configurations: policy, inventory and source
  Members,        \* the other files an adapter keeps in the directory
  Sized,          \* those of which it knows the size; the rest are JSON
  MaxAttempts,    \* bound: attempt receipts a new call may find
  MaxFaults       \* bound: errors, and processes that die

ASSUME BoundAssumption == MaxAttempts \in Nat /\ MaxFaults \in Nat
ASSUME FiniteAssumption == IsFiniteSet(Procs) /\ IsFiniteSet(Dirs)
ASSUME ContentAssumption ==
  Bindings \cap {"absent", "torn", "bad", "receipt"} = {}

Claim == <<"claim", 0>>
Completed == <<"completed", 0>>
Receipt(n) == <<"attempt", n>>
Receipts == {Receipt(n) : n \in 0 .. MaxAttempts + Cardinality(Procs)}
Names == {Claim} \cup Members \cup Receipts

Contents == {"receipt"} \cup Bindings
States == {"absent", "torn", "bad"} \cup Contents

\* The write in progress of a process, and its control point afterwards.
NoJob == [name |-> Claim, content |-> "receipt", then |-> "idle"]

VARIABLES
  made,       \* the directories that exist
  lock,       \* directory -> the processes that hold its flock
  file,       \* directory -> name -> state
  unsynced,   \* <<directory, name>> whose data a loss of power may take
  pc,         \* control point of each process
  call,       \* its directory, configuration and approval of a resume
  attempt,    \* its attempt number, or NoAttempt
  job,
  result,     \* "pass" if its last call returned a result
  faults,     \* how many errors and deaths there were
  powerLost   \* whether power was lost

dirVars == <<made, lock, file, unsynced>>
procVars == <<pc, call, attempt, job, result>>
boundVars == <<faults, powerLost>>

NoAttempt == MaxAttempts + Cardinality(Procs) + 1

Exists(d, n) == file[d][n] # "absent"

\* A call: its directory, its configuration, and whether its caller approved a
\* resume.
CallsOf == [dir : Dirs, binding : Bindings, resume : BOOLEAN]
NoCall == [dir |-> "none", binding |-> "none", resume |-> FALSE]

Dir(p) == call[p].dir
Binding(p) == call[p].binding
Resumes(p) == call[p].resume

\* The directory of a process as it finds it.
Here(p) == file[Dir(p)]
Present(p, n) == Exists(Dir(p), n)

ClaimInit ==
  /\ made = {} /\ lock = [d \in Dirs |-> {}]
  /\ file = [d \in Dirs |-> [n \in Names |-> "absent"]] /\ unsynced = {}
  /\ pc = [p \in Procs |-> "idle"]
  /\ call = [p \in Procs |-> NoCall]
  /\ attempt = [p \in Procs |-> NoAttempt]
  /\ job = [p \in Procs |-> NoJob]
  /\ result = [p \in Procs |-> "none"]
  /\ faults = 0 /\ powerLost = FALSE

-----------------------------------------------------------------------------
(* Control.                                                                *)

Goto(p, point) ==
  /\ pc' = [pc EXCEPT ![p] = point]
  /\ UNCHANGED <<call, attempt, job, result>>

\* Seeded fault: a refused claim leaves the lock open.
EndHoldingLock(p, r) ==
  /\ pc' = [pc EXCEPT ![p] = "idle"]
  /\ call' = [call EXCEPT ![p] = NoCall]
  /\ attempt' = [attempt EXCEPT ![p] = NoAttempt]
  /\ job' = [job EXCEPT ![p] = NoJob]
  /\ result' = [result EXCEPT ![p] = r]
  /\ lock' = IF pc[p] = "claim" THEN lock ELSE [lock EXCEPT ![Dir(p)] = @ \ {p}]

\* The call returns or raises, and the finally clause closes the lock.
End(p, r) ==
  /\ pc' = [pc EXCEPT ![p] = "idle"]
  /\ call' = [call EXCEPT ![p] = NoCall]
  /\ attempt' = [attempt EXCEPT ![p] = NoAttempt]
  /\ job' = [job EXCEPT ![p] = NoJob]
  /\ result' = [result EXCEPT ![p] = r]
  /\ lock' = [lock EXCEPT ![Dir(p)] = @ \ {p}]

Write(p, n, c, then) ==
  /\ pc' = [pc EXCEPT ![p] = "create"]
  /\ job' = [job EXCEPT ![p] = [name |-> n, content |-> c, then |-> then]]
  /\ UNCHANGED <<call, attempt, result>>

\* The except clause writes a receipt of the failure, if the call has a number
\* and is not already writing that one.
Raise(p) ==
  IF attempt[p] = NoAttempt \/ job[p].then = "raised"
    THEN End(p, "none")
    ELSE Write(p, Receipt(attempt[p]), "receipt", "raised") /\ UNCHANGED lock

Calls(p, c) ==
  /\ pc[p] = "idle"
  /\ Cardinality({r \in Dirs \X Receipts : Exists(r[1], r[2])}) < MaxAttempts
  /\ pc' = [pc EXCEPT ![p] = "mkdir"]
  /\ call' = [call EXCEPT ![p] = c]
  /\ result' = [result EXCEPT ![p] = "none"]
  /\ UNCHANGED <<dirVars, boundVars, attempt, job>>

-----------------------------------------------------------------------------
(* claim_directory.                                                        *)

Mkdir(p) ==
  /\ pc[p] = "mkdir"
  /\ IF Dir(p) \in made /\ ~Resumes(p)
       THEN End(p, "none") /\ UNCHANGED made
       ELSE made' = made \cup {Dir(p)} /\ Goto(p, "lock") /\ UNCHANGED lock
  /\ UNCHANGED <<file, unsynced, boundVars>>

\* Seeded fault: the lock is shared.
LockShared(p) ==
  /\ pc[p] = "lock"
  /\ lock' = [lock EXCEPT ![Dir(p)] = @ \cup {p}] /\ Goto(p, "claim")
  /\ UNCHANGED <<made, file, unsynced, boundVars>>

\* flock(LOCK_EX|LOCK_NB).
Lock(p) ==
  /\ pc[p] = "lock"
  /\ IF lock[Dir(p)] = {}
       THEN lock' = [lock EXCEPT ![Dir(p)] = {p}] /\ Goto(p, "claim")
       ELSE End(p, "none")
  /\ UNCHANGED <<made, file, unsynced, boundVars>>

\* Seeded fault: a resume trusts the claim it finds.
ClaimTrusted(p) == Resumes(p) /\ Present(p, Claim)

ClaimMatches(p) == Resumes(p) /\ Here(p)[Claim] = Binding(p)

\* A claim that exists is resumed, one that does not is made by a fresh call.
CheckClaim(p) ==
  /\ pc[p] = "claim"
  /\ IF Present(p, Claim)
       THEN IF ClaimMatches(p) THEN Goto(p, "begin") /\ UNCHANGED lock
                               ELSE End(p, "none")
       ELSE IF Resumes(p) THEN End(p, "none")
                         ELSE Write(p, Claim, Binding(p), "begin") /\ UNCHANGED lock
  /\ UNCHANGED <<made, file, unsynced, boundVars>>

\* The attempt number counts the receipts.
Number(p) == Cardinality({n \in Receipts : Present(p, n)})

-----------------------------------------------------------------------------
(* Writing a file: exclusive creation, data, sync.                         *)

Create(p) ==
  /\ pc[p] = "create"
  /\ IF Present(p, job[p].name)
       THEN Raise(p) /\ UNCHANGED <<file, unsynced>>
       ELSE /\ file' = [file EXCEPT ![Dir(p)][job[p].name] = "torn"]
            /\ unsynced' = unsynced \cup {<<Dir(p), job[p].name>>}
            /\ Goto(p, "fill")
            /\ UNCHANGED lock
  /\ UNCHANGED <<made, boundVars>>

Fill(p) ==
  /\ pc[p] = "fill"
  /\ file' = [file EXCEPT ![Dir(p)][job[p].name] = job[p].content]
  /\ Goto(p, "sync")
  /\ UNCHANGED <<made, lock, unsynced, boundVars>>

Sync(p) ==
  /\ pc[p] = "sync"
  /\ unsynced' = unsynced \ {<<Dir(p), job[p].name>>}
  /\ IF job[p].then \in {"pass", "raised"}
       THEN End(p, IF job[p].then = "pass" THEN "pass" ELSE "none")
       ELSE /\ pc' = [pc EXCEPT ![p] = job[p].then]
            /\ job' = [job EXCEPT ![p] = NoJob]
            /\ UNCHANGED <<lock, call, attempt, result>>
  /\ UNCHANGED <<made, file, boundVars>>

-----------------------------------------------------------------------------
(* The environment.                                                        *)

\* An OSError, an interrupt, a source that changed, or no space.
Fails(p) ==
  /\ pc[p] \notin {"idle", "mkdir"}
  /\ faults < MaxFaults
  /\ faults' = faults + 1
  /\ IF pc[p] \in {"lock", "claim"} THEN End(p, "none") ELSE Raise(p)
  /\ UNCHANGED <<made, file, unsynced, powerLost>>

\* The process dies: the system closes its lock and keeps what it wrote.
Killed(p) ==
  /\ pc[p] # "idle"
  /\ faults < MaxFaults
  /\ faults' = faults + 1
  /\ End(p, "none")
  /\ UNCHANGED <<made, file, unsynced, powerLost>>

\* Bound: power is lost once.
PowerLoss ==
  /\ ~powerLost
  /\ UNCHANGED faults
  /\ powerLost' = TRUE
  /\ \E lost \in SUBSET unsynced, as \in {"torn", "bad"} :
       /\ as = "torn" \/ \E l \in lost : l[2] \in Sized
       /\ file' = [d \in Dirs |->
                     [n \in Names |->
                        IF <<d, n>> \notin lost THEN file[d][n]
                          ELSE IF n \in Sized THEN as ELSE "torn"]]
  /\ unsynced' = {}
  /\ lock' = [d \in Dirs |-> {}]
  /\ pc' = [p \in Procs |-> "idle"]
  /\ call' = [p \in Procs |-> NoCall]
  /\ attempt' = [p \in Procs |-> NoAttempt]
  /\ job' = [p \in Procs |-> NoJob]
  /\ result' = [p \in Procs |-> "none"]
  /\ UNCHANGED made

-----------------------------------------------------------------------------
\* A process holds the lock of the directory it works in, and no other.
ClaimTypeOK ==
  /\ made \subseteq Dirs
  /\ lock \in [Dirs -> SUBSET Procs]
  /\ \A d \in Dirs : \A p \in lock[d] :
       Dir(p) = d /\ pc[p] \notin {"idle", "mkdir", "lock"}
  /\ file \in [Dirs -> [Names -> States]] /\ unsynced \subseteq Dirs \X Names
  /\ call \in [Procs -> CallsOf \cup {NoCall}]
  /\ attempt \in [Procs -> 0 .. NoAttempt]
  /\ result \in [Procs -> {"none", "pass"}]
  /\ faults \in 0 .. MaxFaults /\ powerLost \in BOOLEAN

=============================================================================
