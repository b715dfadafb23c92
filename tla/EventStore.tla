----------------------------- MODULE EventStore -----------------------------
(***************************************************************************)
(* The append-only JSONL run ledger of src/trace_gate/runtime.py (class    *)
(* EventStore): the file, the process's in-memory copy of it, and the      *)
(* validation every load and every append performs.                        *)
(*                                                                         *)
(* Abstractions.  The digest chain (sequence, previous_digest, digest) is  *)
(* represented by what it decides: a line that does not parse or does not  *)
(* chain is the line Garbled, and two ledgers have the same head digest    *)
(* exactly when they are the same sequence.  A payload (an answer, a tool  *)
(* output) is a member of Contents.                                        *)
(***************************************************************************)
EXTENDS Naturals, Sequences, FiniteSets

CONSTANTS
  Runs,           \* run identifiers that may share one ledger
  Tools,          \* tool identifiers a model may name
  Effect,         \* tool -> "read" | "write" | "destructive"
  Contents,       \* classes of answer and output text
  LineBreaking,   \* the Contents that hold a character str.splitlines splits on
  WriteFaults,    \* how an interrupted write may leave the file (see Torn)
  NoRun, NoTool, NoContent,
  PinHead,        \* the application passes expected_head when it reopens
  MaxFaults,      \* bound: I/O errors of append
  MaxCrashes,     \* bound: process crashes
  MaxDisturbances \* bound: outside changes of the file

EffectKinds == {"read", "write", "destructive"}

AllWriteFaults == {"nothing", "torn", "unterminated", "unsynced"}

ASSUME EffectAssumption == Effect \in [Tools -> EffectKinds]
ASSUME ContentAssumption == LineBreaking \subseteq Contents
ASSUME FaultAssumption == WriteFaults \subseteq AllWriteFaults
ASSUME PinAssumption == PinHead \in BOOLEAN
ASSUME BoundAssumption ==
  MaxFaults \in Nat /\ MaxCrashes \in Nat /\ MaxDisturbances \in Nat
ASSUME NullAssumption ==
  NoRun \notin Runs /\ NoTool \notin Tools /\ NoContent \notin Contents

-----------------------------------------------------------------------------
(* Events.                                                                 *)

ActionTypes == {"tool_call", "tool_batch", "answer", "error", "delegate"}

EventTypes ==
  {"run_started", "run_resumed", "model_started", "model_action",
   "attempt_started", "tool_observation", "verification",
   "delegation_requested", "run_completed", "run_failed", "run_blocked"}

\* The run envelope: the limits and the scope that scope_digest binds.  refs
\* holds authorization references; the reference red:t is written t.
Envelope ==
  [steps : Nat, calls : Nat, secs : Nat,
   tools : SUBSET (Tools \cup {NoTool}), refs : SUBSET (Tools \cup {NoTool})]

NoEnvelope == [steps |-> 0, calls |-> 0, secs |-> 0, tools |-> {}, refs |-> {}]

\* calls is the list of tools of a tool_call or tool_batch; content the answer.
Action ==
  [type : ActionTypes \cup {"none"}, calls : Seq(Tools),
   content : Contents \cup {NoContent}]

NoAction == [type |-> "none", calls |-> <<>>, content |-> NoContent]

\* attempt is the number in the attempt identity "run_id:number".
Event ==
  [type : EventTypes \cup {"none", "garbled"}, run : Runs \cup {NoRun},
   env : Envelope, deadline : Nat, action : Action,
   tool : Tools \cup {NoTool}, attempt : Nat, passed : BOOLEAN,
   content : Contents \cup {NoContent}]

Blank(type, r) ==
  [type |-> type, run |-> r, env |-> NoEnvelope, deadline |-> 0,
   action |-> NoAction, tool |-> NoTool, attempt |-> 0, passed |-> FALSE,
   content |-> NoContent]

NoEvent == Blank("none", NoRun)
Garbled == Blank("garbled", NoRun)

-----------------------------------------------------------------------------
(* What a ledger says of a run.                                            *)

Own(log, r) == {i \in DOMAIN log : log[i].run = r}

Exists(log, r) == Own(log, r) # {}

FirstOf(log, r) ==
  log[CHOOSE i \in Own(log, r) : \A j \in Own(log, r) : i <= j]

LastOf(log, r) ==
  log[CHOOSE i \in Own(log, r) : \A j \in Own(log, r) : j <= i]

\* Seeded fault: the last line of the ledger is taken for the run's last event.
CompletedAtTail(log, r) ==
  log # <<>> /\ log[Len(log)].run = r /\ log[Len(log)].type = "run_completed"

Completed(log, r) == Exists(log, r) /\ LastOf(log, r).type = "run_completed"

OfType(log, r, type) == {i \in Own(log, r) : log[i].type = type}

\* Attempts of r that changed something and whose outcome is not recorded.
Unresolved(log, r) ==
  {i \in OfType(log, r, "attempt_started") :
     /\ Effect[log[i].tool] # "read"
     /\ \A j \in OfType(log, r, "tool_observation") :
          log[j].attempt # log[i].attempt}

-----------------------------------------------------------------------------
(* EventStore.validate, one event against the events before it.            *)

Bound(log, e) ==
  /\ \E i \in OfType(log, e.run, "attempt_started") :
       log[i].attempt = e.attempt /\ log[i].tool = e.tool
  /\ \A i \in OfType(log, e.run, "tool_observation") :
       log[i].attempt # e.attempt

LastAnswer(log, r) ==
  LET answers == {i \in OfType(log, r, "model_action") :
                    log[i].action.type = "answer"}
  IN  log[CHOOSE i \in answers : \A j \in answers : j <= i].action.content

Completable(log, e) ==
  /\ Unresolved(log, e.run) = {}
  /\ LastOf(log, e.run).type = "verification"
  /\ LastOf(log, e.run).passed
  /\ \E i \in OfType(log, e.run, "model_action") :
       log[i].action.type = "answer"
  /\ e.content = LastAnswer(log, e.run)

EventOK(log, e) ==
  /\ e.type \in EventTypes
  /\ Exists(log, e.run) <=> e.type # "run_started"
  /\ ~Completed(log, e.run)
  /\ e.type = "attempt_started" =>
       \A i \in OfType(log, e.run, "attempt_started") :
         log[i].attempt # e.attempt
  /\ e.type = "tool_observation" => Bound(log, e)
  /\ e.type = "verification" =>
       /\ LastOf(log, e.run).type = "model_action"
       /\ LastOf(log, e.run).action.type = "answer"
  /\ e.type = "run_completed" => Completable(log, e)

ValidLedger(log) ==
  \A i \in DOMAIN log : EventOK(SubSeq(log, 1, i - 1), log[i])

-----------------------------------------------------------------------------
(* State.                                                                  *)

VARIABLES
  disk,         \* the file, line by line, as a reader parses it
  terminated,   \* the last line of the file ends in a newline
  up,           \* a process holds an EventStore on the file
  mem,          \* EventStore.events of that process
  head,         \* the ledger whose head digest append returned last
  faults, crashes, disturbances

ledgerVars == <<disk, terminated, up, mem, head>>
boundVars == <<faults, crashes, disturbances>>

LedgerTypeOK ==
  /\ disk \in Seq(Event)
  /\ terminated \in BOOLEAN
  /\ up \in BOOLEAN
  /\ mem \in Seq(Event)
  /\ head \in Seq(Event)
  /\ faults \in Nat /\ crashes \in Nat /\ disturbances \in Nat

LedgerInit ==
  /\ disk = <<>> /\ terminated = TRUE
  /\ up = FALSE /\ mem = <<>> /\ head = <<>>
  /\ faults = 0 /\ crashes = 0 /\ disturbances = 0

-----------------------------------------------------------------------------
(* Reading.                                                                *)

\* _read and validate of a file: every line parses and the chain holds.
Readable(log) == ValidLedger(log)

\* The comparison of validate(check_disk=True).
Synced == disk = mem

\* Seeded fault: a checkpoint head is compared with an empty ledger only.
HeadOfEmpty == PinHead /\ head # <<>> => disk # <<>>

\* expected_head, when the application keeps one.
HeadMatches == PinHead /\ head # <<>> => disk = head

\* EventStore.__post_init__.
Open ==
  /\ ~up
  /\ Readable(disk)
  /\ HeadMatches
  /\ up' = TRUE
  /\ mem' = disk
  /\ UNCHANGED <<disk, terminated, head>>

-----------------------------------------------------------------------------
(* Writing.                                                                *)

\* json.dumps(ensure_ascii=False) escapes no U+0085, U+2028 or U+2029, and
\* _read splits the text with str.splitlines, which breaks lines there.
LineOf(e) == IF e.content \in LineBreaking THEN Garbled ELSE e

\* The file with one more line l.  After an unterminated line the text joins
\* that line, which then holds two JSON documents.
Extended(l) ==
  IF terminated \/ disk = <<>>
    THEN Append(disk, l)
    ELSE [disk EXCEPT ![Len(disk)] = Garbled]

Accepted(e) == Synced /\ EventOK(mem, e)

\* EventStore.append to its end: fsync, then publish to memory.
AppendDone(e) ==
  /\ Accepted(e)
  /\ disk' = Extended(LineOf(e))
  /\ terminated' = TRUE
  /\ mem' = Append(mem, e)
  /\ head' = Append(mem, e)
  /\ UNCHANGED up

\* What an append that did not finish left in the file.
Torn(e) ==
  \/ /\ "nothing" \in WriteFaults
     /\ UNCHANGED <<disk, terminated>>
  \/ /\ "torn" \in WriteFaults
     /\ disk' = Extended(Garbled)
     /\ terminated' = FALSE
  \/ /\ "unterminated" \in WriteFaults
     /\ disk' = Extended(LineOf(e))
     /\ terminated' = FALSE
  \/ /\ "unsynced" \in WriteFaults
     /\ disk' = Extended(LineOf(e))
     /\ terminated' = TRUE

\* Seeded fault: append publishes to memory before it writes.
AppendFaultPublished(e) ==
  /\ faults < MaxFaults
  /\ Accepted(e)
  /\ Torn(e)
  /\ mem' = Append(mem, e)
  /\ faults' = faults + 1
  /\ UNCHANGED <<up, head>>

\* append raises OSError: memory keeps the events before it.
AppendFault(e) ==
  /\ faults < MaxFaults
  /\ Accepted(e)
  /\ Torn(e)
  /\ faults' = faults + 1
  /\ UNCHANGED <<up, mem, head>>

-----------------------------------------------------------------------------
(* The environment.                                                        *)

\* The process dies between appends, or inside the append of e.
CrashIdle ==
  /\ up
  /\ crashes < MaxCrashes
  /\ crashes' = crashes + 1
  /\ up' = FALSE
  /\ mem' = <<>>
  /\ UNCHANGED <<disk, terminated, head>>

CrashAppending(e) ==
  /\ up
  /\ crashes < MaxCrashes
  /\ Accepted(e)
  /\ crashes' = crashes + 1
  /\ Torn(e)
  /\ up' = FALSE
  /\ mem' = <<>>
  /\ UNCHANGED head

\* The file loses its tail, or a line of it changes, behind the store's back.
Disturb ==
  /\ disturbances < MaxDisturbances
  /\ disturbances' = disturbances + 1
  /\ disk # <<>>
  /\ \/ \E n \in 0 .. Len(disk) - 1 :
          disk' = SubSeq(disk, 1, n) /\ terminated' = TRUE
     \/ \E i \in DOMAIN disk :
          disk' = [disk EXCEPT ![i] = Garbled] /\ UNCHANGED terminated
  /\ UNCHANGED <<up, mem, head>>

=============================================================================
