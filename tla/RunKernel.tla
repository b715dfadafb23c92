----------------------------- MODULE RunKernel ------------------------------
(***************************************************************************)
(* RunKernel.run and ToolRegistry of src/trace_gate/runtime.py: the        *)
(* bounded model/tool/verifier loop of one process, which appends to the   *)
(* EventStore before and after every call it makes, with crashes, I/O      *)
(* errors and approved resumes.                                            *)
(*                                                                         *)
(* run() is the only writer of the ledger and one invocation runs at a     *)
(* time.  An action of the kernel ends where the code appends: it leaves   *)
(* the event in buf and the control point after the append in cont, and    *)
(* AppendReturns, AppendRefused and AppendRaises are the ends of the       *)
(* append.                                                                 *)
(***************************************************************************)
EXTENDS EventStore

CONSTANTS
  Risk,           \* tool -> "green" | "amber" | "red"
  Registered,     \* tools the ToolRegistry holds
  Envelopes,      \* envelopes callers pass to run()
  ModelActions,   \* actions the model adapter may return
  MaxClock,       \* bound: the wall clock
  MaxResumes,     \* bound: run_resumed events of a run
  MaxInterrupts   \* bound: BaseExceptions raised in a callback

\* ToolDefinition.__post_init__.
ASSUME ToolAssumption ==
  /\ Risk \in [Tools -> {"green", "amber", "red"}]
  /\ Registered \subseteq Tools
  /\ \A t \in Tools : /\ Effect[t] = "destructive" => Risk[t] = "red"
                      /\ Effect[t] = "write" => Risk[t] # "green"

\* RunLimits.__post_init__.
ASSUME EnvelopeAssumption ==
  /\ Envelopes \subseteq Envelope
  /\ \A e \in Envelopes : e.steps > 0 /\ e.calls > 0 /\ e.secs > 0

\* RunKernel._parse_action: what a typed action has.
ASSUME ActionAssumption ==
  /\ ModelActions \subseteq Action
  /\ \A a \in ModelActions :
       /\ a.type \in ActionTypes
       /\ a.type = "tool_call" => Len(a.calls) = 1
       /\ a.type = "tool_batch" => Len(a.calls) > 0
       /\ a.type = "answer" => a.content \in Contents

ASSUME ClockAssumption ==
  MaxClock \in Nat /\ MaxResumes \in Nat /\ MaxInterrupts \in Nat

VARIABLES
  now,        \* time.time()
  pc, cont,   \* control point of run(); where it goes on after an append
  buf,        \* the event being appended
  run,        \* self.run_id
  env,        \* limits, allowed_tools and authorization_refs of the kernel
  verifier,   \* self.verifier is callable
  deadline, steps, calls,
  conv,       \* conversation, without the caller's messages
  act,        \* action
  todo,       \* calls of the action already reserved or recorded
  effects,    \* the attempts whose mutating handler took effect, in order
  result,     \* what the last invocation returned
  interrupts

controlVars == <<pc, cont, buf, run, env, verifier, deadline, steps, calls,
                 conv, act, todo, result>>
worldVars == <<now, effects, interrupts>>
vars == <<ledgerVars, boundVars, controlVars, worldVars>>

Points == {"idle", "head", "model", "delegate", "error", "reserve", "attempt",
           "execute", "executed", "observe", "verify", "verified", "append"}

Statuses == {"none", "completed", "blocked", "failed", "awaiting_delegation",
             "raised"}

Message ==
  [role : {"assistant", "tool", "system"}, action : Action,
   tool : Tools \cup {NoTool}, attempt : Nat,
   content : Contents \cup {NoContent}]

NoResult == [run |-> NoRun, status |-> "none", content |-> NoContent]

-----------------------------------------------------------------------------
(* What the kernel reads from the ledger.                                  *)

\* Seeded faults: only finished steps and calls are counted; the steps of
\* every run of the ledger are counted.
FinishedSteps(log, r) == Cardinality(OfType(log, r, "model_action"))
FinishedCalls(log, r) == Cardinality(OfType(log, r, "tool_observation"))
StepsOfAll(log, r) ==
  Cardinality({i \in DOMAIN log : log[i].type = "model_started"})

StepsUsed(log, r) == Cardinality(OfType(log, r, "model_started"))
CallsUsed(log, r) == Cardinality(OfType(log, r, "attempt_started"))

Assistant(a) ==
  [role |-> "assistant", action |-> a, tool |-> NoTool, attempt |-> 0,
   content |-> NoContent]

\* A live observation carries no attempt identity; a replayed one does.
Observation(t, n, c) ==
  [role |-> "tool", action |-> NoAction, tool |-> t, attempt |-> n,
   content |-> c]

Feedback(c) ==
  [role |-> "system", action |-> NoAction, tool |-> NoTool, attempt |-> 0,
   content |-> c]

\* Seeded fault: the feedback of a failed verification is not replayed.
SpeaksNoFeedback(e) == e.type \in {"model_action", "tool_observation"}

Speaks(e) ==
  \/ e.type \in {"model_action", "tool_observation"}
  \/ e.type = "verification" /\ ~e.passed

MessageOf(e) ==
  CASE e.type = "model_action" -> Assistant(e.action)
    [] e.type = "tool_observation" -> Observation(e.tool, e.attempt, e.content)
    [] OTHER -> Feedback(e.content)

\* The k-th position of S from the left.
Nth(S, k) == CHOOSE i \in S : Cardinality({j \in S : j <= i}) = k

\* RunKernel._rehydrate: one message for each event of the run that speaks.
Rehydrated(log, r) ==
  LET said == {i \in Own(log, r) : Speaks(log[i])}
  IN  [k \in 1 .. Cardinality(said) |-> MessageOf(log[Nth(said, k)])]

-----------------------------------------------------------------------------
(* ToolRegistry.preflight: the permission checks.                          *)

Permitted(v, t) ==
  /\ t \in v.tools
  /\ t \in Registered
  /\ Risk[t] = "amber" => v.refs # {}
  /\ Risk[t] = "red" => t \in v.refs

-----------------------------------------------------------------------------
(* Control.                                                                *)

Emit(e, k) ==
  /\ pc' = "append"
  /\ buf' = e
  /\ cont' = k

\* run() returns or raises: its frame is gone.
Leave(status) ==
  /\ pc' = "idle" /\ cont' = "idle" /\ buf' = NoEvent
  /\ run' = NoRun /\ env' = NoEnvelope /\ verifier' = FALSE
  /\ deadline' = 0 /\ steps' = 0 /\ calls' = 0
  /\ conv' = <<>> /\ act' = NoAction /\ todo' = 0
  /\ result' = [run |-> IF status = "none" THEN NoRun ELSE run,
                status |-> status,
                content |-> IF status = "completed" THEN buf.content
                                                    ELSE NoContent]

\* The except clauses of run(): PermissionError blocks, the rest fails.
Throw(type) ==
  /\ Emit(Blank(type, run), "idle")
  /\ UNCHANGED <<run, env, verifier, deadline, steps, calls, conv, act, todo,
                 result>>

AnyException == {"run_blocked", "run_failed"}

Late == now >= deadline

Init ==
  /\ LedgerInit
  /\ now = 0
  /\ pc = "idle" /\ cont = "idle" /\ buf = NoEvent
  /\ run = NoRun /\ env = NoEnvelope /\ verifier = FALSE
  /\ deadline = 0 /\ steps = 0 /\ calls = 0
  /\ conv = <<>> /\ act = NoAction /\ todo = 0
  /\ effects = <<>>
  /\ result = NoResult
  /\ interrupts = 0

\* A process starts and constructs the EventStore.
Reopen ==
  /\ pc = "idle"
  /\ Open
  /\ UNCHANGED <<boundVars, controlVars, worldVars>>

-----------------------------------------------------------------------------
(* run(): from the call to the first append.                               *)

\* Seeded faults: a resume without the envelope check, and one without the
\* check for unresolved mutations.
ResumableAnyEnvelope(r, v, approved) == approved /\ Unresolved(mem, r) = {}
ResumableUnresolved(r, v, approved) == approved /\ FirstOf(mem, r).env = v

\* The three refusals of a resume.
Resumable(r, v, approved) ==
  /\ FirstOf(mem, r).env = v
  /\ approved
  /\ Unresolved(mem, r) = {}

\* Seeded fault: a resume starts a new clock.
ResumeDeadlineReset(r, v) == now + v.secs

ResumeDeadline(r, v) == FirstOf(mem, r).deadline

\* Seeded fault: the cached ledger is trusted.
LedgerTrusted == FALSE

LedgerChanged == ~Synced

\* No event is appended: a terminal run is answered from the ledger, and a
\* ledger that changed on disk or a refused resume is reported to the caller.
RunAnswered(r, v, approved) ==
  /\ pc = "idle" /\ up
  /\ result' =
       IF LedgerChanged
         THEN [run |-> r, status |-> "raised", content |-> NoContent]
         ELSE IF Completed(mem, r)
           THEN [run |-> r, status |-> "completed",
                 content |-> LastOf(mem, r).content]
           ELSE [run |-> r, status |-> "blocked", content |-> NoContent]
  /\ \/ LedgerChanged
     \/ Completed(mem, r)
     \/ Exists(mem, r) /\ ~Resumable(r, v, approved)
  /\ UNCHANGED <<ledgerVars, boundVars, worldVars>>
  /\ UNCHANGED <<pc, cont, buf, run, env, verifier, deadline, steps, calls,
                 conv, act, todo>>

EnterRun(r, v, callable) ==
  /\ run' = r
  /\ env' = v
  /\ verifier' = callable
  /\ steps' = StepsUsed(mem, r)
  /\ calls' = CallsUsed(mem, r)
  /\ conv' = Rehydrated(mem, r)
  /\ act' = NoAction
  /\ todo' = 0
  /\ result' = NoResult
  /\ UNCHANGED <<ledgerVars, boundVars, worldVars>>

RunStarted(r, v, callable) ==
  /\ pc = "idle" /\ up /\ Synced
  /\ ~Exists(mem, r)
  /\ deadline' = now + v.secs
  /\ Emit([Blank("run_started", r) EXCEPT !.env = v, !.deadline = now + v.secs],
          "head")
  /\ EnterRun(r, v, callable)

RunResumed(r, v, callable, approved) ==
  /\ pc = "idle" /\ up /\ Synced
  /\ Exists(mem, r)
  /\ ~Completed(mem, r)
  /\ Resumable(r, v, approved)
  /\ Cardinality(OfType(mem, r, "run_resumed")) < MaxResumes
  /\ deadline' = ResumeDeadline(r, v)
  /\ Emit(Blank("run_resumed", r), "head")
  /\ EnterRun(r, v, callable)

-----------------------------------------------------------------------------
(* The ends of an append.                                                  *)

\* Seeded fault: the except clauses also guard their own append.
UnwindAgain(kinds) == \E k \in kinds : Throw(k)

\* Where an exception raised by append goes: run_started and run_resumed are
\* appended before the try, and the except clauses append outside it.
Unwind(kinds) ==
  IF buf.type \in {"run_started", "run_resumed", "run_blocked", "run_failed"}
    THEN Leave("raised")
    ELSE \E k \in kinds : Throw(k)

ReturnStatus(type) ==
  CASE type = "run_completed" -> "completed"
    [] type = "run_failed" -> "failed"
    [] type = "run_blocked" -> "blocked"
    [] OTHER -> "awaiting_delegation"

AppendReturns ==
  /\ pc = "append"
  /\ AppendDone(buf)
  /\ IF cont = "idle"
       THEN Leave(ReturnStatus(buf.type))
       ELSE /\ pc' = cont /\ cont' = "idle" /\ buf' = NoEvent
            /\ UNCHANGED <<run, env, verifier, deadline, steps, calls, conv,
                           act, todo, result>>
  /\ UNCHANGED <<boundVars, worldVars>>

\* validate raises ValueError.
AppendRefused ==
  /\ pc = "append"
  /\ ~Accepted(buf)
  /\ Unwind({"run_failed"})
  /\ UNCHANGED <<ledgerVars, boundVars, worldVars>>

\* The file system raises OSError, of which PermissionError is a case.
AppendRaises ==
  /\ pc = "append"
  /\ AppendFault(buf)
  /\ Unwind(AnyException)
  /\ UNCHANGED <<crashes, disturbances, worldVars>>

-----------------------------------------------------------------------------
(* The loop.                                                               *)

Rest == <<run, env, verifier, deadline>>

StepLimit == steps >= env.steps

\* The head of the loop, up to the model_started append.
LoopHead ==
  /\ pc = "head"
  /\ IF ~verifier
       THEN Throw("run_blocked")
       ELSE IF StepLimit \/ Late
         THEN Throw("run_failed")
         ELSE /\ steps' = steps + 1
              /\ Emit(Blank("model_started", run), "model")
              /\ UNCHANGED <<Rest, calls, conv, act, todo, result>>
  /\ UNCHANGED <<ledgerVars, boundVars, worldVars>>

\* Where run() goes on after it has appended the action.
AfterAction(a) ==
  CASE a.type \in {"tool_call", "tool_batch"} -> "reserve"
    [] a.type = "answer" -> "verify"
    [] OTHER -> a.type

\* The model returns a typed action in time.
ModelReturns(a) ==
  /\ pc = "model"
  /\ ~Late
  /\ act' = a
  /\ todo' = 0
  /\ Emit([Blank("model_action", run) EXCEPT !.action = a,
                                             !.content = a.content],
          AfterAction(a))
  /\ UNCHANGED <<Rest, steps, calls, conv, result>>
  /\ UNCHANGED <<ledgerVars, boundVars, worldVars>>

\* The model raises, returns something untyped, or returns too late.
ModelRaises(type) ==
  /\ pc = "model"
  /\ Throw(type)
  /\ UNCHANGED <<ledgerVars, boundVars, worldVars>>

Delegate ==
  /\ pc = "delegate"
  /\ Emit(Blank("delegation_requested", run), "idle")
  /\ UNCHANGED <<Rest, steps, calls, conv, act, todo, result>>
  /\ UNCHANGED <<ledgerVars, boundVars, worldVars>>

ModelReportsError ==
  /\ pc = "error"
  /\ Throw("run_failed")
  /\ UNCHANGED <<ledgerVars, boundVars, worldVars>>

-----------------------------------------------------------------------------
(* Tool calls.  A tool_call is a batch of one without the read-only rule.  *)

Called == {act.calls[i] : i \in DOMAIN act.calls}

OverBudget == calls + Len(act.calls) > env.calls

ReadOnlyRule ==
  act.type = "tool_batch" => \A t \in Called : Effect[t] = "read"

\* Arguments that are not JSON make preflight fail rather than block.
Reserve(wellFormed) ==
  /\ pc = "reserve"
  /\ IF OverBudget \/ ~wellFormed
       THEN Throw("run_failed")
       ELSE IF ReadOnlyRule /\ \A t \in Called : Permitted(env, t)
         THEN /\ pc' = "attempt"
              /\ UNCHANGED <<cont, buf, Rest, steps, calls, conv, act, todo,
                             result>>
         ELSE Throw("run_blocked")
  /\ UNCHANGED <<ledgerVars, boundVars, worldVars>>

\* One attempt_started per call, then the handlers.
Attempt ==
  /\ pc = "attempt"
  /\ calls' = calls + 1
  /\ todo' = IF todo + 1 = Len(act.calls) THEN 0 ELSE todo + 1
  /\ Emit([Blank("attempt_started", run) EXCEPT !.tool = act.calls[todo + 1],
                                                !.attempt = calls + 1],
          IF todo + 1 = Len(act.calls) THEN "execute" ELSE "attempt")
  /\ UNCHANGED <<Rest, steps, conv, act, result>>
  /\ UNCHANGED <<ledgerVars, boundVars, worldVars>>

Mutates == \E t \in Called : Effect[t] # "read"

Goto(point) ==
  /\ pc' = point
  /\ UNCHANGED <<cont, buf, Rest, steps, calls, conv, act, todo, result>>

\* Seeded fault: the handler runs before its attempt is recorded.
HandlerAppliesFirst ==
  /\ pc = "attempt"
  /\ Mutates
  /\ effects' = Append(effects, <<run, calls + 1>>)
  /\ Goto("attempt")
  /\ UNCHANGED <<ledgerVars, boundVars, now, interrupts>>

\* The handler of a mutating tool changes the world.
HandlerApplies ==
  /\ pc = "execute"
  /\ Mutates
  /\ effects' = Append(effects, <<run, calls>>)
  /\ Goto("executed")
  /\ UNCHANGED <<ledgerVars, boundVars, now, interrupts>>

HandlerReturns ==
  /\ IF Mutates THEN pc = "executed" ELSE pc = "execute"
  /\ Goto("observe")
  /\ UNCHANGED <<ledgerVars, boundVars, worldVars>>

\* Seeded fault: a call that timed out is tried again.
HandlerRetried(type) ==
  /\ pc \in {"execute", "executed"}
  /\ Goto("execute")
  /\ UNCHANGED <<ledgerVars, boundVars, worldVars>>

\* A handler raises before or after its effect, exceeds the timeout, or
\* returns an output that is not JSON.
HandlerRaises(type) ==
  /\ pc \in {"execute", "executed"}
  /\ Throw(type)
  /\ UNCHANGED <<ledgerVars, boundVars, worldVars>>

\* Seeded fault: the calls of a batch are numbered backwards from its last.
AttemptNumberBackwards == calls - Len(act.calls) - todo - 1

\* The identity of the call recorded next: the last Len(act.calls) ones.
AttemptNumber == calls - Len(act.calls) + todo + 1

\* The observation of one call is appended and joins the conversation.
Observe(c) ==
  /\ pc = "observe"
  /\ todo < Len(act.calls)
  /\ todo' = todo + 1
  /\ conv' = (IF todo = 0 THEN Append(conv, Assistant(act)) ELSE conv)
               \o <<Observation(act.calls[todo + 1], 0, c)>>
  /\ Emit([Blank("tool_observation", run) EXCEPT !.tool = act.calls[todo + 1],
                                                 !.attempt = AttemptNumber,
                                                 !.content = c],
          "observe")
  /\ UNCHANGED <<Rest, steps, calls, act, result>>
  /\ UNCHANGED <<ledgerVars, boundVars, worldVars>>

Observed ==
  /\ pc = "observe"
  /\ todo = Len(act.calls)
  /\ IF Late THEN Throw("run_failed") ELSE Goto("head")
  /\ UNCHANGED <<ledgerVars, boundVars, worldVars>>

-----------------------------------------------------------------------------
(* Verification and completion.                                            *)

\* The verifier answers in time with a boolean and some feedback.
Verify(passed, c) ==
  /\ pc = "verify"
  /\ ~Late
  /\ Emit([Blank("verification", run) EXCEPT !.passed = passed, !.content = c],
          IF passed THEN "verified" ELSE "head")
  /\ conv' = IF passed THEN conv ELSE conv \o <<Assistant(act), Feedback(c)>>
  /\ UNCHANGED <<Rest, steps, calls, act, todo, result>>
  /\ UNCHANGED <<ledgerVars, boundVars, worldVars>>

\* The verifier raises, answers something else, or answers too late.
VerifierRaises(type) ==
  /\ pc = "verify"
  /\ Throw(type)
  /\ UNCHANGED <<ledgerVars, boundVars, worldVars>>

Complete ==
  /\ pc = "verified"
  /\ Emit([Blank("run_completed", run) EXCEPT !.content = act.content], "idle")
  /\ UNCHANGED <<Rest, steps, calls, conv, act, todo, result>>
  /\ UNCHANGED <<ledgerVars, boundVars, worldVars>>

-----------------------------------------------------------------------------
(* The environment.                                                        *)

\* KeyboardInterrupt or SystemExit in a callback passes the except clauses.
Interrupt ==
  /\ pc \in {"model", "execute", "executed", "verify"}
  /\ interrupts < MaxInterrupts
  /\ interrupts' = interrupts + 1
  /\ Leave("raised")
  /\ UNCHANGED <<ledgerVars, boundVars, now, effects>>

Crash ==
  /\ IF pc = "append" THEN CrashAppending(buf) ELSE CrashIdle
  /\ Leave("none")
  /\ UNCHANGED <<faults, disturbances, worldVars>>

FileChanges ==
  /\ Disturb
  /\ UNCHANGED <<faults, crashes, controlVars, worldVars>>

Tick ==
  /\ now < MaxClock
  /\ now' = now + 1
  /\ UNCHANGED <<ledgerVars, boundVars, controlVars, effects, interrupts>>

-----------------------------------------------------------------------------
Call ==
  \E r \in Runs, v \in Envelopes, callable, approved \in BOOLEAN :
    \/ RunAnswered(r, v, approved)
    \/ RunStarted(r, v, callable)
    \/ RunResumed(r, v, callable, approved)

\* Steps that run() itself, or a callback it waits for, takes.
Program ==
  \/ AppendReturns \/ AppendRefused
  \/ LoopHead
  \/ \E a \in ModelActions : ModelReturns(a)
  \/ \E type \in AnyException : ModelRaises(type)
  \/ Delegate \/ ModelReportsError
  \/ \E wellFormed \in BOOLEAN : Reserve(wellFormed)
  \/ Attempt
  \/ HandlerApplies \/ HandlerReturns
  \/ \E type \in AnyException : HandlerRaises(type)
  \/ \E c \in Contents : Observe(c)
  \/ Observed
  \/ \E passed \in BOOLEAN, c \in Contents : Verify(passed, c)
  \/ \E type \in AnyException : VerifierRaises(type)
  \/ Complete

Environment ==
  \/ Reopen \/ Call
  \/ AppendRaises \/ Interrupt \/ Crash \/ FileChanges \/ Tick

Next == Program \/ Environment

Spec == Init /\ [][Next]_vars

\* Callbacks return or raise, and the process goes on while it lives.  Nothing
\* is assumed of callers, of the clock or of failures.
FairSpec == Spec /\ WF_vars(Program)

-----------------------------------------------------------------------------
(* Type invariant.                                                         *)

ControlTypeOK ==
  /\ now \in Nat
  /\ pc \in Points /\ cont \in Points
  /\ buf \in Event
  /\ run \in Runs \cup {NoRun}
  /\ env \in Envelope
  /\ verifier \in BOOLEAN
  /\ deadline \in Nat /\ steps \in Nat /\ calls \in Nat /\ todo \in Nat
  /\ act \in Action
  /\ effects \in Seq(Runs \X Nat)
  /\ result \in [run : Runs \cup {NoRun}, status : Statuses,
                 content : Contents \cup {NoContent}]
  /\ interrupts \in Nat

\* Every variable of the ledger and of the kernel has its type; no handler
\* leaves run() with a half-initialised local.
TypeOK == LedgerTypeOK /\ ControlTypeOK /\ conv \in Seq(Message)

-----------------------------------------------------------------------------
(* The ledger against the process and the world.                           *)

\* What append has published to memory is in the file and reads back as it
\* was published, whatever later appends, I/O errors and crashes do: append
\* writes and syncs the line before it publishes the event.
PublishedIsReadable ==
  up /\ disturbances = 0 =>
    /\ Len(mem) <= Len(disk)
    /\ SubSeq(disk, 1, Len(mem)) = mem

\* A mutating handler takes effect only after its attempt_started is in the
\* file, so a restarted process knows of every effect there can have been.
IntentBeforeEffect ==
  disturbances = 0 =>
    \A i \in DOMAIN effects :
      \E j \in OfType(disk, effects[i][1], "attempt_started") :
        disk[j].attempt = effects[i][2]

\* No attempt takes effect twice, over all crashes, retries and resumes.
AtMostOnce ==
  \A i, j \in DOMAIN effects : effects[i] = effects[j] => i = j

\* A mutating handler never runs while the outcome of an earlier mutation of
\* the run is unknown: its own attempt is the only unresolved one.
NoEffectWhileUnresolved ==
  [][effects' # effects => Cardinality(Unresolved(disk, run)) = 1]_vars

\* The steps and calls of a run, failed and interrupted ones included, stay
\* within the limits of its first envelope over all resumes.
BudgetAcrossResumes ==
  \A r \in Runs :
    Exists(mem, r) =>
      /\ Cardinality(OfType(mem, r, "model_started"))
           <= FirstOf(mem, r).env.steps
      /\ Cardinality(OfType(mem, r, "attempt_started"))
           <= FirstOf(mem, r).env.calls

\* Every attempt was permitted by the envelope the run was started with: a
\* resume widens neither the tools nor the authorizations.
WithinEnvelope ==
  \A i \in DOMAIN mem :
    mem[i].type = "attempt_started" =>
      Permitted(FirstOf(mem, mem[i].run).env, mem[i].tool)

\* The kernel never offers its own store an event the store refuses: while
\* nobody else changes the file, no append fails validation.
SelfAcceptance == pc = "append" /\ Synced => EventOK(mem, buf)

\* After any number of resumes the counters, and the conversation but for the
\* attempt numbers, are those a fresh replay of the ledger would give.
Unnumbered(c) == [i \in DOMAIN c |-> [c[i] EXCEPT !.attempt = 0]]

ReplayMatchesLive ==
  pc \in {"head", "model"} =>
    /\ Unnumbered(conv) = Unnumbered(Rehydrated(mem, run))
    /\ steps = Cardinality(OfType(mem, run, "model_started"))
    /\ calls = Cardinality(OfType(mem, run, "attempt_started"))

\* No model action enters the ledger after the deadline the run was first
\* started with: a resume does not reset the clock.
DeadlineNotReset ==
  [][buf'.type = "model_action" /\ buf' # buf =>
       now < FirstOf(mem, run).deadline]_vars

\* Nothing is recorded of a run after its completion, whatever other runs
\* append to the same ledger.
NothingAfterCompletion ==
  \A i, j \in DOMAIN disk :
    disk[i].type = "run_completed" /\ i < j => disk[j].run # disk[i].run

\* A completed result, fresh or cached, is returned only while the file still
\* is the ledger that holds it.
AnswersFromIntactLedger ==
  [][result' # result /\ result'.status = "completed" => disk' = mem']_vars

\* Every invocation of run() ends, refused and failing appends included.
Returns == (pc # "idle") ~> (pc = "idle")

=============================================================================
