--------------------------- MODULE RunKernelProofs --------------------------
(***************************************************************************)
(* What is proved of RunKernel for every value of its constants, apart     *)
(* from the history invariant (RunKernelHistory): type correctness, what   *)
(* the operators that read a ledger return when it grows, and the ledger   *)
(* against the process and the world - what append published can be read   *)
(* back, every effect has its recorded intent, and no attempt takes effect *)
(* twice.                                                                  *)
(*                                                                         *)
(* The argument.  A torn line is the last line of the file and the store   *)
(* never appends while file and memory differ, so a line is never glued to *)
(* an accepted one and the file only grows.  An attempt_started therefore  *)
(* stays in the file, and validate refuses a second one with its number:   *)
(* the number a handler runs under is new to the world.                    *)
(***************************************************************************)
EXTENDS RunKernel, Positions, TLAPS, FiniteSetTheorems, SequenceTheorems

-----------------------------------------------------------------------------
(* The inductive invariant.                                                *)

\* Control is at p, or will be when the pending append returns.
At(p) == pc = p \/ (pc = "append" /\ cont = p)

\* Outside idle there is a run and an open store; the calls of the action are
\* reserved, numbered and recorded in this order.
Flow ==
  /\ pc # "idle" => run \in Runs /\ up
  /\ At("reserve") => todo = 0 /\ Len(act.calls) > 0
  /\ At("attempt") => todo < Len(act.calls) /\ todo <= calls
  /\ At("execute") \/ At("executed") \/ At("observe") =>
       Len(act.calls) <= calls

KernelTypeOK == LedgerTypeOK /\ ControlTypeOK /\ Flow

-----------------------------------------------------------------------------
LEMMA BlankType ==
  ASSUME NEW type \in EventTypes \cup {"none", "garbled"},
         NEW r \in Runs \cup {NoRun}
  PROVE  Blank(type, r) \in Event
BY DEF Blank, Event, Envelope, NoEnvelope, Action, NoAction

LEMMA CountType ==
  ASSUME NEW log \in Seq(Event), NEW r, NEW type
  PROVE  Cardinality(OfType(log, r, type)) \in Nat
<1>1. OfType(log, r, type) \subseteq 1 .. Len(log)
  BY DEF OfType, Own
<1>2. IsFiniteSet(1 .. Len(log))
  BY FS_Interval, LenProperties
<1> QED
  BY <1>1, <1>2, FS_Subset, FS_CardinalityType

LEMMA ActionFacts ==
  ASSUME NEW a \in ModelActions
  PROVE  /\ a \in Action
         /\ a.type \in ActionTypes
         /\ AfterAction(a) \in {"reserve", "verify", "error", "delegate"}
         /\ AfterAction(a) = "reserve" => Len(a.calls) > 0
BY ActionAssumption DEF AfterAction, ActionTypes

LEMMA TypeInit == Init => KernelTypeOK
<1> SUFFICES ASSUME Init PROVE KernelTypeOK
  OBVIOUS
<1>1. LedgerTypeOK
  BY EmptySeq DEF Init, LedgerInit, LedgerTypeOK
<1>2. ControlTypeOK
  <2>1. buf \in Event
    BY BlankType DEF Init, NoEvent
  <2>2. env \in Envelope /\ act \in Action /\ effects \in Seq(Runs \X Nat)
    BY DEF Init, NoEnvelope, Envelope, NoAction, Action
  <2> QED
    BY <2>1, <2>2 DEF Init, ControlTypeOK, Points, NoResult, Statuses
<1>3. Flow
  BY DEF Init, Flow, At
<1> QED
  BY <1>1, <1>2, <1>3 DEF KernelTypeOK

-----------------------------------------------------------------------------
(* The ways an action ends.                                                *)

LEMMA LeaveType ==
  ASSUME KernelTypeOK, NEW status \in Statuses, Leave(status),
         now' = now, effects' = effects, interrupts' \in Nat
  PROVE  ControlTypeOK' /\ Flow'
<1>1. NoEvent \in Event /\ NoEnvelope \in Envelope /\ NoAction \in Action
  BY BlankType DEF NoEvent, NoEnvelope, Envelope, NoAction, Action
<1>2. buf.content \in Contents \cup {NoContent}
  BY DEF KernelTypeOK, ControlTypeOK, Event
<1>3. ControlTypeOK'
  BY <1>1, <1>2 DEF Leave, KernelTypeOK, ControlTypeOK, Points
<1>4. Flow'
  BY DEF Leave, Flow, At
<1> QED
  BY <1>3, <1>4

LEMMA ThrowType ==
  ASSUME KernelTypeOK, pc # "idle", NEW type \in AnyException, Throw(type),
         up' = up, now' = now, effects' = effects, interrupts' = interrupts
  PROVE  ControlTypeOK' /\ Flow'
<1>1. Blank(type, run) \in Event
  BY BlankType DEF KernelTypeOK, Flow, AnyException, EventTypes
<1>2. ControlTypeOK'
  BY <1>1 DEF Throw, Emit, KernelTypeOK, ControlTypeOK, Points
<1>3. Flow'
  BY DEF Throw, Emit, KernelTypeOK, Flow, At
<1> QED
  BY <1>2, <1>3

\* An append of e that goes on at k, from a point of the same frame.
LEMMA EmitType ==
  ASSUME KernelTypeOK, pc # "idle", NEW e \in Event, NEW k \in Points,
         Emit(e, k), UNCHANGED <<Rest, result, up, worldVars>>,
         steps' \in Nat, calls' \in Nat, todo' \in Nat, act' \in Action,
         k = "reserve" => todo' = 0 /\ Len(act'.calls) > 0,
         k = "attempt" => todo' < Len(act'.calls) /\ todo' <= calls',
         k \in {"execute", "executed", "observe"} => Len(act'.calls) <= calls'
  PROVE  ControlTypeOK' /\ Flow'
<1>1. ControlTypeOK'
  BY DEF Emit, Rest, worldVars, KernelTypeOK, ControlTypeOK, Points
<1>2. Flow'
  BY DEF Emit, Rest, KernelTypeOK, Flow, At
<1> QED
  BY <1>1, <1>2

LEMMA LedgerUnchanged ==
  ASSUME LedgerTypeOK, UNCHANGED <<ledgerVars, boundVars>>
  PROVE  LedgerTypeOK' /\ up' = up
BY DEF LedgerTypeOK, ledgerVars, boundVars

-----------------------------------------------------------------------------
(* The ledger's own steps.                                                 *)

LEMMA LineType ==
  ASSUME NEW e \in Event
  PROVE  LineOf(e) \in Event /\ Garbled \in Event
BY BlankType DEF LineOf, Garbled

LEMMA ExtendedType ==
  ASSUME LedgerTypeOK, NEW l \in Event
  PROVE  Extended(l) \in Seq(Event)
<1>1. CASE terminated \/ disk = <<>>
  BY <1>1 DEF Extended, LedgerTypeOK
<1>2. CASE ~(terminated \/ disk = <<>>)
  <2>1. Garbled \in Event
    BY BlankType DEF Garbled
  <2>2. [disk EXCEPT ![Len(disk)] = Garbled] \in Seq(Event)
    BY <2>1, ExceptSeq, <1>2, Len(disk) \in 1 .. Len(disk), EmptySeq, LenProperties DEF LedgerTypeOK
  <2> QED
    BY <1>2, <2>2 DEF Extended
<1> QED
  BY <1>1, <1>2

LEMMA TornType ==
  ASSUME LedgerTypeOK, NEW e \in Event, Torn(e)
  PROVE  disk' \in Seq(Event) /\ terminated' \in BOOLEAN
BY LineType, ExtendedType DEF Torn, LedgerTypeOK

LEMMA AppendDoneType ==
  ASSUME LedgerTypeOK, NEW e \in Event, AppendDone(e), UNCHANGED boundVars
  PROVE  LedgerTypeOK' /\ up' = up
BY LineType, ExtendedType DEF AppendDone, LedgerTypeOK, boundVars

-----------------------------------------------------------------------------
(* The type of an event with the fields an action fills in.                *)

LEMMA FilledType ==
  ASSUME KernelTypeOK, pc # "idle"
  PROVE  /\ \A type \in EventTypes : Blank(type, run) \in Event
         /\ \A a \in ModelActions :
              [Blank("model_action", run) EXCEPT !.action = a,
                                                 !.content = a.content]
                \in Event
         /\ \A t \in Tools, n \in Nat :
              [Blank("attempt_started", run) EXCEPT !.tool = t, !.attempt = n]
                \in Event
         /\ \A t \in Tools, n \in Nat, c \in Contents :
              [Blank("tool_observation", run) EXCEPT !.tool = t, !.attempt = n,
                                                     !.content = c] \in Event
         /\ \A b \in BOOLEAN, c \in Contents :
              [Blank("verification", run) EXCEPT !.passed = b, !.content = c]
                \in Event
         /\ [Blank("run_completed", run) EXCEPT !.content = act.content]
              \in Event
<1>1. run \in Runs /\ act \in Action
  BY DEF KernelTypeOK, Flow, ControlTypeOK
<1>2. \A type \in EventTypes : Blank(type, run) \in Event
  BY <1>1, BlankType
<1>3. {"model_action", "attempt_started", "tool_observation", "verification",
       "run_completed"} \subseteq EventTypes
  BY DEF EventTypes
<1>4. \A a \in ModelActions : a \in Action /\ a.content \in Contents \cup {NoContent}
  BY ActionFacts DEF Action
<1>5. act.content \in Contents \cup {NoContent}
  BY <1>1 DEF Action
<1>6. \A a \in ModelActions :
        [Blank("model_action", run) EXCEPT !.action = a, !.content = a.content]
          \in Event
  BY <1>2, <1>3, <1>4 DEF Event
<1>7. \A t \in Tools, n \in Nat :
        [Blank("attempt_started", run) EXCEPT !.tool = t, !.attempt = n]
          \in Event
  BY <1>2, <1>3 DEF Event
<1>8. \A t \in Tools, n \in Nat, c \in Contents :
        [Blank("tool_observation", run) EXCEPT !.tool = t, !.attempt = n,
                                               !.content = c] \in Event
  BY <1>2, <1>3 DEF Event
<1>9. \A b \in BOOLEAN, c \in Contents :
        [Blank("verification", run) EXCEPT !.passed = b, !.content = c]
          \in Event
  BY <1>2, <1>3 DEF Event
<1>10. [Blank("run_completed", run) EXCEPT !.content = act.content] \in Event
  BY <1>2, <1>3, <1>5 DEF Event
<1> QED
  BY <1>2, <1>6, <1>7, <1>8, <1>9, <1>10

LEMMA ProgramType ==
  ASSUME KernelTypeOK, Program
  PROVE  KernelTypeOK'
<1> USE DEF KernelTypeOK
<1>1. CASE AppendReturns
  <2>1. LedgerTypeOK' /\ up' = up
    BY <1>1, AppendDoneType DEF AppendReturns, ControlTypeOK
  <2>2. ControlTypeOK' /\ Flow'
    <3>1. CASE cont = "idle"
      BY <1>1, <3>1, LeaveType
         DEF AppendReturns, ReturnStatus, Statuses, worldVars, ControlTypeOK
    <3>2. CASE cont # "idle"
      <4>1. NoEvent \in Event
        BY BlankType DEF NoEvent
      <4> QED
        BY <1>1, <3>2, <2>1, <4>1
           DEF AppendReturns, worldVars, ControlTypeOK, Flow, At, Points
    <3> QED
      BY <3>1, <3>2
  <2> QED
    BY <2>1, <2>2
<1>2. CASE AppendRefused
  <2>1. LedgerTypeOK' /\ up' = up
    BY <1>2, LedgerUnchanged DEF AppendRefused
  <2>2. ControlTypeOK' /\ Flow'
    BY <1>2, <2>1, LeaveType, ThrowType
       DEF AppendRefused, Unwind, AnyException, Statuses, worldVars,
           ControlTypeOK
  <2> QED
    BY <2>1, <2>2
<1>3. CASE LoopHead
  <2>1. LedgerTypeOK' /\ up' = up
    BY <1>3, LedgerUnchanged DEF LoopHead
  <2>2. CASE Throw("run_blocked") \/ Throw("run_failed")
    BY <1>3, <2>1, <2>2, ThrowType DEF LoopHead, AnyException, worldVars
  <2>3. CASE ~(Throw("run_blocked") \/ Throw("run_failed"))
    <3>1. Blank("model_started", run) \in Event
      BY <1>3, FilledType DEF LoopHead, EventTypes
    <3> QED
      BY <1>3, <2>1, <2>3, <3>1, EmitType
         DEF LoopHead, ControlTypeOK, Points, worldVars, Rest
  <2> QED
    BY <2>2, <2>3
<1>4. CASE \E a \in ModelActions : ModelReturns(a)
  <2> PICK a \in ModelActions : ModelReturns(a)
    BY <1>4
  <2>1. LedgerTypeOK' /\ up' = up
    BY LedgerUnchanged DEF ModelReturns
  <2>2. [Blank("model_action", run) EXCEPT !.action = a, !.content = a.content]
          \in Event
    BY FilledType DEF ModelReturns
  <2>3. AfterAction(a) \in Points /\ a \in Action
        /\ AfterAction(a) \notin {"attempt", "execute", "executed", "observe"}
    BY ActionFacts DEF Points
  <2>4. AfterAction(a) = "reserve" => Len(a.calls) > 0
    BY ActionFacts
  <2> QED
    BY <2>1, <2>2, <2>3, <2>4, EmitType
       DEF ModelReturns, ControlTypeOK, worldVars, Rest
<1>5. CASE \E type \in AnyException : ModelRaises(type)
  BY <1>5, ThrowType, LedgerUnchanged DEF ModelRaises, worldVars, ledgerVars
<1>6. CASE Delegate
  <2>1. Blank("delegation_requested", run) \in Event
    BY <1>6, FilledType DEF Delegate, EventTypes
  <2> QED
    BY <1>6, <2>1, EmitType, LedgerUnchanged
       DEF Delegate, ControlTypeOK, Points, worldVars, Rest
<1>7. CASE ModelReportsError
  BY <1>7, ThrowType, LedgerUnchanged
     DEF ModelReportsError, AnyException, worldVars
<1>8. CASE \E wellFormed \in BOOLEAN : Reserve(wellFormed)
  <2>1. LedgerTypeOK' /\ up' = up
    BY <1>8, LedgerUnchanged DEF Reserve
  <2>2. CASE Throw("run_blocked") \/ Throw("run_failed")
    BY <1>8, <2>1, <2>2, ThrowType DEF Reserve, AnyException, worldVars
  <2>3. CASE ~(Throw("run_blocked") \/ Throw("run_failed"))
    BY <1>8, <2>1, <2>3
       DEF Reserve, ControlTypeOK, Flow, At, Points, worldVars, Rest
  <2> QED
    BY <2>2, <2>3
<1>9. CASE Attempt
  <2> DEFINE e == [Blank("attempt_started", run)
                     EXCEPT !.tool = act.calls[todo + 1], !.attempt = calls + 1]
  <2>1. LedgerTypeOK' /\ up' = up
    BY <1>9, LedgerUnchanged DEF Attempt
  <2>2. todo < Len(act.calls) /\ todo <= calls /\ act.calls \in Seq(Tools)
    BY <1>9 DEF Attempt, Flow, At, ControlTypeOK, Action
  <2>3. todo \in Nat /\ calls \in Nat /\ Len(act.calls) \in Nat
    BY <2>2, LenProperties DEF ControlTypeOK
  <2>4. act.calls[todo + 1] \in Tools /\ calls + 1 \in Nat
    BY <2>2, <2>3, ElementOfSeq
  <2>5. pc # "idle" /\ e \in Event
    BY <1>9, <2>3, <2>4, FilledType DEF Attempt
  <2>6. /\ UNCHANGED <<Rest, result, up, worldVars>>
        /\ steps' \in Nat /\ act' \in Action /\ act' = act /\ calls' = calls + 1
    BY <1>9, <2>1 DEF Attempt, ControlTypeOK
  <2>7. CASE todo + 1 = Len(act.calls)
    <3>1. Emit(e, "execute") /\ todo' = 0
      BY <1>9, <2>7 DEF Attempt
    <3>2. "execute" \in Points /\ Len(act'.calls) <= calls'
      BY <2>2, <2>3, <2>6, <2>7 DEF Points
    <3> HIDE DEF e
    <3>3. ControlTypeOK' /\ Flow'
      BY <2>3, <2>4, <2>5, <2>6, <3>1, <3>2, EmitType
    <3> QED
      BY <2>1, <3>3 DEF KernelTypeOK
  <2>8. CASE todo + 1 # Len(act.calls)
    <3>1. Emit(e, "attempt") /\ todo' = todo + 1
      BY <1>9, <2>8 DEF Attempt
    <3>2. /\ "attempt" \in Points
          /\ todo' \in Nat /\ todo' < Len(act'.calls) /\ todo' <= calls'
      BY <2>2, <2>3, <2>6, <2>8, <3>1 DEF Points
    <3> HIDE DEF e
    <3>3. ControlTypeOK' /\ Flow'
      BY <2>4, <2>5, <2>6, <3>1, <3>2, EmitType
    <3> QED
      BY <2>1, <3>3 DEF KernelTypeOK
  <2> QED
    BY <2>7, <2>8
<1>10. CASE HandlerApplies
  <2>1. LedgerTypeOK' /\ up' = up
    BY <1>10, LedgerUnchanged DEF HandlerApplies
  <2>2. effects' \in Seq(Runs \X Nat)
    BY <1>10, AppendProperties DEF HandlerApplies, ControlTypeOK, Flow
  <2> QED
    BY <1>10, <2>1, <2>2
       DEF HandlerApplies, Goto, ControlTypeOK, Flow, At, Points, Rest
<1>11. CASE HandlerReturns
  BY <1>11, LedgerUnchanged
     DEF HandlerReturns, Goto, ControlTypeOK, Flow, At, Points, Rest, worldVars
<1>12. CASE \E type \in AnyException : HandlerRaises(type)
  BY <1>12, ThrowType, LedgerUnchanged DEF HandlerRaises, worldVars
<1>13. CASE \E c \in Contents : Observe(c)
  <2> PICK c \in Contents : Observe(c)
    BY <1>13
  <2>1. LedgerTypeOK' /\ up' = up
    BY LedgerUnchanged DEF Observe
  <2>2. todo < Len(act.calls) /\ act.calls \in Seq(Tools)
        /\ Len(act.calls) <= calls
    BY DEF Observe, Flow, At, ControlTypeOK, Action
  <2>3. todo \in Nat /\ calls \in Nat /\ Len(act.calls) \in Nat
    BY <2>2, LenProperties DEF ControlTypeOK
  <2>4. act.calls[todo + 1] \in Tools /\ AttemptNumber \in Nat
    BY <2>2, <2>3, ElementOfSeq DEF AttemptNumber
  <2>5. [Blank("tool_observation", run) EXCEPT !.tool = act.calls[todo + 1],
                                               !.attempt = AttemptNumber,
                                               !.content = c] \in Event
    BY <2>4, FilledType DEF Observe
  <2> QED
    BY <2>1, <2>2, <2>3, <2>5, EmitType
       DEF Observe, ControlTypeOK, Points, worldVars, Rest
<1>14. CASE Observed
  <2>1. LedgerTypeOK' /\ up' = up
    BY <1>14, LedgerUnchanged DEF Observed
  <2>2. CASE Late
    BY <1>14, <2>1, <2>2, ThrowType DEF Observed, AnyException, worldVars
  <2>3. CASE ~Late
    BY <1>14, <2>1, <2>3
       DEF Observed, Goto, ControlTypeOK, Flow, At, Points, worldVars, Rest
  <2> QED
    BY <2>2, <2>3
<1>15. CASE \E passed \in BOOLEAN, c \in Contents : Verify(passed, c)
  <2> PICK passed \in BOOLEAN, c \in Contents : Verify(passed, c)
    BY <1>15
  <2>1. [Blank("verification", run) EXCEPT !.passed = passed, !.content = c]
          \in Event
    BY FilledType DEF Verify
  <2>2. (IF passed THEN "verified" ELSE "head") \in {"verified", "head"}
    OBVIOUS
  <2> QED
    BY <2>1, <2>2, EmitType, LedgerUnchanged
       DEF Verify, ControlTypeOK, Points, worldVars, Rest
<1>16. CASE \E type \in AnyException : VerifierRaises(type)
  BY <1>16, ThrowType, LedgerUnchanged DEF VerifierRaises, worldVars
<1>17. CASE Complete
  <2>1. [Blank("run_completed", run) EXCEPT !.content = act.content] \in Event
    BY <1>17, FilledType DEF Complete
  <2> QED
    BY <1>17, <2>1, EmitType, LedgerUnchanged
       DEF Complete, ControlTypeOK, Points, worldVars, Rest
<1> QED
  BY <1>1, <1>2, <1>3, <1>4, <1>5, <1>6, <1>7, <1>8, <1>9, <1>10, <1>11,
     <1>12, <1>13, <1>14, <1>15, <1>16, <1>17 DEF Program

LEMMA CallType ==
  ASSUME KernelTypeOK, Call
  PROVE  KernelTypeOK'
<1> USE DEF KernelTypeOK
<1> PICK r \in Runs, v \in Envelopes, callable \in BOOLEAN,
         approved \in BOOLEAN :
           \/ RunAnswered(r, v, approved)
           \/ RunStarted(r, v, callable)
           \/ RunResumed(r, v, callable, approved)
  BY DEF Call
<1>1. v \in Envelope /\ v.secs \in Nat
  BY EnvelopeAssumption DEF Envelope
<1>2. CASE RunAnswered(r, v, approved)
  <2>1. Completed(mem, r) => LastOf(mem, r) \in Event
    <3>1. Own(mem, r) \subseteq 1 .. Len(mem) /\ mem \in Seq(Event)
      BY DEF Own, LedgerTypeOK
    <3>2. ASSUME Completed(mem, r)
          PROVE  \E i \in Own(mem, r) : \A j \in Own(mem, r) : j <= i
      <4>1. Own(mem, r) # {} /\ Len(mem) \in Nat
        BY <3>1, <3>2, LenProperties DEF Completed, Exists
      <4> QED
        BY <4>1, <3>1, LastExists
    <3> QED
      BY <3>1, <3>2, ElementOfSeq DEF LastOf
  <2>2. LedgerTypeOK' /\ up' = up
    BY <1>2, LedgerUnchanged DEF RunAnswered
  <2>3. result' \in [run : Runs \cup {NoRun}, status : Statuses,
                     content : Contents \cup {NoContent}]
    BY <1>2, <2>1 DEF RunAnswered, Statuses, Event
  <2> QED
    BY <1>2, <2>2, <2>3 DEF RunAnswered, ControlTypeOK, Flow, At, worldVars
<1>3. CASE RunStarted(r, v, callable) \/ RunResumed(r, v, callable, approved)
  <2>1. LedgerTypeOK' /\ up' = up /\ up
    BY <1>3, LedgerUnchanged DEF RunStarted, RunResumed, EnterRun
  <2>2. deadline' \in Nat /\ buf' \in Event
    <3>1. Blank("run_started", r) \in Event /\ Blank("run_resumed", r) \in Event
      BY BlankType DEF EventTypes
    <3>2. CASE RunStarted(r, v, callable)
      <4>1. now + v.secs \in Nat
        BY <1>1 DEF ControlTypeOK
      <4>2. [Blank("run_started", r) EXCEPT !.env = v,
                                            !.deadline = now + v.secs] \in Event
        BY <3>1, <1>1, <4>1 DEF Event
      <4> QED
        BY <3>2, <4>1, <4>2 DEF RunStarted, Emit
    <3>3. CASE RunResumed(r, v, callable, approved)
      <4>1. FirstOf(mem, r) \in Event
        <5>1. Own(mem, r) \subseteq 1 .. Len(mem) /\ mem \in Seq(Event)
          BY DEF Own, LedgerTypeOK
        <5>2. \E i \in Own(mem, r) : \A j \in Own(mem, r) : i <= j
          BY <3>3, <5>1, FirstExists, LenProperties
             DEF RunResumed, Exists
        <5> QED
          BY <5>1, <5>2, ElementOfSeq DEF FirstOf
      <4> QED
        BY <3>1, <3>3, <4>1 DEF RunResumed, ResumeDeadline, Emit, Event
    <3> QED
      BY <1>3, <3>2, <3>3
  <2>3. steps' \in Nat /\ calls' \in Nat
    BY <1>3, CountType
       DEF RunStarted, RunResumed, EnterRun, StepsUsed, CallsUsed, LedgerTypeOK
  <2>4. NoAction \in Action
    BY DEF NoAction, Action
  <2>5. ControlTypeOK'
    BY <1>1, <1>3, <2>2, <2>3, <2>4
       DEF RunStarted, RunResumed, EnterRun, Emit, ControlTypeOK, Points,
           NoResult, Statuses, worldVars
  <2>6. Flow'
    BY <1>3, <2>1 DEF RunStarted, RunResumed, EnterRun, Emit, Flow, At
  <2> QED
    BY <2>1, <2>5, <2>6
<1> QED
  BY <1>2, <1>3

LEMMA EnvironmentType ==
  ASSUME KernelTypeOK, Environment
  PROVE  KernelTypeOK'
<1> USE DEF KernelTypeOK
<1>1. CASE Reopen
  BY <1>1 DEF Reopen, Open, LedgerTypeOK, ControlTypeOK, Flow, At, boundVars,
              controlVars, worldVars
<1>2. CASE Call
  BY <1>2, CallType
<1>3. CASE AppendRaises
  <2>1. LedgerTypeOK' /\ up' = up
    BY <1>3, TornType DEF AppendRaises, AppendFault, LedgerTypeOK, ControlTypeOK
  <2>2. ControlTypeOK' /\ Flow'
    BY <1>3, <2>1, LeaveType, ThrowType
       DEF AppendRaises, Unwind, AnyException, Statuses, worldVars,
           ControlTypeOK
  <2> QED
    BY <2>1, <2>2
<1>4. CASE Interrupt
  BY <1>4, LedgerUnchanged, LeaveType DEF Interrupt, Statuses, ControlTypeOK
<1>5. CASE Crash
  <2>1. LedgerTypeOK'
    <3>1. mem' \in Seq(Event) /\ up' \in BOOLEAN /\ head' = head
      <4>1. mem' = <<>> /\ up' = FALSE /\ head' = head
        BY <1>5 DEF Crash, CrashAppending, CrashIdle
      <4>2. mem' \in Seq(Event)
        BY <4>1, EmptySeq
      <4>3. up' \in BOOLEAN
        BY <4>1
      <4> QED
        BY <4>1, <4>2, <4>3
    <3>2. crashes' = crashes + 1 /\ UNCHANGED <<faults, disturbances>>
      BY <1>5 DEF Crash, CrashAppending, CrashIdle
    <3>3. disk' \in Seq(Event) /\ terminated' \in BOOLEAN
      <4>1. CASE UNCHANGED <<disk, terminated>>
        BY <4>1 DEF LedgerTypeOK
      <4>2. CASE Torn(buf)
        BY <4>2, TornType DEF ControlTypeOK
      <4> QED
        BY <1>5, <4>1, <4>2 DEF Crash, CrashAppending, CrashIdle
    <3> QED
      BY <3>1, <3>2, <3>3 DEF LedgerTypeOK
  <2> QED
    BY <1>5, <2>1, LeaveType DEF Crash, Statuses, ControlTypeOK, worldVars
<1>6. CASE FileChanges
  <2>1. disk' \in Seq(Event) /\ terminated' \in BOOLEAN
    <3>1. CASE \E n \in 0 .. Len(disk) - 1 :
                 disk' = SubSeq(disk, 1, n) /\ terminated' = TRUE
      BY <3>1, SubSeqProperties, LenProperties DEF LedgerTypeOK
    <3>2. CASE \E i \in DOMAIN disk :
                 disk' = [disk EXCEPT ![i] = Garbled] /\ UNCHANGED terminated
      <4>1. PICK i \in DOMAIN disk :
              /\ disk' = [disk EXCEPT ![i] = Garbled]
              /\ terminated' = terminated
        BY <3>2
      <4>2. Garbled \in Event
        BY BlankType DEF Garbled
      <4>3. [disk EXCEPT ![i] = Garbled] \in Seq(Event)
        BY <4>2, ExceptSeq, LenProperties DEF LedgerTypeOK
      <4> QED
        BY <4>1, <4>3 DEF LedgerTypeOK
    <3> QED
      BY <1>6, <3>1, <3>2 DEF FileChanges, Disturb
  <2> QED
    BY <1>6, <2>1
       DEF FileChanges, Disturb, LedgerTypeOK, ControlTypeOK, Flow, At,
           controlVars, worldVars
<1>7. CASE Tick
  BY <1>7, LedgerUnchanged DEF Tick, ControlTypeOK, Flow, At, controlVars
<1> QED
  BY <1>1, <1>2, <1>3, <1>4, <1>5, <1>6, <1>7 DEF Environment

LEMMA TypeStep ==
  ASSUME KernelTypeOK, Next \/ UNCHANGED vars
  PROVE  KernelTypeOK'
<1>1. CASE UNCHANGED vars
  BY <1>1 DEF KernelTypeOK, LedgerTypeOK, ControlTypeOK, Flow, At, vars,
              ledgerVars, boundVars, controlVars, worldVars
<1> QED
  BY <1>1, ProgramType, EnvironmentType DEF Next

\* Every variable but conv keeps its type: run() leaves no local of another
\* shape behind at any return, exception, interrupt or crash.
THEOREM TypeCorrect == Spec => [](LedgerTypeOK /\ ControlTypeOK)
<1>1. Init => KernelTypeOK
  BY TypeInit
<1>2. KernelTypeOK /\ [Next]_vars => KernelTypeOK'
  BY TypeStep
<1>3. KernelTypeOK => LedgerTypeOK /\ ControlTypeOK
  BY DEF KernelTypeOK
<1> QED
  BY <1>1, <1>2, <1>3, PTL DEF Spec

-----------------------------------------------------------------------------
(* What a ledger with one more event says of a run.                        *)

LEMMA AppendPlaces ==
  ASSUME NEW log \in Seq(Event), NEW e \in Event
  PROVE  /\ Append(log, e) \in Seq(Event)
         /\ Len(log) + 1 \in Nat /\ Len(log) + 1 \notin DOMAIN log
         /\ DOMAIN Append(log, e) = DOMAIN log \cup {Len(log) + 1}
         /\ DOMAIN log = 1 .. Len(log)
         /\ Append(log, e)[Len(log) + 1] = e
         /\ \A i \in DOMAIN log : /\ i \in Nat /\ i < Len(log) + 1
                                  /\ Append(log, e)[i] = log[i]
BY AppendProperties, LenProperties

LEMMA OwnPlaces ==
  ASSUME NEW log \in Seq(Event), NEW r
  PROVE  /\ Own(log, r) \subseteq DOMAIN log /\ Own(log, r) \subseteq 1 .. Len(log)
         /\ Len(log) \in Nat
         /\ \A type : OfType(log, r, type) \subseteq Own(log, r)
         /\ \A i \in DOMAIN log : log[i] \in Event /\ i \in Nat
BY LenProperties, ElementOfSeq DEF Own, OfType

LEMMA OwnAppend ==
  ASSUME NEW log \in Seq(Event), NEW e \in Event, NEW r
  PROVE  /\ e.run = r => Own(Append(log, e), r) = Own(log, r) \cup {Len(log) + 1}
         /\ e.run # r => Own(Append(log, e), r) = Own(log, r)
BY AppendPlaces DEF Own

LEMMA OfTypeAppend ==
  ASSUME NEW log \in Seq(Event), NEW e \in Event, NEW r, NEW type
  PROVE  /\ e.run = r /\ e.type = type =>
              OfType(Append(log, e), r, type) =
                OfType(log, r, type) \cup {Len(log) + 1}
         /\ e.run # r \/ e.type # type =>
              OfType(Append(log, e), r, type) = OfType(log, r, type)
<1>1. /\ \A i \in Own(log, r) : Append(log, e)[i] = log[i]
      /\ Append(log, e)[Len(log) + 1] = e
  BY AppendPlaces DEF Own
<1>2. CASE e.run = r
  <2>1. Own(Append(log, e), r) = Own(log, r) \cup {Len(log) + 1}
    BY <1>2, OwnAppend
  <2> QED
    BY <1>1, <1>2, <2>1 DEF OfType
<1>3. CASE e.run # r
  <2>1. Own(Append(log, e), r) = Own(log, r)
    BY <1>3, OwnAppend
  <2> QED
    BY <1>1, <1>3, <2>1 DEF OfType
<1> QED
  BY <1>2, <1>3

LEMMA CountAppend ==
  ASSUME NEW log \in Seq(Event), NEW e \in Event, NEW r, NEW type
  PROVE  /\ Cardinality(OfType(log, r, type)) \in Nat
         /\ Cardinality(OfType(Append(log, e), r, type)) =
              Cardinality(OfType(log, r, type))
                + (IF e.run = r /\ e.type = type THEN 1 ELSE 0)
<1>1. IsFiniteSet(OfType(log, r, type)) /\ Len(log) + 1 \notin OfType(log, r, type)
  <2>1. OfType(log, r, type) \subseteq 1 .. Len(log) /\ Len(log) \in Nat
    BY OwnPlaces
  <2>2. IsFiniteSet(1 .. Len(log))
    BY <2>1, FS_Interval
  <2> QED
    BY <2>1, <2>2, FS_Subset
<1>2. Cardinality(OfType(log, r, type)) \in Nat
  BY <1>1, FS_CardinalityType
<1>3. CASE e.run = r /\ e.type = type
  <2>1. OfType(Append(log, e), r, type) = OfType(log, r, type) \cup {Len(log) + 1}
    BY <1>3, OfTypeAppend
  <2>2. Cardinality(OfType(log, r, type) \cup {Len(log) + 1}) =
          Cardinality(OfType(log, r, type)) + 1
    BY <1>1, FS_AddElement
  <2> QED
    BY <1>2, <1>3, <2>1, <2>2
<1>4. CASE ~(e.run = r /\ e.type = type)
  <2>1. OfType(Append(log, e), r, type) = OfType(log, r, type)
    BY <1>4, OfTypeAppend
  <2> QED
    BY <1>2, <1>4, <2>1
<1> QED
  BY <1>3, <1>4

LEMMA FirstIs ==
  ASSUME NEW log \in Seq(Event), NEW r, NEW i \in Own(log, r),
         \A j \in Own(log, r) : i <= j
  PROVE  FirstOf(log, r) = log[i]
<1> DEFINE c == CHOOSE k \in Own(log, r) : \A j \in Own(log, r) : k <= j
<1>1. c \in Own(log, r) /\ \A j \in Own(log, r) : c <= j
  OBVIOUS
<1>2. c \in Nat /\ i \in Nat
  BY <1>1, OwnPlaces
<1>3. c <= i /\ i <= c
  BY <1>1
<1>4. c = i
  BY <1>2, <1>3
<1> QED
  BY <1>4 DEF FirstOf

LEMMA LastIs ==
  ASSUME NEW log \in Seq(Event), NEW r, NEW i \in Own(log, r),
         \A j \in Own(log, r) : j <= i
  PROVE  LastOf(log, r) = log[i]
<1> DEFINE c == CHOOSE k \in Own(log, r) : \A j \in Own(log, r) : j <= k
<1>1. c \in Own(log, r) /\ \A j \in Own(log, r) : j <= c
  OBVIOUS
<1>2. c \in Nat /\ i \in Nat
  BY <1>1, OwnPlaces
<1>3. c <= i /\ i <= c
  BY <1>1
<1>4. c = i
  BY <1>2, <1>3
<1> QED
  BY <1>4 DEF LastOf

LEMMA FirstLast ==
  ASSUME NEW log \in Seq(Event), NEW r, Exists(log, r)
  PROVE  /\ \E i \in Own(log, r) : /\ \A j \in Own(log, r) : i <= j
                                   /\ FirstOf(log, r) = log[i]
         /\ \E i \in Own(log, r) : /\ \A j \in Own(log, r) : j <= i
                                   /\ LastOf(log, r) = log[i]
<1>1. Own(log, r) \in SUBSET (1 .. Len(log)) /\ Len(log) \in Nat /\ Own(log, r) # {}
  BY OwnPlaces DEF Exists
<1>2. PICK i \in Own(log, r) : \A j \in Own(log, r) : i <= j
  BY <1>1, FirstExists
<1>3. PICK k \in Own(log, r) : \A j \in Own(log, r) : j <= k
  BY <1>1, LastExists
<1> QED
  BY <1>2, <1>3, FirstIs, LastIs

LEMMA FirstType ==
  ASSUME NEW log \in Seq(Event), NEW r, Exists(log, r)
  PROVE  FirstOf(log, r) \in Event /\ LastOf(log, r) \in Event
BY FirstLast, OwnPlaces

LEMMA EndsAppend ==
  ASSUME NEW log \in Seq(Event), NEW e \in Event, NEW r
  PROVE  /\ Exists(Append(log, e), r) <=> Exists(log, r) \/ e.run = r
         /\ Exists(log, r) => FirstOf(Append(log, e), r) = FirstOf(log, r)
         /\ ~Exists(log, r) /\ e.run = r => FirstOf(Append(log, e), r) = e
         /\ e.run = r => LastOf(Append(log, e), r) = e
         /\ e.run = r => (Completed(Append(log, e), r) <=> e.type = "run_completed")
<1> DEFINE L == Append(log, e)
           n == Len(log) + 1
<1>1. L \in Seq(Event) /\ n \in Nat /\ L[n] = e
      /\ (e.run = r => Own(L, r) = Own(log, r) \cup {n})
      /\ (e.run # r => Own(L, r) = Own(log, r))
      /\ \A i \in Own(log, r) : i \in Nat /\ i < n /\ L[i] = log[i]
  BY AppendPlaces, OwnAppend, OwnPlaces
<1> HIDE DEF L, n
<1>2. Exists(L, r) <=> Exists(log, r) \/ e.run = r
  BY <1>1 DEF Exists
<1>3. ASSUME Exists(log, r) PROVE FirstOf(L, r) = FirstOf(log, r)
  <2>1. PICK i \in Own(log, r) : /\ \A j \in Own(log, r) : i <= j
                                 /\ FirstOf(log, r) = log[i]
    BY <1>3, FirstLast
  <2>2. i \in Own(L, r) /\ \A j \in Own(L, r) : i <= j
    BY <1>1, <2>1
  <2> QED
    BY <1>1, <2>1, <2>2, FirstIs
<1>4. ASSUME ~Exists(log, r), e.run = r PROVE FirstOf(L, r) = e
  <2>1. Own(L, r) = {n}
    BY <1>1, <1>4 DEF Exists
  <2>2. n \in Own(L, r) /\ \A j \in Own(L, r) : n <= j
    BY <1>1, <2>1
  <2> QED
    BY <1>1, <2>2, FirstIs
<1>5. ASSUME e.run = r PROVE LastOf(L, r) = e
  <2>1. n \in Own(L, r) /\ \A j \in Own(L, r) : j <= n
    BY <1>1, <1>5
  <2> QED
    BY <1>1, <2>1, LastIs
<1> QED
  BY <1>2, <1>3, <1>4, <1>5 DEF Completed, L

LEMMA UnresolvedAppend ==
  ASSUME NEW log \in Seq(Event), NEW e \in Event, NEW r
  PROVE  /\ e.run # r \/ e.type \notin {"attempt_started", "tool_observation"} =>
              Unresolved(Append(log, e), r) = Unresolved(log, r)
         /\ e.type = "attempt_started" =>
              Unresolved(Append(log, e), r)
                \subseteq Unresolved(log, r) \cup {Len(log) + 1}
         /\ e.run = r /\ e.type = "tool_observation" =>
              Unresolved(Append(log, e), r) =
                {i \in Unresolved(log, r) : log[i].attempt # e.attempt}
<1> DEFINE L == Append(log, e)
           n == Len(log) + 1
           A == OfType(log, r, "attempt_started")
           O == OfType(log, r, "tool_observation")
           A1 == OfType(L, r, "attempt_started")
           O1 == OfType(L, r, "tool_observation")
<1>1. /\ L[n] = e /\ \A i \in DOMAIN log : L[i] = log[i]
      /\ A \subseteq DOMAIN log /\ O \subseteq DOMAIN log
  <2>1. L[n] = e /\ \A i \in DOMAIN log : L[i] = log[i]
    BY AppendPlaces
  <2>2. A \subseteq DOMAIN log /\ O \subseteq DOMAIN log
    BY DEF OfType, Own
  <2> QED
    BY <2>1, <2>2
<1>2. Unresolved(log, r) =
        {i \in A : /\ Effect[log[i].tool] # "read"
                  /\ \A j \in O : log[j].attempt # log[i].attempt}
  BY DEF Unresolved
<1>3. Unresolved(L, r) =
        {i \in A1 : /\ Effect[L[i].tool] # "read"
                   /\ \A j \in O1 : L[j].attempt # L[i].attempt}
  BY DEF Unresolved
<1>0. \A type :
        /\ e.run # r \/ e.type # type => OfType(L, r, type) = OfType(log, r, type)
        /\ e.run = r /\ e.type = type =>
             OfType(L, r, type) = OfType(log, r, type) \cup {n}
  <2> TAKE type
  <2>1. CASE e.run = r /\ e.type = type
    BY <2>1, OfTypeAppend
  <2>2. CASE e.run # r \/ e.type # type
    BY <2>2, OfTypeAppend
  <2> QED
    BY <2>1, <2>2
<1>4. /\ e.run # r \/ e.type # "attempt_started" => A1 = A
      /\ e.run = r /\ e.type = "attempt_started" => A1 = A \cup {n}
  BY <1>0
<1>5. /\ e.run # r \/ e.type # "tool_observation" => O1 = O
      /\ e.run = r /\ e.type = "tool_observation" => O1 = O \cup {n}
  BY <1>0
<1> HIDE DEF L, n, A, O, A1, O1
<1>6. ASSUME e.run # r \/ e.type \notin {"attempt_started", "tool_observation"}
      PROVE  Unresolved(L, r) = Unresolved(log, r)
  BY <1>1, <1>2, <1>3, <1>4, <1>5, <1>6
<1>7. ASSUME e.type = "attempt_started"
      PROVE  Unresolved(L, r) \subseteq Unresolved(log, r) \cup {n}
  <2>1. O1 = O /\ A1 \subseteq A \cup {n}
    BY <1>4, <1>5, <1>7
  <2> QED
    BY <1>1, <1>2, <1>3, <2>1
<1>8. ASSUME e.run = r, e.type = "tool_observation"
      PROVE  Unresolved(L, r) =
               {i \in Unresolved(log, r) : log[i].attempt # e.attempt}
  <2>1. O1 = O \cup {n} /\ A1 = A
    BY <1>4, <1>5, <1>8
  <2>2. \A i \in A : (\A j \in O1 : L[j].attempt # L[i].attempt)
                   <=> /\ \A j \in O : log[j].attempt # log[i].attempt
                       /\ log[i].attempt # e.attempt
    BY <1>1, <2>1
  <2> QED
    BY <1>1, <1>2, <1>3, <2>1, <2>2
<1> QED
  BY <1>6, <1>7, <1>8 DEF L, n

-----------------------------------------------------------------------------
(* What a ledger with one more event replays.                              *)

Said(log, r) == {i \in Own(log, r) : Speaks(log[i])}

LEMMA NthIs ==
  ASSUME NEW n \in Nat, NEW S \in SUBSET (1 .. n), NEW i \in S
  PROVE  Nth(S, Rank(S, i)) = i
BY RankChosen DEF Nth, Rank

LEMMA NthAppend ==
  ASSUME NEW n \in Nat, NEW S \in SUBSET (1 .. n)
  PROVE  /\ \A k \in 1 .. Cardinality(S) :
              Nth(S, k) \in S /\ Nth(S \cup {n + 1}, k) = Nth(S, k)
         /\ Cardinality(S) \in Nat
         /\ Cardinality(S \cup {n + 1}) = Cardinality(S) + 1
         /\ Nth(S \cup {n + 1}, Cardinality(S) + 1) = n + 1
<1> DEFINE T == S \cup {n + 1}
<1>1. /\ n + 1 \in Nat /\ T \in SUBSET (1 .. n + 1)
      /\ n + 1 \notin S /\ \A i \in S : i \in Nat /\ i < n + 1
  OBVIOUS
<1>2. IsFiniteSet(S) /\ Cardinality(S) \in Nat
  BY RankType, 0 \in Nat
<1>3. Cardinality(T) = Cardinality(S) + 1
  BY <1>1, <1>2, FS_AddElement
<1>4. \A i \in S : Rank(T, i) = Rank(S, i)
  <2> TAKE i \in S
  <2>1. \A j \in T : j <= i => j \in S
    BY <1>1
  <2>2. {j \in T : j <= i} = {j \in S : j <= i}
    BY <2>1
  <2> QED
    BY <2>2 DEF Rank
<1>5. Rank(T, n + 1) = Cardinality(T)
  <2>1. \A j \in T : j <= n + 1
    BY <1>1
  <2>2. {j \in T : j <= n + 1} = T
    BY <2>1
  <2> QED
    BY <2>2 DEF Rank
<1>6. Nth(T, Cardinality(S) + 1) = n + 1
  BY <1>1, <1>3, <1>5, NthIs
<1>7. ASSUME NEW k \in 1 .. Cardinality(S)
      PROVE  Nth(S, k) \in S /\ Nth(T, k) = Nth(S, k)
  <2>1. PICK i \in S : Rank(S, i) = k
    BY RankExists
  <2>2. Nth(S, k) = i
    BY <2>1, NthIs
  <2>3. Nth(T, k) = i
    BY <1>1, <1>4, <2>1, NthIs
  <2> QED
    BY <2>2, <2>3
<1> QED
  BY <1>2, <1>3, <1>6, <1>7

LEMMA MessageType ==
  ASSUME NEW e \in Event
  PROVE  MessageOf(e) \in Message
<1>1. NoAction \in Action
  BY DEF NoAction, Action
<1> QED
  BY <1>1 DEF MessageOf, Assistant, Observation, Feedback, Message, Event

\* A function on the first positions is a sequence.
LEMMA FirstPlacesSeq ==
  ASSUME NEW T, NEW w \in Nat, NEW h, h = [k \in 1 .. w |-> h[k]],
         \A k \in 1 .. w : h[k] \in T
  PROVE  h \in Seq(T) /\ Len(h) = w
<1>1. h \in [1 .. w -> T]
  OBVIOUS
<1> QED
  BY <1>1

\* The replay of a longer ledger adds the message of an event that speaks.
LEMMA ReplayAppend ==
  ASSUME NEW log \in Seq(Event), NEW e \in Event, NEW r
  PROVE  /\ Rehydrated(log, r) \in Seq(Message)
         /\ Rehydrated(Append(log, e), r) =
              IF e.run = r /\ Speaks(e)
                THEN Append(Rehydrated(log, r), MessageOf(e))
                ELSE Rehydrated(log, r)
<1> DEFINE S == Said(log, r)
           L == Append(log, e)
           n == Len(log)
           m == Cardinality(S)
           f == Rehydrated(log, r)
           g == Rehydrated(L, r)
<1>1. n \in Nat /\ S \in SUBSET (1 .. n) /\ S \subseteq DOMAIN log
  BY OwnPlaces DEF Said
<1>2. m \in Nat /\ \A k \in 1 .. m : Nth(S, k) \in S
  BY <1>1, NthAppend
<1>3. f = [k \in 1 .. m |-> MessageOf(log[Nth(S, k)])]
  BY DEF Rehydrated, Said
<1>4. g = [k \in 1 .. Cardinality(Said(L, r)) |->
             MessageOf(L[Nth(Said(L, r), k)])]
  BY DEF Rehydrated, Said
<1>5. \A i \in DOMAIN log : log[i] \in Event /\ L[i] = log[i]
  BY AppendPlaces, OwnPlaces
<1>6. L[n + 1] = e
  BY AppendPlaces
<1> HIDE DEF S, L, n, m, f, g
<1>7. \A k \in 1 .. m : f[k] \in Message
  BY <1>1, <1>2, <1>3, <1>5, MessageType
<1>8. f \in Seq(Message) /\ Len(f) = m
  <2>1. f = [k \in 1 .. m |-> f[k]]
    BY <1>3
  <2> QED
    BY <1>2, <1>7, <2>1, FirstPlacesSeq
<1>9. /\ e.run = r /\ Speaks(e) => Said(L, r) = S \cup {n + 1}
      /\ e.run # r \/ ~Speaks(e) => Said(L, r) = S
  <2>1. /\ e.run = r => Own(L, r) = Own(log, r) \cup {n + 1}
        /\ e.run # r => Own(L, r) = Own(log, r)
    BY OwnAppend DEF L, n
  <2>2. \A i \in Own(log, r) : L[i] = log[i]
    BY <1>5 DEF Own
  <2> QED
    BY <1>6, <2>1, <2>2 DEF Said, S
<1>10. CASE ~(e.run = r /\ Speaks(e))
  <2>1. Said(L, r) = S
    BY <1>9, <1>10
  <2>2. g = f
    BY <1>1, <1>2, <1>3, <1>4, <1>5, <2>1 DEF m
  <2> QED
    BY <1>8, <1>10, <2>2 DEF f, g, L
<1>11. CASE e.run = r /\ Speaks(e)
  <2>1. Said(L, r) = S \cup {n + 1}
    BY <1>9, <1>11
  <2>2. /\ Cardinality(Said(L, r)) = m + 1
        /\ Nth(Said(L, r), m + 1) = n + 1
        /\ \A k \in 1 .. m : Nth(Said(L, r), k) = Nth(S, k)
    <3>1. /\ \A k \in 1 .. Cardinality(S) : Nth(S \cup {n + 1}, k) = Nth(S, k)
          /\ Cardinality(S \cup {n + 1}) = Cardinality(S) + 1
          /\ Nth(S \cup {n + 1}, Cardinality(S) + 1) = n + 1
      BY <1>1, NthAppend
    <3> QED
      BY <2>1, <3>1 DEF m
  <2>3. g = [k \in 1 .. m + 1 |-> MessageOf(L[Nth(Said(L, r), k)])]
    BY <1>4, <2>2
  <2>4. MessageOf(e) \in Message
    BY MessageType
  <2>5. /\ Append(f, MessageOf(e)) \in Seq(Message)
        /\ Len(Append(f, MessageOf(e))) = m + 1
        /\ Append(f, MessageOf(e))[m + 1] = MessageOf(e)
        /\ \A k \in 1 .. m : Append(f, MessageOf(e))[k] = f[k]
    BY <1>8, <2>4, AppendProperties
  <2>6. g[m + 1] = MessageOf(e) /\ \A k \in 1 .. m : g[k] = f[k]
    <3>1. m + 1 \in 1 .. m + 1 /\ \A k \in 1 .. m : k \in 1 .. m + 1
      BY <1>2
    <3>2. g[m + 1] = MessageOf(e)
      BY <1>6, <2>2, <2>3, <3>1
    <3>3. ASSUME NEW k \in 1 .. m PROVE g[k] = f[k]
      <4>1. g[k] = MessageOf(L[Nth(S, k)])
        BY <2>2, <2>3, <3>1
      <4>2. f[k] = MessageOf(log[Nth(S, k)])
        BY <1>3
      <4>3. Nth(S, k) \in DOMAIN log
        BY <1>1, <1>2
      <4> QED
        BY <1>5, <4>1, <4>2, <4>3
    <3> QED
      BY <3>2, <3>3
  <2>7. g \in Seq(Message) /\ Len(g) = m + 1
    <3>1. m + 1 \in Nat /\ g = [k \in 1 .. m + 1 |-> g[k]]
      BY <1>2, <2>3
    <3>2. ASSUME NEW k \in 1 .. m + 1 PROVE g[k] \in Message
      <4>1. CASE k = m + 1
        BY <2>4, <2>6, <4>1
      <4>2. CASE k # m + 1
        <5>1. k \in 1 .. m
          BY <1>2, <4>2
        <5> QED
          BY <1>7, <2>6, <5>1
      <4> QED
        BY <4>1, <4>2
    <3> QED
      BY <3>1, <3>2, FirstPlacesSeq
  <2>8. g = Append(f, MessageOf(e))
    BY <1>2, <2>5, <2>6, <2>7, SeqEqual
  <2> QED
    BY <1>8, <1>11, <2>8 DEF f, g, L
<1> QED
  BY <1>10, <1>11

-----------------------------------------------------------------------------
(* The ledger against the process and the world.                           *)

\* Every line written reads back as one line, and an interrupted write leaves
\* no complete line without its newline.
CleanLines == LineBreaking = {} /\ "unterminated" \notin WriteFaults

-----------------------------------------------------------------------------
(* The inductive invariant.                                                *)

MemOfEvents == \A i \in DOMAIN mem : mem[i].type \in EventTypes

TornIsLast == ~terminated => disk # <<>> /\ disk[Len(disk)] = Garbled

LedgerInv == KernelTypeOK /\ MemOfEvents /\ TornIsLast /\ PublishedIsReadable

\* The attempt that the next handler runs under is being appended; it is in
\* the file and the world has not seen it.
AttemptBuffered ==
  pc = "append" /\ cont = "execute" =>
    buf.type = "attempt_started" /\ buf.run = run /\ buf.attempt = calls

Recorded(log, r, n) ==
  \E j \in DOMAIN log : /\ log[j].type = "attempt_started"
                        /\ log[j].run = r
                        /\ log[j].attempt = n

AttemptFresh ==
  pc = "execute" =>
    /\ Recorded(disk, run, calls)
    /\ \A i \in DOMAIN effects : effects[i] # <<run, calls>>

Intended == \A i \in DOMAIN effects : Recorded(disk, effects[i][1], effects[i][2])

WorldInv ==
  /\ AttemptBuffered
  /\ disturbances = 0 => AttemptFresh /\ Intended /\ AtMostOnce

SafetyInv == LedgerInv /\ WorldInv

-----------------------------------------------------------------------------
(* What a step does to the ledger, and to the control around a handler.    *)

LedgerStep ==
  \/ UNCHANGED <<ledgerVars, disturbances>>
  \/ /\ \/ /\ pc = "append"
           /\ AppendDone(buf) \/ AppendFault(buf) \/ CrashAppending(buf)
        \/ Open \/ CrashIdle
     /\ UNCHANGED disturbances
  \/ Disturb

LEMMA LedgerSteps ==
  ASSUME Next \/ UNCHANGED vars
  PROVE  LedgerStep
<1>1. CASE UNCHANGED vars
  BY <1>1 DEF vars, boundVars, LedgerStep
<1>2. CASE Program
  BY <1>2 DEF Program, LedgerStep, boundVars, AppendReturns, AppendRefused,
     LoopHead, ModelReturns, ModelRaises, Delegate, ModelReportsError, Reserve,
     Attempt, HandlerApplies, HandlerReturns, HandlerRaises, Observe, Observed,
     Verify, VerifierRaises, Complete
<1>3. CASE Reopen \/ Interrupt \/ Tick
  BY <1>3 DEF LedgerStep, boundVars, Reopen, Interrupt, Tick
<1>4. CASE Call
  BY <1>4 DEF LedgerStep, boundVars, Call, RunAnswered, RunStarted, RunResumed,
     EnterRun
<1>5. CASE AppendRaises \/ Crash \/ FileChanges
  BY <1>5 DEF LedgerStep, AppendRaises, Crash, FileChanges
<1> QED
  BY <1>1, <1>2, <1>3, <1>4, <1>5 DEF Next, Environment

ToExecute ==
  pc = "append" /\ cont = "execute" /\ AppendDone(buf)

LEMMA ControlSteps ==
  ASSUME KernelTypeOK, Next \/ UNCHANGED vars
  PROVE  /\ pc' = "append" /\ cont' = "execute" =>
              UNCHANGED <<pc, cont, buf, run, calls>> \/ Attempt
         /\ pc' = "execute" =>
              /\ ToExecute \/ (pc = "execute" /\ UNCHANGED <<mem, head>>)
              /\ UNCHANGED <<run, calls, effects>>
         /\ UNCHANGED effects
            \/ HandlerApplies
<1>1. CASE UNCHANGED vars
  BY <1>1 DEF vars, ledgerVars, controlVars, worldVars
<1>2. CASE AppendReturns
  BY <1>2 DEF AppendReturns, Leave, ToExecute, worldVars
<1>3. CASE AppendRefused
  BY <1>3 DEF AppendRefused, Unwind, Leave, Throw, Emit, worldVars
<1>4. CASE \E a \in ModelActions : ModelReturns(a)
  BY <1>4, ActionFacts DEF ModelReturns, Emit, worldVars
<1>5. CASE Attempt
  BY <1>5 DEF Attempt, Emit, worldVars
<1>6. CASE HandlerApplies
  BY <1>6 DEF HandlerApplies, Goto
<1>7. CASE \/ LoopHead \/ Delegate \/ ModelReportsError \/ Observed
           \/ HandlerReturns \/ Complete
           \/ \E wellFormed \in BOOLEAN : Reserve(wellFormed)
  BY <1>7 DEF LoopHead, Delegate, ModelReportsError, Observed, HandlerReturns,
     Complete, Reserve, Throw, Emit, Goto, worldVars
<1>8. CASE \/ \E type \in AnyException : ModelRaises(type)
           \/ \E type \in AnyException : HandlerRaises(type)
           \/ \E type \in AnyException : VerifierRaises(type)
           \/ \E c \in Contents : Observe(c)
           \/ \E passed \in BOOLEAN, c \in Contents : Verify(passed, c)
  BY <1>8 DEF ModelRaises, HandlerRaises, VerifierRaises, Observe, Verify,
     Throw, Emit, worldVars
<1>9. CASE Environment
  <2>1. CASE Reopen \/ FileChanges \/ Tick
    BY <2>1 DEF Reopen, FileChanges, Disturb, Tick, ledgerVars, controlVars,
                worldVars
  <2>2. CASE Call
    BY <2>2 DEF Call, RunAnswered, RunStarted, RunResumed, EnterRun, Emit,
       worldVars
  <2>3. CASE AppendRaises \/ Interrupt \/ Crash
    BY <2>3 DEF AppendRaises, Interrupt, Crash, Unwind, Leave, Throw, Emit,
       worldVars
  <2> QED
    BY <1>9, <2>1, <2>2, <2>3 DEF Environment
<1> QED
  BY <1>1, <1>2, <1>3, <1>4, <1>5, <1>6, <1>7, <1>8, <1>9 DEF Next, Program

-----------------------------------------------------------------------------
(* The ledger: a line joins the file after the last one.                   *)

LEMMA GarbledType == Garbled.type = "garbled" /\ "garbled" \notin EventTypes
BY DEF Garbled, Blank, EventTypes

\* While file and memory agree, the file does not end in a torn line.
LEMMA AcceptedExtends ==
  ASSUME LedgerInv, NEW e, Accepted(e), NEW l
  PROVE  Extended(l) = Append(disk, l)
<1>1. disk = mem /\ mem \in Seq(Event)
  BY DEF Accepted, Synced, LedgerInv, KernelTypeOK, LedgerTypeOK
<1>2. CASE ~terminated
  <2>1. disk # <<>> /\ disk[Len(disk)] = Garbled
    BY <1>2 DEF LedgerInv, TornIsLast
  <2>2. Len(mem) \in DOMAIN mem
    BY <1>1, <2>1, EmptySeq, LenProperties
  <2> QED
    BY <1>1, <2>1, <2>2, GarbledType DEF LedgerInv, MemOfEvents
<1> QED
  BY <1>2 DEF Extended

\* What Torn leaves is the file, or the file with a line more.
LEMMA TornGrows ==
  ASSUME CleanLines, LedgerInv, NEW e, Accepted(e), Torn(e)
  PROVE  \/ UNCHANGED <<disk, terminated>>
         \/ disk' = Append(disk, Garbled) /\ terminated' = FALSE
         \/ disk' = Append(disk, e) /\ terminated' = TRUE
<1>1. LineOf(e) = e
  BY DEF LineOf, CleanLines
<1> QED
  BY <1>1, AcceptedExtends DEF Torn, CleanLines

LEMMA DoneGrows ==
  ASSUME CleanLines, LedgerInv, NEW e, AppendDone(e)
  PROVE  disk' = Append(disk, e) /\ mem' = Append(mem, e) /\ disk' = mem'
<1>1. LineOf(e) = e /\ disk = mem
  BY DEF LineOf, CleanLines, AppendDone, Accepted, Synced
<1> QED
  BY <1>1, AcceptedExtends DEF AppendDone

\* No line of the file is lost or changed by the program.
LEMMA FileGrows ==
  ASSUME CleanLines, LedgerInv, LedgerStep, disturbances' = 0
  PROVE  /\ disturbances = 0
         /\ \A j \in DOMAIN disk : j \in DOMAIN disk' /\ disk'[j] = disk[j]
<1>1. disk \in Seq(Event) /\ disturbances \in Nat /\ buf \in Event
  BY DEF LedgerInv, KernelTypeOK, LedgerTypeOK, ControlTypeOK
<1>2. ~Disturb /\ disturbances = 0
  BY <1>1 DEF LedgerStep, Disturb
<1>3. CASE disk' = disk
  BY <1>2, <1>3
<1>4. ASSUME NEW l \in Event, disk' = Append(disk, l)
      PROVE  \A j \in DOMAIN disk : j \in DOMAIN disk' /\ disk'[j] = disk[j]
  BY <1>1, <1>4, AppendProperties, LenProperties
<1>5. CASE AppendDone(buf)
  BY <1>1, <1>2, <1>4, <1>5, DoneGrows
<1>6. CASE Accepted(buf) /\ Torn(buf)
  <2>1. disk' = disk \/ disk' = Append(disk, Garbled) \/ disk' = Append(disk, buf)
    BY <1>6, TornGrows
  <2>2. Garbled \in Event
    BY BlankType DEF Garbled
  <2> QED
    BY <1>1, <1>2, <1>3, <1>4, <2>1, <2>2
<1> QED
  BY <1>2, <1>3, <1>5, <1>6
     DEF LedgerStep, ledgerVars, Open, AppendFault, CrashIdle, CrashAppending
-----------------------------------------------------------------------------
(* The ledger invariant is inductive.                                      *)

LEMMA ReadableTypes ==
  ASSUME NEW log, ValidLedger(log), NEW i \in DOMAIN log
  PROVE  log[i].type \in EventTypes
BY DEF ValidLedger, EventOK

LEMMA MemOfEventsStep ==
  ASSUME LedgerInv, LedgerStep
  PROVE  MemOfEvents'
<1>1. mem \in Seq(Event) /\ buf \in Event
  BY DEF LedgerInv, KernelTypeOK, LedgerTypeOK, ControlTypeOK
<1>2. CASE mem' = mem
  BY <1>2 DEF LedgerInv, MemOfEvents
<1>3. CASE Open
  BY <1>3, ReadableTypes DEF Open, Readable, MemOfEvents
<1>4. CASE AppendDone(buf)
  <2>1. buf.type \in EventTypes /\ mem' = Append(mem, buf)
    BY <1>4 DEF AppendDone, Accepted, EventOK
  <2>2. \A i \in DOMAIN mem' : mem'[i] = buf \/ (i \in DOMAIN mem /\ mem'[i] = mem[i])
    BY <1>1, <2>1, AppendProperties, LenProperties
  <2> QED
    BY <2>1, <2>2 DEF LedgerInv, MemOfEvents
<1>5. CASE mem' = <<>>
  BY <1>5 DEF MemOfEvents
<1> QED
  BY <1>2, <1>3, <1>4, <1>5
     DEF LedgerStep, ledgerVars, AppendFault, CrashIdle, CrashAppending, Disturb

LEMMA TornIsLastStep ==
  ASSUME CleanLines, LedgerInv, LedgerStep
  PROVE  TornIsLast'
<1>1. disk \in Seq(Event) /\ Garbled \in Event
  BY BlankType DEF LedgerInv, KernelTypeOK, LedgerTypeOK, Garbled
<1>2. CASE UNCHANGED <<disk, terminated>>
  BY <1>2 DEF LedgerInv, TornIsLast
<1>3. CASE terminated' = TRUE
  BY <1>3 DEF TornIsLast
<1>4. CASE disk' = Append(disk, Garbled)
  BY <1>1, <1>4, AppendProperties, EmptySeq DEF TornIsLast
<1>5. CASE Accepted(buf) /\ Torn(buf)
  BY <1>2, <1>3, <1>4, <1>5, TornGrows
<1>6. CASE \E i \in DOMAIN disk :
             /\ disk' = [disk EXCEPT ![i] = Garbled]
             /\ terminated' = terminated
  <2>1. PICK i \in DOMAIN disk : /\ disk' = [disk EXCEPT ![i] = Garbled]
                                 /\ terminated' = terminated
    BY <1>6
  <2>2. /\ Len(disk') = Len(disk) /\ Len(disk) > 0 /\ disk' # <<>>
        /\ \A j \in DOMAIN disk : disk'[j] \in {disk[j], Garbled}
        /\ Len(disk) \in DOMAIN disk
    BY <1>1, <2>1, ExceptSeq, LenProperties
  <2> QED
    BY <2>1, <2>2 DEF LedgerInv, TornIsLast
<1> QED
  BY <1>2, <1>3, <1>5, <1>6
     DEF LedgerStep, ledgerVars, Open, AppendDone, AppendFault, CrashIdle,
         CrashAppending, Disturb

LEMMA PublishedStep ==
  ASSUME CleanLines, LedgerInv, LedgerStep, LedgerTypeOK'
  PROVE  PublishedIsReadable'
<1> SUFFICES ASSUME up', disturbances' = 0
             PROVE  /\ Len(mem') <= Len(disk')
                    /\ SubSeq(disk', 1, Len(mem')) = mem'
  BY DEF PublishedIsReadable
<1>1. /\ disk \in Seq(Event) /\ mem \in Seq(Event)
      /\ disk' \in Seq(Event) /\ mem' \in Seq(Event)
  BY DEF LedgerInv, KernelTypeOK, LedgerTypeOK
<1>2. disturbances = 0 /\ \A j \in DOMAIN disk : j \in DOMAIN disk' /\ disk'[j] = disk[j]
  BY FileGrows
<1>3. CASE disk' = mem'
  BY <1>1, <1>3, SubSeqFull, LenProperties
<1>4. CASE mem' = mem /\ up
  <2>1. Len(mem) <= Len(disk) /\ SubSeq(disk, 1, Len(mem)) = mem
    BY <1>2, <1>4 DEF LedgerInv, PublishedIsReadable
  <2>2. Len(disk) <= Len(disk')
    BY <1>1, <1>2, LenProperties
  <2>3. \A j \in 1 .. Len(mem) : disk'[j] = mem[j]
    BY <1>1, <1>2, <2>1, SubSeqProperties, LenProperties
  <2>4. SubSeq(disk', 1, Len(mem)) = mem
    BY <1>1, <2>1, <2>2, <2>3, SubSeqProperties, SeqEqual, LenProperties
  <2> QED
    BY <1>1, <1>4, <2>1, <2>2, <2>4, LenProperties
<1>5. ~Disturb
  BY <1>2 DEF Disturb, LedgerInv, KernelTypeOK, LedgerTypeOK
<1> QED
  BY <1>3, <1>4, <1>5, DoneGrows
     DEF LedgerStep, ledgerVars, Open, AppendFault, CrashIdle, CrashAppending

LEMMA LedgerInvStep ==
  ASSUME CleanLines, LedgerInv, Next \/ UNCHANGED vars
  PROVE  LedgerInv'
BY TypeStep, LedgerSteps, MemOfEventsStep, TornIsLastStep, PublishedStep
   DEF LedgerInv, KernelTypeOK

-----------------------------------------------------------------------------
(* The world invariant is inductive.                                       *)

LEMMA AttemptBufferedStep ==
  ASSUME KernelTypeOK, AttemptBuffered, Next \/ UNCHANGED vars
  PROVE  AttemptBuffered'
<1> SUFFICES ASSUME pc' = "append", cont' = "execute"
             PROVE  /\ buf'.type = "attempt_started" /\ buf'.run = run'
                    /\ buf'.attempt = calls'
  BY DEF AttemptBuffered
<1>1. CASE UNCHANGED <<pc, cont, buf, run, calls>>
  BY <1>1 DEF AttemptBuffered
<1>2. CASE Attempt
  BY <1>2 DEF Attempt, Emit, Blank, Rest
<1> QED
  BY <1>1, <1>2, ControlSteps

\* What is recorded stays recorded.
LEMMA RecordedStays ==
  ASSUME CleanLines, LedgerInv, LedgerStep, disturbances' = 0,
         NEW r, NEW n, Recorded(disk, r, n)
  PROVE  Recorded(disk', r, n)
BY FileGrows DEF Recorded

LEMMA AttemptFreshStep ==
  ASSUME CleanLines, SafetyInv, Next \/ UNCHANGED vars, disturbances' = 0
  PROVE  AttemptFresh'
<1> SUFFICES ASSUME pc' = "execute"
             PROVE  /\ Recorded(disk', run', calls')
                    /\ \A i \in DOMAIN effects' : effects'[i] # <<run', calls'>>
  BY DEF AttemptFresh
<1>1. LedgerInv /\ LedgerStep /\ disturbances = 0
  BY LedgerSteps, FileGrows DEF SafetyInv
<1>2. UNCHANGED <<run, calls, effects>> /\ (ToExecute \/ pc = "execute")
  BY ControlSteps DEF SafetyInv, LedgerInv
<1>3. CASE pc = "execute"
  BY <1>1, <1>2, <1>3, RecordedStays DEF SafetyInv, WorldInv, AttemptFresh
<1>4. CASE ToExecute
  <2>1. /\ buf.type = "attempt_started" /\ buf.run = run
        /\ buf.attempt = calls
    BY <1>4 DEF ToExecute, SafetyInv, WorldInv, AttemptBuffered
  <2>2. disk' = Append(disk, buf) /\ disk \in Seq(Event) /\ buf \in Event
    BY <1>1, <1>4, DoneGrows
       DEF ToExecute, LedgerInv, KernelTypeOK, LedgerTypeOK, ControlTypeOK
  <2>3. Len(disk) + 1 \in DOMAIN disk' /\ disk'[Len(disk) + 1] = buf
    BY <2>2, AppendProperties, LenProperties
  <2>4. ~Recorded(disk, run, calls)
    BY <1>4, <2>1 DEF ToExecute, AppendDone, Accepted, Synced, EventOK, OfType,
                      Own, Recorded
  <2>5. \A i \in DOMAIN effects : effects[i] # <<run, calls>>
    BY <1>1, <2>4 DEF SafetyInv, WorldInv, Intended
  <2> QED
    BY <1>2, <2>1, <2>3, <2>5 DEF Recorded
<1> QED
  BY <1>2, <1>3, <1>4

LEMMA EffectsStep ==
  ASSUME CleanLines, SafetyInv, Next \/ UNCHANGED vars, disturbances' = 0
  PROVE  Intended' /\ AtMostOnce'
<1>1. LedgerInv /\ LedgerStep /\ disturbances = 0 /\ Intended /\ AtMostOnce
  BY LedgerSteps, FileGrows DEF SafetyInv, WorldInv
<1>2. CASE UNCHANGED effects
  BY <1>1, <1>2, RecordedStays DEF Intended, AtMostOnce
<1>3. CASE HandlerApplies
  <2>1. /\ effects' = Append(effects, <<run, calls>>)
        /\ effects \in Seq(Runs \X Nat) /\ <<run, calls>> \in Runs \X Nat
    BY <1>1, <1>3 DEF HandlerApplies, LedgerInv, KernelTypeOK, ControlTypeOK, Flow
  <2>2. Recorded(disk, run, calls)
        /\ \A i \in DOMAIN effects : effects[i] # <<run, calls>>
    BY <1>1, <1>3 DEF HandlerApplies, SafetyInv, WorldInv, AttemptFresh
  <2>3. \A i \in DOMAIN effects' :
          \/ i \in DOMAIN effects /\ effects'[i] = effects[i]
          \/ i = Len(effects) + 1 /\ effects'[i] = <<run, calls>>
    BY <2>1, AppendProperties, LenProperties
  <2>4. AtMostOnce'
    BY <1>1, <2>2, <2>3 DEF AtMostOnce
  <2>5. UNCHANGED disk
    BY <1>3 DEF HandlerApplies, ledgerVars
  <2>6. Intended'
    BY <1>1, <2>2, <2>3, <2>5 DEF Intended
  <2> QED
    BY <2>4, <2>6
<1> QED
  BY <1>2, <1>3, ControlSteps DEF SafetyInv, LedgerInv

-----------------------------------------------------------------------------

LEMMA SafetyInit == Init => SafetyInv
<1> SUFFICES ASSUME Init PROVE SafetyInv
  OBVIOUS
<1>1. LedgerInv
  BY TypeInit, SubSeqEmpty, EmptySeq
     DEF Init, LedgerInit, LedgerInv, MemOfEvents, TornIsLast,
         PublishedIsReadable
<1>2. WorldInv
  BY DEF Init, WorldInv, AttemptBuffered, AttemptFresh, Intended, AtMostOnce
<1> QED
  BY <1>1, <1>2 DEF SafetyInv

LEMMA SafetyStep ==
  ASSUME CleanLines, SafetyInv, Next \/ UNCHANGED vars
  PROVE  SafetyInv'
<1>1. LedgerInv'
  BY LedgerInvStep DEF SafetyInv
<1>2. WorldInv'
  BY AttemptBufferedStep, AttemptFreshStep, EffectsStep
     DEF SafetyInv, LedgerInv, WorldInv
<1> QED
  BY <1>1, <1>2 DEF SafetyInv

LEMMA Safety == ASSUME CleanLines PROVE Spec => []SafetyInv
<1>1. Init => SafetyInv
  BY SafetyInit
<1>2. SafetyInv /\ [Next]_vars => SafetyInv'
  BY SafetyStep
<1> QED
  BY <1>1, <1>2, PTL DEF Spec

\* PublishedIsReadable: whatever an append has published to memory stays in
\* the file as it was published, over every fault and crash of a build whose
\* lines are clean.
THEOREM Durable == ASSUME CleanLines PROVE Spec => []PublishedIsReadable
<1>1. SafetyInv => PublishedIsReadable
  BY DEF SafetyInv, LedgerInv
<1> QED
  BY <1>1, Safety, PTL

\* IntentBeforeEffect: a mutating handler takes effect only after its
\* attempt_started is in the file.
THEOREM Intent == ASSUME CleanLines PROVE Spec => []IntentBeforeEffect
<1>1. SafetyInv => IntentBeforeEffect
  BY DEF SafetyInv, WorldInv, Intended, Recorded, IntentBeforeEffect, OfType,
         Own
<1> QED
  BY <1>1, Safety, PTL
\* AtMostOnce, when nobody else writes the file.
THEOREM OnceUndisturbed ==
  ASSUME CleanLines, MaxDisturbances = 0
  PROVE  Spec => []AtMostOnce
<1>1. SafetyInv /\ disturbances = 0 => AtMostOnce
  BY DEF SafetyInv, WorldInv
<1>2. Init => disturbances = 0
  BY DEF Init, LedgerInit
<1>3. disturbances = 0 /\ [Next]_vars => (disturbances = 0)'
  <2>1. Next \/ UNCHANGED vars => LedgerStep
    BY LedgerSteps
  <2> QED
    BY <2>1 DEF LedgerStep, Disturb
<1> QED
  BY <1>1, <1>2, <1>3, Safety, PTL DEF Spec

-----------------------------------------------------------------------------
(* With the head pinned.  The application keeps the head that the last     *)
(* append returned, so a process only ever starts from a ledger with every *)
(* attempt that took effect, whatever happened to the file in between.     *)

EffectsIn(log) == \A i \in DOMAIN effects :
                    Recorded(log, effects[i][1], effects[i][2])

PinnedInv ==
  /\ KernelTypeOK
  /\ AttemptBuffered
  /\ EffectsIn(head)
  /\ up => EffectsIn(mem)
  /\ pc = "execute" =>
       /\ Recorded(head, run, calls) /\ Recorded(mem, run, calls)
       /\ \A i \in DOMAIN effects : effects[i] # <<run, calls>>
  /\ AtMostOnce

LEMMA RecordedAppend ==
  ASSUME NEW log \in Seq(Event), NEW e \in Event, NEW r, NEW n,
         Recorded(log, r, n)
  PROVE  Recorded(Append(log, e), r, n)
BY AppendProperties, LenProperties DEF Recorded

\* What the process and the application know is only replaced by more.
LEMMA KnownGrows ==
  ASSUME PinHead, PinnedInv, LedgerStep
  PROVE  /\ EffectsIn(head')
         /\ up' => EffectsIn(mem')
<1>1. mem \in Seq(Event) /\ head \in Seq(Event) /\ buf \in Event
  BY DEF PinnedInv, KernelTypeOK, LedgerTypeOK, ControlTypeOK
<1>2. CASE UNCHANGED <<up, mem, head>>
  BY <1>2 DEF PinnedInv, EffectsIn
<1>3. CASE Open
  <2>1. head # <<>> => disk = head
    BY <1>3 DEF Open, HeadMatches
  <2>2. head = <<>> => DOMAIN effects = {}
    <3>1. \A r, n : ~Recorded(<<>>, r, n)
      BY DEF Recorded
    <3> QED
      BY <3>1 DEF PinnedInv, EffectsIn
  <2>3. EffectsIn(disk)
    BY <2>1, <2>2 DEF PinnedInv, EffectsIn
  <2>4. mem' = disk /\ head' = head
    BY <1>3 DEF Open
  <2> QED
    BY <2>3, <2>4 DEF PinnedInv, EffectsIn
<1>4. CASE pc = "append" /\ AppendDone(buf)
  <2>1. mem' = Append(mem, buf) /\ head' = Append(mem, buf) /\ up
    BY <1>4 DEF AppendDone, PinnedInv, KernelTypeOK, Flow
  <2> QED
    BY <1>1, <2>1, RecordedAppend DEF PinnedInv, EffectsIn
<1>5. CASE up' = FALSE /\ head' = head
  BY <1>5 DEF PinnedInv
<1> QED
  BY <1>2, <1>3, <1>4, <1>5
     DEF LedgerStep, ledgerVars, AppendFault, CrashIdle, CrashAppending, Disturb
LEMMA PinnedFresh ==
  ASSUME PinHead, PinnedInv, Next \/ UNCHANGED vars, pc' = "execute"
  PROVE  /\ Recorded(head', run', calls') /\ Recorded(mem', run', calls')
         /\ \A i \in DOMAIN effects' : effects'[i] # <<run', calls'>>
<1>1. /\ UNCHANGED <<run, calls, effects>>
      /\ ToExecute \/ (pc = "execute" /\ UNCHANGED <<mem, head>>)
  BY ControlSteps DEF PinnedInv
<1>2. CASE pc = "execute" /\ UNCHANGED <<mem, head>>
  BY <1>1, <1>2 DEF PinnedInv
<1>3. CASE ToExecute
  <2>1. /\ buf.type = "attempt_started" /\ buf.run = run
        /\ buf.attempt = calls
    BY <1>3 DEF ToExecute, PinnedInv, AttemptBuffered
  <2>2. /\ mem' = Append(mem, buf) /\ head' = Append(mem, buf)
        /\ mem \in Seq(Event) /\ buf \in Event /\ up
    BY <1>3 DEF ToExecute, AppendDone, PinnedInv, KernelTypeOK, LedgerTypeOK,
                ControlTypeOK, Flow
  <2>3. Len(mem) + 1 \in DOMAIN mem' /\ mem'[Len(mem) + 1] = buf
    BY <2>2, AppendProperties, LenProperties
  <2>4. ~Recorded(mem, run, calls)
    BY <1>3, <2>1 DEF ToExecute, AppendDone, Accepted, EventOK, OfType, Own,
                      Recorded
  <2>5. \A i \in DOMAIN effects : effects[i] # <<run, calls>>
    BY <2>2, <2>4 DEF PinnedInv, EffectsIn
  <2> QED
    BY <1>1, <2>1, <2>2, <2>3, <2>5 DEF Recorded
<1> QED
  BY <1>1, <1>2, <1>3

LEMMA PinnedEffects ==
  ASSUME PinHead, PinnedInv, Next \/ UNCHANGED vars
  PROVE  EffectsIn(head)' /\ (up' => EffectsIn(mem)') /\ AtMostOnce'
<1>1. EffectsIn(head') /\ (up' => EffectsIn(mem'))
  BY LedgerSteps, KnownGrows
<1>2. CASE UNCHANGED effects
  BY <1>1, <1>2 DEF PinnedInv, EffectsIn, AtMostOnce
<1>3. CASE HandlerApplies
  <2>1. /\ effects' = Append(effects, <<run, calls>>)
        /\ effects \in Seq(Runs \X Nat) /\ <<run, calls>> \in Runs \X Nat
        /\ UNCHANGED <<mem, head>>
    BY <1>3 DEF HandlerApplies, PinnedInv, KernelTypeOK, ControlTypeOK, Flow,
                ledgerVars
  <2>2. /\ Recorded(head, run, calls) /\ Recorded(mem, run, calls)
        /\ \A i \in DOMAIN effects : effects[i] # <<run, calls>>
    BY <1>3 DEF HandlerApplies, PinnedInv
  <2>3. \A i \in DOMAIN effects' :
          \/ i \in DOMAIN effects /\ effects'[i] = effects[i]
          \/ i = Len(effects) + 1 /\ effects'[i] = <<run, calls>>
    BY <2>1, AppendProperties, LenProperties
  <2>4. AtMostOnce'
    BY <2>2, <2>3 DEF PinnedInv, AtMostOnce
  <2>5. EffectsIn(head)' /\ (up' => EffectsIn(mem)')
    BY <1>1, <2>1, <2>2, <2>3 DEF EffectsIn
  <2> QED
    BY <2>4, <2>5
<1> QED
  BY <1>2, <1>3, ControlSteps DEF PinnedInv

\* AtMostOnce, for an application that pins the head: no attempt takes effect
\* twice, whatever writes, crashes and other writers do to the file.
THEOREM OncePinned == ASSUME PinHead PROVE Spec => []AtMostOnce
<1>1. Init => PinnedInv
  BY TypeInit
     DEF Init, LedgerInit, PinnedInv, AttemptBuffered, EffectsIn, AtMostOnce
<1>2. PinnedInv /\ [Next]_vars => PinnedInv'
  <2> SUFFICES ASSUME PinnedInv, Next \/ UNCHANGED vars PROVE PinnedInv'
    OBVIOUS
  <2>1. KernelTypeOK'
    BY TypeStep DEF PinnedInv
  <2>2. AttemptBuffered'
    BY AttemptBufferedStep DEF PinnedInv
  <2> QED
    BY <2>1, <2>2, PinnedFresh, PinnedEffects DEF PinnedInv
<1>3. PinnedInv => AtMostOnce
  BY DEF PinnedInv
<1> QED
  BY <1>1, <1>2, <1>3, PTL DEF Spec

=============================================================================
