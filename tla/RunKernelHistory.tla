-------------------------- MODULE RunKernelHistory --------------------------
(***************************************************************************)
(* The history a ledger records, proved of RunKernel: over any number of   *)
(* crashes, failed writes, outside changes of the file, interrupted        *)
(* callbacks and resumes, the budgets and the permissions of a run are     *)
(* those of its first envelope, its deadline stays, the conversation of    *)
(* the loop is the one a replay gives, the store accepts every event the   *)
(* kernel offers it, and nothing follows a completion.                     *)
(*                                                                         *)
(* The argument.  None of these is inductive by itself: what may be        *)
(* appended next is decided at one control point from locals that were set *)
(* at another.  HistoryInv says what the locals and the ledger have to do  *)
(* with each other at every control point (Going), and that during an      *)
(* append they will have it to do with the ledger and the event buffered:  *)
(* AppendReturns then has nothing to prove, and every other action shows   *)
(* one append of the event it offers.  That the calls of an action are     *)
(* reserved, recorded and observed in order is Outstanding.  The file need *)
(* not be the ledger in memory; SoundFile says of it what a process that   *)
(* reopens it relies on.                                                   *)
(***************************************************************************)
EXTENDS RunKernelProofs

-----------------------------------------------------------------------------
(* What the kernel makes true of every ledger it writes.                   *)

\* No line is garbled or torn.
Clean(log) == \A i \in DOMAIN log : log[i].type \in EventTypes

WithinLimits(log) ==
  \A r \in Runs : Exists(log, r) =>
    /\ StepsUsed(log, r) <= FirstOf(log, r).env.steps
    /\ CallsUsed(log, r) <= FirstOf(log, r).env.calls

AttemptsPermitted(log) ==
  \A i \in DOMAIN log :
    log[i].type = "attempt_started" =>
      Permitted(FirstOf(log, log[i].run).env, log[i].tool)

\* The attempts of a run are numbered from 1, each number once, and only their
\* outcomes are observed.
AttemptsNumbered(log) ==
  /\ \A i \in DOMAIN log :
       log[i].type \in {"attempt_started", "tool_observation"} =>
         log[i].attempt <= CallsUsed(log, log[i].run)
  /\ \A i, j \in DOMAIN log :
       /\ log[i].type = "attempt_started" /\ log[j].type = "attempt_started"
       /\ log[i].run = log[j].run /\ log[i].attempt = log[j].attempt
       => i = j

Sound(log) ==
  /\ \A i \in DOMAIN log : log[i].run \in Runs
  /\ WithinLimits(log)
  /\ AttemptsPermitted(log)
  /\ AttemptsNumbered(log)

\* A file may hold a torn or changed line; it is sound up to the first one, a
\* line names a run exactly when it is an event, and no event of a run follows
\* its completion.
SoundFile(file) ==
  /\ \A n \in 0 .. Len(file) :
       Clean(SubSeq(file, 1, n)) => Sound(SubSeq(file, 1, n))
  /\ \A i \in DOMAIN file :
       \/ file[i].type \in EventTypes /\ file[i].run \in Runs
       \/ file[i] = Garbled
  /\ \A i, j \in DOMAIN file :
       file[i].type = "run_completed" /\ i < j => file[j].run # file[i].run

-----------------------------------------------------------------------------
(* What run() knows at the point p, with the locals f, of the ledger log.  *)

Here == [run |-> run, env |-> env, deadline |-> deadline, steps |-> steps,
         calls |-> calls, act |-> act, todo |-> todo, conv |-> conv]

Frame ==
  [run : Runs, env : Envelope, deadline : Nat, steps : Nat, calls : Nat,
   act : Action, todo : Nat, conv : Seq(Message)]

\* The frame agrees with the events of the run.
Framed(log, f) ==
  /\ Exists(log, f.run) /\ ~Completed(log, f.run)
  /\ f.env = FirstOf(log, f.run).env
  /\ f.deadline = FirstOf(log, f.run).deadline
  /\ f.steps = StepsUsed(log, f.run)
  /\ f.calls = CallsUsed(log, f.run)

\* The calls of the action after the number lo are recorded under the numbers
\* after first, and are the only attempts of the run without an outcome.
Outstanding(log, first, lo, f) ==
  /\ \A n \in lo + 1 .. f.calls :
       \E i \in OfType(log, f.run, "attempt_started") :
         log[i].attempt = n /\ log[i].tool = f.act.calls[n - first]
  /\ \A i \in OfType(log, f.run, "tool_observation") : log[i].attempt <= lo
  /\ \A i \in Unresolved(log, f.run) : log[i].attempt > lo

Settled == {"head", "model", "delegate", "error", "reserve", "verify",
            "verified"}

Before(f) == f.calls - Len(f.act.calls)

Batch(log, p, f) ==
  /\ p \in {"reserve", "attempt", "execute", "executed", "observe"} =>
       f.act \in ModelActions /\ f.act.type \in {"tool_call", "tool_batch"}
  /\ p \in Settled => Unresolved(log, f.run) = {}
  /\ p \in {"attempt", "execute"} /\ f.act.type = "tool_batch" =>
       \A k \in DOMAIN f.act.calls : Effect[f.act.calls[k]] = "read"
  /\ p = "attempt" =>
       /\ \A k \in DOMAIN f.act.calls : Permitted(f.env, f.act.calls[k])
       /\ f.calls - f.todo + Len(f.act.calls) <= f.env.calls
       /\ Outstanding(log, f.calls - f.todo, f.calls - f.todo, f)
  /\ p \in {"execute", "executed"} =>
       f.todo = 0 /\ Outstanding(log, Before(f), Before(f), f)
  /\ p = "observe" =>
       /\ f.todo <= Len(f.act.calls)
       /\ Outstanding(log, Before(f), Before(f) + f.todo, f)

\* The last answer of the run is the one under verification.
LastAnswerIs(log, r, a) ==
  /\ a.type = "answer"
  /\ \E i \in OfType(log, r, "model_action") :
       /\ log[i].action = a
       /\ \A j \in OfType(log, r, "model_action") : j <= i

Answered(log, p, f) ==
  /\ p \in {"verify", "verified"} => LastAnswerIs(log, f.run, f.act)
  /\ p = "verify" =>
       /\ LastOf(log, f.run).type = "model_action"
       /\ LastOf(log, f.run).action = f.act
  /\ p = "verified" =>
       LastOf(log, f.run).type = "verification" /\ LastOf(log, f.run).passed

\* The conversation is the one the ledger replays; the action joins it with
\* its first outcome.
Told(p, f) ==
  \/ p \in {"head", "model"}
  \/ p = "observe" /\ f.todo > 0

ActionTold(p, f) ==
  \/ p \in {"reserve", "attempt", "execute", "executed", "verify"}
  \/ p = "observe" /\ f.todo = 0

Replayed(log, p, f) ==
  LET replay == Unnumbered(Rehydrated(log, f.run))
  IN  /\ Told(p, f) => Unnumbered(f.conv) = replay
      /\ ActionTold(p, f) => Append(Unnumbered(f.conv), Assistant(f.act)) = replay

Going(log, p, f) ==
  Framed(log, f) /\ Batch(log, p, f) /\ Answered(log, p, f) /\ Replayed(log, p, f)

-----------------------------------------------------------------------------
(* The inductive invariant.  Between two appends run() knows the ledger in *)
(* memory; during one it offers an acceptable event, and will know the     *)
(* ledger with it.                                                         *)

FileInv == SoundFile(disk) /\ Clean(mem) /\ Sound(mem)

ControlInv ==
  /\ conv \in Seq(Message)
  /\ cont # "append"
  /\ pc \notin {"idle", "append"} => Going(mem, pc, Here)
  /\ pc = "append" =>
       /\ buf.run = run
       /\ EventOK(mem, buf)
       /\ Sound(Append(mem, buf))
       /\ cont # "idle" => Going(Append(mem, buf), cont, Here)

HistoryInv == KernelTypeOK /\ FileInv /\ ControlInv

-----------------------------------------------------------------------------
(* A sound ledger stays sound under what the kernel offers it.             *)

Offered(log, e) ==
  /\ e.run \in Runs
  /\ e.type = "model_started" =>
       StepsUsed(log, e.run) < FirstOf(log, e.run).env.steps
  /\ e.type = "attempt_started" =>
       /\ e.attempt = CallsUsed(log, e.run) + 1
       /\ CallsUsed(log, e.run) < FirstOf(log, e.run).env.calls
       /\ Permitted(FirstOf(log, e.run).env, e.tool)

LEMMA SoundEmpty == Sound(<<>>) /\ Clean(<<>>)
<1>1. DOMAIN <<>> = {}
  OBVIOUS
<1>2. \A r : ~Exists(<<>>, r)
  BY <1>1 DEF Exists, Own
<1> QED
  BY <1>1, <1>2 DEF Sound, Clean, WithinLimits, AttemptsPermitted,
                    AttemptsNumbered

LEMMA CountsAppend ==
  ASSUME NEW log \in Seq(Event), NEW e \in Event, NEW r
  PROVE  /\ StepsUsed(log, r) \in Nat /\ CallsUsed(log, r) \in Nat
         /\ StepsUsed(Append(log, e), r) =
              StepsUsed(log, r)
                + (IF e.run = r /\ e.type = "model_started" THEN 1 ELSE 0)
         /\ CallsUsed(Append(log, e), r) =
              CallsUsed(log, r)
                + (IF e.run = r /\ e.type = "attempt_started" THEN 1 ELSE 0)
BY CountAppend DEF StepsUsed, CallsUsed

LEMMA NoCounts ==
  ASSUME NEW log, NEW r, ~Exists(log, r)
  PROVE  /\ StepsUsed(log, r) = 0 /\ CallsUsed(log, r) = 0
         /\ \A type : OfType(log, r, type) = {}
         /\ Unresolved(log, r) = {}
<1>1. \A type : OfType(log, r, type) = {}
  BY DEF Exists, OfType
<1> QED
  BY <1>1, FS_EmptySet DEF StepsUsed, CallsUsed, Unresolved

LEMMA SoundAppend ==
  ASSUME NEW log \in Seq(Event), NEW e \in Event,
         Sound(log), EventOK(log, e), Offered(log, e)
  PROVE  Sound(Append(log, e))
<1> DEFINE L == Append(log, e)
           n == Len(log) + 1
<1>1. /\ DOMAIN L = DOMAIN log \cup {n} /\ L[n] = e /\ n \notin DOMAIN log
      /\ \A i \in DOMAIN log : L[i] = log[i]
  BY AppendPlaces
<1>2. \A i \in DOMAIN log : log[i] \in Event /\ Exists(log, log[i].run)
  BY OwnPlaces DEF Exists, Own
<1>3. \A r : /\ Exists(L, r) <=> Exists(log, r) \/ e.run = r
             /\ Exists(log, r) => FirstOf(L, r) = FirstOf(log, r)
             /\ ~Exists(log, r) /\ e.run = r => FirstOf(L, r) = e
  BY EndsAppend
<1>4. \A r : /\ StepsUsed(log, r) \in Nat /\ CallsUsed(log, r) \in Nat
             /\ StepsUsed(L, r) =
                  StepsUsed(log, r)
                    + (IF e.run = r /\ e.type = "model_started" THEN 1 ELSE 0)
             /\ CallsUsed(L, r) =
                  CallsUsed(log, r)
                    + (IF e.run = r /\ e.type = "attempt_started" THEN 1 ELSE 0)
  BY CountsAppend
<1>5. Exists(log, e.run) <=> e.type # "run_started"
  BY DEF EventOK
<1>6. /\ \A r : Exists(log, r) => FirstOf(log, r).env.steps \in Nat
                                 /\ FirstOf(log, r).env.calls \in Nat
      /\ e.env.steps \in Nat /\ e.env.calls \in Nat /\ e.attempt \in Nat
  BY FirstType DEF Event, Envelope
<1> HIDE DEF L, n
<1>7. \A i \in DOMAIN L : L[i].run \in Runs
  BY <1>1 DEF Sound, Offered
<1>8. WithinLimits(L)
  <2> SUFFICES ASSUME NEW r \in Runs, Exists(L, r)
               PROVE  /\ StepsUsed(L, r) <= FirstOf(L, r).env.steps
                      /\ CallsUsed(L, r) <= FirstOf(L, r).env.calls
    BY DEF WithinLimits
  <2>1. CASE Exists(log, r)
    <3>1. /\ StepsUsed(log, r) <= FirstOf(log, r).env.steps
          /\ CallsUsed(log, r) <= FirstOf(log, r).env.calls
      BY <2>1 DEF Sound, WithinLimits
    <3>2. FirstOf(L, r) = FirstOf(log, r)
      BY <1>3, <2>1
    <3>3. StepsUsed(L, r) <= FirstOf(log, r).env.steps
      BY <1>4, <1>6, <2>1, <3>1 DEF Offered
    <3>4. CallsUsed(L, r) <= FirstOf(log, r).env.calls
      BY <1>4, <1>6, <2>1, <3>1 DEF Offered
    <3> QED
      BY <3>2, <3>3, <3>4
  <2>2. CASE ~Exists(log, r)
    <3>1. e.run = r /\ e.type = "run_started" /\ FirstOf(L, r) = e
      BY <1>3, <1>5, <2>2
    <3>2. StepsUsed(L, r) = 0 /\ CallsUsed(L, r) = 0
      BY <1>4, <2>2, <3>1, NoCounts
    <3> QED
      BY <1>6, <3>1, <3>2
  <2> QED
    BY <2>1, <2>2
<1>9. AttemptsPermitted(L)
  <2> SUFFICES ASSUME NEW i \in DOMAIN L, L[i].type = "attempt_started"
               PROVE  Permitted(FirstOf(L, L[i].run).env, L[i].tool)
    BY DEF AttemptsPermitted
  <2>1. CASE i \in DOMAIN log
    BY <1>1, <1>2, <1>3, <2>1 DEF Sound, AttemptsPermitted
  <2>2. CASE i = n
    BY <1>1, <1>3, <1>5, <2>2 DEF Offered
  <2> QED
    BY <1>1, <2>1, <2>2
<1>10. ASSUME NEW i \in DOMAIN L,
              L[i].type \in {"attempt_started", "tool_observation"}
       PROVE  L[i].attempt <= CallsUsed(L, L[i].run)
  <2>1. CASE i \in DOMAIN log
    <3>1. log[i].attempt <= CallsUsed(log, log[i].run) /\ log[i].attempt \in Nat
      BY <1>1, <1>2, <1>10, <2>1 DEF Sound, AttemptsNumbered, Event
    <3> QED
      BY <1>1, <1>4, <2>1, <3>1
  <2>2. CASE i = n /\ e.type = "attempt_started"
    BY <1>1, <1>4, <1>6, <2>2 DEF Offered
  <2>3. CASE i = n /\ e.type = "tool_observation"
    <3>1. PICK j \in OfType(log, e.run, "attempt_started") :
                 log[j].attempt = e.attempt
      BY <2>3 DEF EventOK, Bound
    <3>2. e.attempt <= CallsUsed(log, e.run)
      BY <3>1 DEF OfType, Own, Sound, AttemptsNumbered
    <3> QED
      BY <1>1, <1>4, <1>6, <2>3, <3>2
  <2> QED
    BY <1>1, <1>10, <2>1, <2>2, <2>3
<1>11. ASSUME NEW i \in DOMAIN L, NEW j \in DOMAIN L,
              L[i].type = "attempt_started", L[j].type = "attempt_started",
              L[i].run = L[j].run, L[i].attempt = L[j].attempt
       PROVE  i = j
  <2>1. CASE i \in DOMAIN log /\ j \in DOMAIN log
    BY <1>1, <1>11, <2>1 DEF Sound, AttemptsNumbered
  <2>2. ASSUME NEW k \in DOMAIN log, e.type = "attempt_started",
               log[k].type = "attempt_started", log[k].run = e.run,
               log[k].attempt = e.attempt
        PROVE  FALSE
    BY <2>2 DEF EventOK, OfType, Own
  <2> QED
    BY <1>1, <1>11, <2>1, <2>2
<1> QED
  BY <1>7, <1>8, <1>9, <1>10, <1>11 DEF Sound, AttemptsNumbered, L

-----------------------------------------------------------------------------
(* The frame and the ledger with one more event of the run.                *)

LEMMA FramedAppend ==
  ASSUME NEW log \in Seq(Event), NEW e \in Event, NEW f \in Frame, NEW g \in Frame,
         Framed(log, f), e.run = f.run, e.type # "run_completed",
         g.run = f.run, g.env = f.env, g.deadline = f.deadline,
         e.type = "model_started" => g.steps = f.steps + 1,
         e.type # "model_started" => g.steps = f.steps,
         e.type = "attempt_started" => g.calls = f.calls + 1,
         e.type # "attempt_started" => g.calls = f.calls
  PROVE  Framed(Append(log, e), g)
BY EndsAppend, CountsAppend DEF Framed, Frame

\* The event that starts or resumes a run sets the frame up.
LEMMA FramedEntry ==
  ASSUME NEW log \in Seq(Event), NEW e \in Event, NEW g \in Frame,
         e.run = g.run, e.type \in {"run_started", "run_resumed"},
         g.steps = StepsUsed(log, g.run), g.calls = CallsUsed(log, g.run),
         ~Exists(log, g.run) => g.env = e.env /\ g.deadline = e.deadline,
         Exists(log, g.run) =>
           /\ g.env = FirstOf(log, g.run).env
           /\ g.deadline = FirstOf(log, g.run).deadline
  PROVE  Framed(Append(log, e), g)
BY EndsAppend, CountsAppend DEF Framed

\* Events that neither start nor observe an attempt leave the run settled.
LEMMA SettledAppend ==
  ASSUME NEW log \in Seq(Event), NEW e \in Event, NEW r, Unresolved(log, r) = {},
         e.type \notin {"attempt_started", "tool_observation"}
  PROVE  Unresolved(Append(log, e), r) = {}
BY UnresolvedAppend

\* An event of a run that goes on, and that validate puts no condition on.
LEMMA PlainOK ==
  ASSUME NEW log, NEW f, NEW e, Framed(log, f), e.run = f.run,
         e.type \in {"run_resumed", "model_started", "model_action",
                     "delegation_requested", "run_failed", "run_blocked"}
  PROVE  EventOK(log, e)
BY DEF Framed, EventOK, EventTypes

-----------------------------------------------------------------------------
(* The calls of an action, from the reservation to the last outcome.       *)

LEMMA AttemptOutstanding ==
  ASSUME NEW log \in Seq(Event), NEW e \in Event, NEW f \in Frame, NEW g \in Frame,
         NEW first \in Nat, first = f.calls - f.todo,
         Outstanding(log, first, first, f),
         e.run = f.run, e.type = "attempt_started", e.attempt = f.calls + 1,
         e.tool = f.act.calls[f.todo + 1],
         g.run = f.run, g.act = f.act, g.calls = f.calls + 1
  PROVE  Outstanding(Append(log, e), first, first, g)
<1> DEFINE L == Append(log, e)
           n == Len(log) + 1
           r == f.run
<1>1. /\ L[n] = e /\ \A i \in DOMAIN log : L[i] = log[i]
      /\ \A type : OfType(log, r, type) \subseteq DOMAIN log
  BY AppendPlaces DEF OfType, Own
<1>2. /\ OfType(L, r, "attempt_started") =
           OfType(log, r, "attempt_started") \cup {n}
      /\ OfType(L, r, "tool_observation") = OfType(log, r, "tool_observation")
  BY OfTypeAppend
<1>3. Unresolved(L, r) \subseteq Unresolved(log, r) \cup {n}
  BY UnresolvedAppend
<1>4. Unresolved(log, r) \subseteq DOMAIN log
  BY <1>1 DEF Unresolved
<1>5. f.calls \in Nat /\ f.todo \in Nat
  BY DEF Frame
<1> HIDE DEF L, n, r
<1>6. ASSUME NEW m \in first + 1 .. g.calls
      PROVE  \E i \in OfType(L, r, "attempt_started") :
               L[i].attempt = m /\ L[i].tool = g.act.calls[m - first]
  <2>1. CASE m = f.calls + 1
    <3>1. m - first = f.todo + 1
      BY <1>5, <2>1
    <3> QED
      BY <1>1, <1>2, <2>1, <3>1
  <2>2. CASE m # f.calls + 1
    <3>1. m \in first + 1 .. f.calls
      BY <1>5, <2>2
    <3>2. PICK i \in OfType(log, r, "attempt_started") :
                 log[i].attempt = m /\ log[i].tool = f.act.calls[m - first]
      BY <3>1 DEF Outstanding, r
    <3> QED
      BY <1>1, <1>2, <3>2
  <2> QED
    BY <2>1, <2>2
<1>7. \A i \in OfType(L, r, "tool_observation") : L[i].attempt <= first
  BY <1>1, <1>2 DEF Outstanding, r
<1>8. \A i \in Unresolved(L, r) : L[i].attempt > first
  BY <1>1, <1>3, <1>4, <1>5 DEF Outstanding, r
<1> QED
  BY <1>6, <1>7, <1>8 DEF Outstanding, L, r

LEMMA ObserveOutstanding ==
  ASSUME NEW log \in Seq(Event), NEW e \in Event, NEW f \in Frame, NEW g \in Frame,
         NEW first \in Nat, NEW lo \in Nat, lo < f.calls,
         Outstanding(log, first, lo, f),
         e.run = f.run, e.type = "tool_observation", e.attempt = lo + 1,
         e.tool = f.act.calls[lo + 1 - first],
         g.run = f.run, g.act = f.act, g.calls = f.calls
  PROVE  Bound(log, e) /\ Outstanding(Append(log, e), first, lo + 1, g)
<1> DEFINE L == Append(log, e)
           n == Len(log) + 1
           r == f.run
<1>1. /\ L[n] = e /\ \A i \in DOMAIN log : L[i] = log[i] /\ log[i] \in Event
      /\ \A type : OfType(log, r, type) \subseteq DOMAIN log
  BY AppendPlaces, OwnPlaces DEF OfType, Own
<1>2. /\ OfType(L, r, "attempt_started") = OfType(log, r, "attempt_started")
      /\ OfType(L, r, "tool_observation") =
           OfType(log, r, "tool_observation") \cup {n}
  <2>1. ASSUME NEW type, e.type # type
        PROVE  OfType(L, r, type) = OfType(log, r, type)
    BY <2>1, OfTypeAppend
  <2>2. ASSUME NEW type, e.type = type
        PROVE  OfType(L, r, type) = OfType(log, r, type) \cup {n}
    BY <2>2, OfTypeAppend
  <2> QED
    BY <2>1, <2>2
<1>3. /\ Unresolved(L, r) =
           {i \in Unresolved(log, r) : log[i].attempt # e.attempt}
      /\ Unresolved(log, r) \subseteq DOMAIN log
  <2>1. Unresolved(L, r) =
          {i \in Unresolved(log, r) : log[i].attempt # e.attempt}
    BY UnresolvedAppend
  <2>2. Unresolved(log, r) \subseteq DOMAIN log
    BY <1>1 DEF Unresolved
  <2> QED
    BY <2>1, <2>2
<1>4. f.calls \in Nat /\ \A i \in DOMAIN log : log[i].attempt \in Nat
  BY <1>1 DEF Frame, Event
<1> HIDE DEF L, n, r
<1>5. Bound(log, e)
  <2>1. lo + 1 \in lo + 1 .. f.calls
    BY <1>4
  <2>2. PICK i \in OfType(log, r, "attempt_started") :
               /\ log[i].attempt = lo + 1
               /\ log[i].tool = f.act.calls[lo + 1 - first]
    BY <2>1 DEF Outstanding, r
  <2>3. \A k \in OfType(log, r, "tool_observation") : log[k].attempt # lo + 1
    BY <1>1, <1>4 DEF Outstanding, r
  <2> QED
    BY <2>2, <2>3 DEF Bound, r
<1>6. \A m \in lo + 1 + 1 .. g.calls :
        \E i \in OfType(L, r, "attempt_started") :
          L[i].attempt = m /\ L[i].tool = g.act.calls[m - first]
  <2>1. \A m \in lo + 1 + 1 .. g.calls : m \in lo + 1 .. f.calls
    BY <1>4
  <2> TAKE m \in lo + 1 + 1 .. g.calls
  <2>2. PICK i \in OfType(log, r, "attempt_started") :
               log[i].attempt = m /\ log[i].tool = f.act.calls[m - first]
    BY <2>1 DEF Outstanding, r
  <2>3. i \in OfType(L, r, "attempt_started") /\ L[i] = log[i]
    BY <1>1, <1>2, <2>2
  <2> QED
    BY <2>2, <2>3
<1>7. \A i \in OfType(L, r, "tool_observation") : L[i].attempt <= lo + 1
  BY <1>1, <1>2, <1>4 DEF Outstanding, r
<1>8. \A i \in Unresolved(L, r) : L[i].attempt > lo + 1
  BY <1>1, <1>3, <1>4 DEF Outstanding, r
<1> QED
  BY <1>5, <1>6, <1>7, <1>8 DEF Outstanding, L, r

\* A settled run has no outcome to come, and a run that has them all is
\* settled.
LEMMA OutstandingEnds ==
  ASSUME NEW log \in Seq(Event), NEW f \in Frame, Sound(log), Framed(log, f)
  PROVE  /\ Unresolved(log, f.run) = {} =>
              Outstanding(log, f.calls, f.calls, f)
         /\ \A first \in Nat : Outstanding(log, first, f.calls, f) =>
              Unresolved(log, f.run) = {}
<1>1. \A i \in OfType(log, f.run, "attempt_started")
               \cup OfType(log, f.run, "tool_observation") :
        log[i].attempt \in Nat /\ log[i].attempt <= f.calls
  <2>1. \A i \in DOMAIN log : log[i].attempt \in Nat
    BY OwnPlaces DEF Event
  <2>2. \A i \in DOMAIN log :
          log[i].type \in {"attempt_started", "tool_observation"} =>
            log[i].attempt <= CallsUsed(log, log[i].run)
    BY DEF Sound, AttemptsNumbered
  <2> QED
    BY <2>1, <2>2 DEF OfType, Own, Framed
<1>2. f.calls \in Nat /\ f.calls + 1 .. f.calls = {}
  BY DEF Frame
<1>3. Unresolved(log, f.run) \subseteq OfType(log, f.run, "attempt_started")
  BY DEF Unresolved
<1> QED
  BY <1>1, <1>2, <1>3 DEF Outstanding

\* While the handler of a mutating tool runs, its attempt is the only one of
\* the run without an outcome.
LEMMA OneUnresolved ==
  ASSUME NEW log \in Seq(Event), NEW f \in Frame, Sound(log),
         Going(log, "execute", f),
         NEW k \in DOMAIN f.act.calls, Effect[f.act.calls[k]] # "read"
  PROVE  Cardinality(Unresolved(log, f.run)) = 1
<1> DEFINE r == f.run
<1>1. f.act.type = "tool_call" /\ Len(f.act.calls) = 1 /\ k = 1
  <2>1. f.act \in ModelActions /\ f.act.type = "tool_call"
    BY DEF Going, Batch
  <2>2. Len(f.act.calls) = 1
    BY <2>1, ActionAssumption
  <2>3. DOMAIN f.act.calls = 1 .. Len(f.act.calls)
    BY LenProperties DEF Frame, Action
  <2> QED
    BY <2>1, <2>2, <2>3
<1>2. f.calls \in Nat /\ Before(f) = f.calls - 1
  BY <1>1 DEF Frame, Before
<1>3. Outstanding(log, f.calls - 1, f.calls - 1, f) /\ f.calls = CallsUsed(log, r)
  BY <1>2 DEF Going, Batch, Framed
<1>4. \A i \in DOMAIN log : log[i].attempt \in Nat
  BY OwnPlaces DEF Event
<1>5. PICK i \in OfType(log, r, "attempt_started") :
             log[i].attempt = f.calls /\ log[i].tool = f.act.calls[1]
  <2>1. f.calls \in f.calls - 1 + 1 .. f.calls /\ f.calls - (f.calls - 1) = 1
    BY <1>2
  <2> QED
    BY <1>3, <2>1 DEF Outstanding
<1>6. i \in Unresolved(log, r)
  <2>1. \A j \in OfType(log, r, "tool_observation") : log[j].attempt # f.calls
    BY <1>2, <1>3, <1>4 DEF Outstanding, OfType, Own
  <2> QED
    BY <1>1, <1>5, <2>1 DEF Unresolved
<1>7. ASSUME NEW j \in Unresolved(log, r) PROVE j = i
  <2>1. j \in OfType(log, r, "attempt_started") /\ log[j].attempt > f.calls - 1
    BY <1>3 DEF Unresolved, Outstanding
  <2>2. log[j].attempt <= f.calls /\ log[j].attempt \in Nat
    BY <1>3, <1>4, <2>1 DEF Sound, AttemptsNumbered, OfType, Own
  <2>3. log[j].attempt = log[i].attempt
    BY <1>2, <1>5, <2>1, <2>2
  <2> QED
    BY <1>5, <2>1, <2>3 DEF Sound, AttemptsNumbered, OfType, Own
<1>8. Unresolved(log, r) = {i}
  BY <1>6, <1>7
<1> QED
  BY <1>8, FS_Singleton

-----------------------------------------------------------------------------
(* The answer under verification.                                          *)

LEMMA LastAnswerFound ==
  ASSUME NEW log \in Seq(Event), NEW r, NEW a, LastAnswerIs(log, r, a)
  PROVE  /\ LastAnswer(log, r) = a.content
         /\ \E i \in OfType(log, r, "model_action") : log[i].action.type = "answer"
<1> DEFINE A == {i \in OfType(log, r, "model_action") :
                   log[i].action.type = "answer"}
           c == CHOOSE i \in A : \A j \in A : j <= i
<1>1. PICK i \in OfType(log, r, "model_action") :
             /\ log[i].action = a
             /\ \A j \in OfType(log, r, "model_action") : j <= i
  BY DEF LastAnswerIs
<1>2. i \in A /\ \A j \in A : j <= i
  BY <1>1 DEF LastAnswerIs
<1>3. c \in A /\ \A j \in A : j <= c
  BY <1>2
<1>4. c \in Nat /\ i \in Nat
  BY <1>2, <1>3, OwnPlaces DEF OfType, Own
<1>5. c <= i /\ i <= c
  BY <1>2, <1>3
<1>6. c = i
  BY <1>4, <1>5
<1>7. LastAnswer(log, r) = log[c].action.content
  BY DEF LastAnswer
<1> QED
  BY <1>1, <1>2, <1>6, <1>7

LEMMA AnswerAppend ==
  ASSUME NEW log \in Seq(Event), NEW e \in Event, NEW r
  PROVE  /\ e.run = r /\ e.type = "model_action" /\ e.action.type = "answer" =>
              LastAnswerIs(Append(log, e), r, e.action)
         /\ \A a : e.type # "model_action" /\ LastAnswerIs(log, r, a) =>
              LastAnswerIs(Append(log, e), r, a)
<1>1. /\ Append(log, e)[Len(log) + 1] = e
      /\ \A i \in DOMAIN log : /\ Append(log, e)[i] = log[i]
                               /\ i \in Nat /\ i < Len(log) + 1
      /\ Len(log) + 1 \in Nat
      /\ OfType(log, r, "model_action") \subseteq DOMAIN log
  BY AppendPlaces DEF OfType, Own
<1>2. ASSUME e.run = r, e.type = "model_action", e.action.type = "answer"
      PROVE  LastAnswerIs(Append(log, e), r, e.action)
  <2>1. OfType(Append(log, e), r, "model_action") =
          OfType(log, r, "model_action") \cup {Len(log) + 1}
    BY <1>2, OfTypeAppend
  <2>2. \A j \in OfType(log, r, "model_action") \cup {Len(log) + 1} :
          j <= Len(log) + 1
    BY <1>1
  <2> QED
    BY <1>1, <1>2, <2>1, <2>2 DEF LastAnswerIs
<1>3. ASSUME NEW a, e.type # "model_action", LastAnswerIs(log, r, a)
      PROVE  LastAnswerIs(Append(log, e), r, a)
  <2>1. OfType(Append(log, e), r, "model_action") = OfType(log, r, "model_action")
    BY <1>3, OfTypeAppend
  <2> QED
    BY <1>1, <1>3, <2>1 DEF LastAnswerIs
<1> QED
  BY <1>2, <1>3

-----------------------------------------------------------------------------
(* The conversation.                                                       *)

LEMMA UnnumberedAppend ==
  ASSUME NEW c \in Seq(Message), NEW m \in Message
  PROVE  /\ Unnumbered(c) \in Seq(Message)
         /\ Unnumbered(Append(c, m)) =
              Append(Unnumbered(c), [m EXCEPT !.attempt = 0])
<1> DEFINE u == Unnumbered(c)
           v == Unnumbered(Append(c, m))
           w == [m EXCEPT !.attempt = 0]
<1>1. Len(c) \in Nat /\ DOMAIN c = 1 .. Len(c) /\ \A i \in 1 .. Len(c) : c[i] \in Message
  BY LenProperties, ElementOfSeq
<1>2. w \in Message /\ \A x \in Message : [x EXCEPT !.attempt = 0] \in Message
  BY DEF Message
<1>3. u = [i \in 1 .. Len(c) |-> [c[i] EXCEPT !.attempt = 0]]
  BY <1>1 DEF Unnumbered
<1>4. u \in Seq(Message) /\ Len(u) = Len(c)
  BY <1>1, <1>2, <1>3
<1>5. /\ DOMAIN Append(c, m) = 1 .. Len(c) + 1 /\ Append(c, m)[Len(c) + 1] = m
      /\ \A i \in 1 .. Len(c) : Append(c, m)[i] = c[i]
  BY AppendProperties, LenProperties
<1>6. v = [i \in 1 .. Len(c) + 1 |-> [Append(c, m)[i] EXCEPT !.attempt = 0]]
  BY <1>5 DEF Unnumbered
<1> HIDE DEF u, v, w
<1>7. /\ \A i \in 1 .. Len(c) : v[i] = u[i]
      /\ v[Len(c) + 1] = w
  <2>1. \A i \in 1 .. Len(c) : v[i] = u[i]
    <3> TAKE i \in 1 .. Len(c)
    <3>1. i \in 1 .. Len(c) + 1
      BY <1>1
    <3>2. v[i] = [Append(c, m)[i] EXCEPT !.attempt = 0]
      BY <1>6, <3>1
    <3>3. u[i] = [c[i] EXCEPT !.attempt = 0]
      BY <1>3
    <3> QED
      BY <1>5, <3>2, <3>3
  <2>2. v[Len(c) + 1] = w
    BY <1>1, <1>5, <1>6 DEF w
  <2> QED
    BY <2>1, <2>2
<1>8. v \in Seq(Message) /\ Len(v) = Len(c) + 1
  <2>1. \A i \in 1 .. Len(c) : u[i] \in Message
    BY <1>1, <1>2, <1>3
  <2>2. \A i \in 1 .. Len(c) + 1 : v[i] \in Message
    BY <1>1, <1>2, <1>7, <2>1
  <2> QED
    BY <1>1, <1>6, <2>2
<1>9. /\ Append(u, w) \in Seq(Message) /\ Len(Append(u, w)) = Len(c) + 1
      /\ \A i \in 1 .. Len(c) : Append(u, w)[i] = u[i]
      /\ Append(u, w)[Len(c) + 1] = w
  BY <1>2, <1>4, AppendProperties
<1>10. \A i \in 1 .. Len(v) : v[i] = Append(u, w)[i]
  BY <1>1, <1>7, <1>8, <1>9
<1>11. v = Append(u, w)
  BY <1>8, <1>9, <1>10, SeqEqual
<1> QED
  BY <1>4, <1>11 DEF u, v, w

-----------------------------------------------------------------------------
(* What may happen to a file leaves it sound.                              *)

LEMMA SamePrefix ==
  ASSUME NEW a \in Seq(Event), NEW b \in Seq(Event), NEW n \in Nat,
         n <= Len(a), n <= Len(b), \A i \in 1 .. n : a[i] = b[i]
  PROVE  SubSeq(a, 1, n) = SubSeq(b, 1, n)
<1>1. /\ Len(a) \in Nat /\ Len(b) \in Nat
      /\ \A i \in 1 .. n : a[i] \in Event /\ b[i] \in Event
  <2>1. Len(a) \in Nat /\ Len(b) \in Nat
    BY LenProperties
  <2>2. \A i \in 1 .. n : i \in 1 .. Len(a) /\ i \in 1 .. Len(b)
    BY <2>1
  <2> QED
    BY <2>1, <2>2, ElementOfSeq
<1>2. /\ SubSeq(a, 1, n) \in Seq(Event) /\ Len(SubSeq(a, 1, n)) = n
      /\ \A i \in 1 .. n : SubSeq(a, 1, n)[i] = a[i]
  BY <1>1, SubSeqProperties
<1>3. /\ SubSeq(b, 1, n) \in Seq(Event) /\ Len(SubSeq(b, 1, n)) = n
      /\ \A i \in 1 .. n : SubSeq(b, 1, n)[i] = b[i]
  BY <1>1, SubSeqProperties
<1> QED
  BY <1>2, <1>3, SeqEqual

LEMMA PrefixPlaces ==
  ASSUME NEW log \in Seq(Event), NEW n \in 0 .. Len(log)
  PROVE  /\ SubSeq(log, 1, n) \in Seq(Event) /\ Len(SubSeq(log, 1, n)) = n
         /\ DOMAIN SubSeq(log, 1, n) = 1 .. n /\ n \in Nat /\ Len(log) \in Nat
         /\ \A i \in 1 .. n : i \in DOMAIN log /\ SubSeq(log, 1, n)[i] = log[i]
<1>1. Len(log) \in Nat /\ n \in Nat /\ n <= Len(log) /\ DOMAIN log = 1 .. Len(log)
  BY LenProperties
<1>2. \A i \in 1 .. n : i \in 1 .. Len(log)
  BY <1>1
<1>3. \A i \in 1 .. n : log[i] \in Event
  BY <1>2, ElementOfSeq
<1>4. /\ SubSeq(log, 1, n) \in Seq(Event) /\ Len(SubSeq(log, 1, n)) = n
      /\ \A i \in 1 .. n : SubSeq(log, 1, n)[i] = log[i]
  BY <1>1, <1>3, SubSeqProperties
<1>5. DOMAIN SubSeq(log, 1, n) = 1 .. n
  BY <1>4, LenProperties
<1> QED
  BY <1>1, <1>2, <1>4, <1>5

LEMMA GarbledLine ==
  /\ Garbled \in Event /\ Garbled.type \notin EventTypes
  /\ Garbled.run = NoRun /\ NoRun \notin Runs
BY GarbledType, LineType, BlankType, NullAssumption DEF Garbled, Blank

LEMMA CleanFileSound ==
  ASSUME NEW file \in Seq(Event), SoundFile(file), Clean(file)
  PROVE  Sound(file)
<1>1. SubSeq(file, 1, Len(file)) = file /\ Len(file) \in 0 .. Len(file)
  BY SubSeqFull, LenProperties
<1> QED
  BY <1>1 DEF SoundFile

LEMMA FileAppend ==
  ASSUME NEW file \in Seq(Event), NEW e \in Event, SoundFile(file),
         \/ e = Garbled
         \/ Clean(file) /\ EventOK(file, e) /\ e.run \in Runs
            /\ Sound(Append(file, e))
  PROVE  SoundFile(Append(file, e))
<1> DEFINE L == Append(file, e)
           n == Len(file) + 1
<1>1. /\ L \in Seq(Event) /\ Len(L) = n /\ n \in Nat /\ n > 0
      /\ DOMAIN L = DOMAIN file \cup {n} /\ L[n] = e /\ n \notin DOMAIN file
      /\ DOMAIN file = 1 .. Len(file) /\ Len(file) \in Nat
      /\ \A i \in DOMAIN file : i \in Nat /\ i < n /\ L[i] = file[i]
  BY AppendPlaces, AppendProperties, LenProperties
<1> HIDE DEF L, n
<1>2. ASSUME NEW m \in 0 .. Len(L), Clean(SubSeq(L, 1, m))
      PROVE  Sound(SubSeq(L, 1, m))
  <2>1. CASE m = n
    <3>1. SubSeq(L, 1, m) = L
      BY <1>1, <2>1, SubSeqFull
    <3>2. e # Garbled
      BY <1>1, <1>2, <3>1, GarbledLine DEF Clean
    <3> QED
      BY <3>1, <3>2 DEF L
  <2>2. CASE m # n
    <3>1. m \in 0 .. Len(file) /\ m \in Nat /\ m <= Len(file) /\ m <= Len(L)
      BY <1>1, <2>2 DEF n
    <3>2. \A i \in 1 .. m : L[i] = file[i]
      BY <1>1, <3>1
    <3>3. SubSeq(L, 1, m) = SubSeq(file, 1, m)
      BY <1>1, <3>1, <3>2, SamePrefix
    <3> QED
      BY <1>2, <3>1, <3>3 DEF SoundFile
  <2> QED
    BY <2>1, <2>2
<1>3. ASSUME NEW i \in DOMAIN L
      PROVE  (L[i].type \in EventTypes /\ L[i].run \in Runs) \/ L[i] = Garbled
  BY <1>1 DEF SoundFile, EventOK
<1>4. ASSUME NEW i \in DOMAIN L, NEW j \in DOMAIN L,
             L[i].type = "run_completed", i < j
      PROVE  L[j].run # L[i].run
  <2>1. i \in DOMAIN file /\ L[i] = file[i]
    BY <1>1, <1>4
  <2>2. CASE j \in DOMAIN file
    BY <1>1, <1>4, <2>1, <2>2 DEF SoundFile
  <2>3. CASE j = n /\ e = Garbled
    <3>1. file[i].run \in Runs
      BY <1>4, <2>1, GarbledLine DEF SoundFile, EventTypes
    <3> QED
      BY <1>1, <2>1, <2>3, <3>1, GarbledLine
  <2>4. CASE j = n /\ e # Garbled
    <3> SUFFICES ASSUME e.run = file[i].run PROVE FALSE
      BY <1>1, <2>1, <2>4
    <3>1. i \in Own(file, e.run)
      BY <2>1 DEF Own
    <3>2. \A k \in Own(file, e.run) : k <= i
      BY <1>1, <1>4, <2>1 DEF Own, SoundFile
    <3>3. LastOf(file, e.run) = file[i]
      BY <3>1, <3>2, LastIs
    <3> QED
      BY <1>4, <2>1, <2>4, <3>1, <3>3 DEF EventOK, Completed, Exists
  <2> QED
    BY <1>1, <2>2, <2>3, <2>4
<1> QED
  BY <1>2, <1>3, <1>4 DEF SoundFile, L

LEMMA FileGarbled ==
  ASSUME NEW file \in Seq(Event), SoundFile(file), NEW k \in DOMAIN file
  PROVE  SoundFile([file EXCEPT ![k] = Garbled])
<1> DEFINE L == [file EXCEPT ![k] = Garbled]
<1>1. /\ L \in Seq(Event) /\ Len(L) = Len(file) /\ Len(file) \in Nat
      /\ DOMAIN L = DOMAIN file /\ DOMAIN file = 1 .. Len(file)
      /\ \A i \in DOMAIN file : L[i] = IF i = k THEN Garbled ELSE file[i]
  BY ExceptSeq, LenProperties, GarbledLine
<1> HIDE DEF L
<1>2. ASSUME NEW m \in 0 .. Len(L), Clean(SubSeq(L, 1, m))
      PROVE  Sound(SubSeq(L, 1, m))
  <2>1. m \in 0 .. Len(file) /\ m \in Nat /\ m <= Len(file) /\ m <= Len(L)
    BY <1>1
  <2>2. /\ DOMAIN SubSeq(L, 1, m) = 1 .. m
        /\ \A i \in 1 .. m : i \in DOMAIN L /\ SubSeq(L, 1, m)[i] = L[i]
    BY <1>1, <2>1, PrefixPlaces
  <2>3. \A i \in 1 .. m : L[i].type \in EventTypes
    BY <1>2, <2>2 DEF Clean
  <2>4. \A i \in 1 .. m : L[i] = file[i]
    BY <1>1, <2>2, <2>3, GarbledLine
  <2>5. SubSeq(L, 1, m) = SubSeq(file, 1, m)
    BY <1>1, <2>1, <2>4, SamePrefix
  <2> QED
    BY <1>2, <2>1, <2>5 DEF SoundFile
<1>3. ASSUME NEW i \in DOMAIN L
      PROVE  (L[i].type \in EventTypes /\ L[i].run \in Runs) \/ L[i] = Garbled
  BY <1>1 DEF SoundFile
<1>4. ASSUME NEW i \in DOMAIN L, NEW j \in DOMAIN L,
             L[i].type = "run_completed", i < j
      PROVE  L[j].run # L[i].run
  <2>1. L[i] = file[i] /\ i \in DOMAIN file /\ j \in DOMAIN file
    BY <1>1, <1>4, GarbledLine DEF EventTypes
  <2>2. CASE j = k
    BY <1>1, <1>4, <2>1, <2>2, GarbledLine DEF SoundFile, EventTypes
  <2>3. CASE j # k
    BY <1>1, <1>4, <2>1, <2>3 DEF SoundFile
  <2> QED
    BY <2>2, <2>3
<1> QED
  BY <1>2, <1>3, <1>4 DEF SoundFile, L

LEMMA FileCut ==
  ASSUME NEW file \in Seq(Event), SoundFile(file), NEW n \in 0 .. Len(file)
  PROVE  SoundFile(SubSeq(file, 1, n))
<1> DEFINE L == SubSeq(file, 1, n)
<1>1. /\ L \in Seq(Event) /\ Len(L) = n /\ n \in Nat /\ n <= Len(file)
      /\ DOMAIN L = 1 .. n /\ Len(file) \in Nat
      /\ \A i \in 1 .. n : i \in DOMAIN file /\ L[i] = file[i]
  BY PrefixPlaces
<1> HIDE DEF L
<1>2. ASSUME NEW m \in 0 .. Len(L), Clean(SubSeq(L, 1, m))
      PROVE  Sound(SubSeq(L, 1, m))
  <2>1. m \in 0 .. Len(file) /\ m \in Nat /\ m <= Len(file) /\ m <= Len(L)
    BY <1>1
  <2>2. \A i \in 1 .. m : L[i] = file[i]
    BY <1>1, <2>1
  <2>3. SubSeq(L, 1, m) = SubSeq(file, 1, m)
    BY <1>1, <2>1, <2>2, SamePrefix
  <2> QED
    BY <1>2, <2>1, <2>3 DEF SoundFile
<1>3. ASSUME NEW i \in DOMAIN L
      PROVE  (L[i].type \in EventTypes /\ L[i].run \in Runs) \/ L[i] = Garbled
  BY <1>1 DEF SoundFile
<1>4. ASSUME NEW i \in DOMAIN L, NEW j \in DOMAIN L,
             L[i].type = "run_completed", i < j
      PROVE  L[j].run # L[i].run
  BY <1>1, <1>4 DEF SoundFile
<1> QED
  BY <1>2, <1>3, <1>4 DEF SoundFile, L

LEMMA FileStep ==
  ASSUME HistoryInv, LedgerStep
  PROVE  FileInv'
<1>1. /\ disk \in Seq(Event) /\ mem \in Seq(Event) /\ buf \in Event
      /\ run \in Runs \/ pc = "idle"
      /\ SoundFile(disk) /\ Clean(mem) /\ Sound(mem)
  BY DEF HistoryInv, FileInv, KernelTypeOK, LedgerTypeOK, ControlTypeOK, Flow
<1>2. CASE UNCHANGED ledgerVars
  BY <1>1, <1>2 DEF FileInv, ledgerVars
<1>3. CASE Open
  <2>1. Clean(disk)
    BY <1>3, ReadableTypes DEF Open, Readable, Clean
  <2>2. disk' = disk /\ mem' = disk
    BY <1>3 DEF Open
  <2> QED
    BY <1>1, <2>1, <2>2, CleanFileSound DEF FileInv
<1>4. ASSUME pc = "append", Accepted(buf), NEW l, l \in {buf, Garbled}
      PROVE  SoundFile(Extended(l))
  <2>1. /\ disk = mem /\ EventOK(mem, buf) /\ Sound(Append(mem, buf))
        /\ buf.run \in Runs
    BY <1>1, <1>4 DEF HistoryInv, ControlInv, Accepted, Synced
  <2>2. SoundFile(Append(disk, l))
    BY <1>1, <1>4, <2>1, FileAppend, GarbledLine
  <2>3. CASE ~(terminated \/ disk = <<>>)
    <3>1. Len(disk) \in DOMAIN disk
      BY <1>1, <2>3, LenProperties, EmptySeq
    <3> QED
      BY <1>1, <2>3, <3>1, FileGarbled DEF Extended
  <2> QED
    BY <2>2, <2>3 DEF Extended
<1>5. ASSUME pc = "append", Accepted(buf), Torn(buf) PROVE SoundFile(disk')
  BY <1>1, <1>4, <1>5 DEF Torn, LineOf
<1>6. CASE pc = "append" /\ AppendDone(buf)
  <2>1. SoundFile(disk') /\ mem' = Append(mem, buf) /\ EventOK(mem, buf)
    BY <1>4, <1>6 DEF AppendDone, LineOf, Accepted
  <2>2. Sound(Append(mem, buf))
    BY <1>6 DEF HistoryInv, ControlInv
  <2>3. Clean(Append(mem, buf))
    BY <1>1, <2>1, AppendPlaces DEF Clean, EventOK
  <2> QED
    BY <2>1, <2>2, <2>3 DEF FileInv
<1>7. CASE pc = "append" /\ AppendFault(buf)
  BY <1>1, <1>5, <1>7 DEF AppendFault, FileInv
<1>8. CASE (pc = "append" /\ CrashAppending(buf)) \/ CrashIdle
  <2>1. mem' = <<>> /\ SoundFile(disk')
    BY <1>1, <1>5, <1>8 DEF CrashAppending, CrashIdle
  <2> QED
    BY <2>1, SoundEmpty DEF FileInv
<1>9. CASE Disturb
  <2>1. mem' = mem
    BY <1>9 DEF Disturb
  <2>2. SoundFile(disk')
    <3>1. CASE \E n \in 0 .. Len(disk) - 1 : disk' = SubSeq(disk, 1, n)
      <4>1. PICK n \in 0 .. Len(disk) - 1 : disk' = SubSeq(disk, 1, n)
        BY <3>1
      <4>2. n \in 0 .. Len(disk)
        BY <1>1, LenProperties
      <4> QED
        BY <1>1, <4>1, <4>2, FileCut
    <3>2. CASE \E i \in DOMAIN disk : disk' = [disk EXCEPT ![i] = Garbled]
      BY <1>1, <3>2, FileGarbled
    <3> QED
      BY <1>9, <3>1, <3>2 DEF Disturb
  <2> QED
    BY <1>1, <2>1, <2>2 DEF FileInv
<1> QED
  BY <1>2, <1>3, <1>6, <1>7, <1>8, <1>9 DEF LedgerStep


-----------------------------------------------------------------------------
(* The ways an action ends.                                                *)

LEMMA HereIs ==
  /\ Here.run = run /\ Here.env = env /\ Here.deadline = deadline
  /\ Here.steps = steps /\ Here.calls = calls /\ Here.act = act
  /\ Here.todo = todo /\ Here.conv = conv
  /\ Here'.run = run' /\ Here'.env = env' /\ Here'.deadline = deadline'
  /\ Here'.steps = steps' /\ Here'.calls = calls' /\ Here'.act = act'
  /\ Here'.todo = todo' /\ Here'.conv = conv'
BY DEF Here

LEMMA HereFrame ==
  /\ HistoryInv /\ pc # "idle" => Here \in Frame
  /\ KernelTypeOK' /\ conv' \in Seq(Message) /\ pc' # "idle" => Here' \in Frame
<1>1. HistoryInv /\ pc # "idle" => Here \in Frame
  BY DEF HistoryInv, ControlInv, KernelTypeOK, ControlTypeOK, Flow, Here, Frame
<1>2. KernelTypeOK' /\ conv' \in Seq(Message) /\ pc' # "idle" => Here' \in Frame
  BY DEF KernelTypeOK, ControlTypeOK, Flow, Here, Frame
<1> QED
  BY <1>1, <1>2

\* An append of e from the point at hand.
LEMMA Emitted ==
  ASSUME HistoryInv, KernelTypeOK', conv' \in Seq(Message), mem' = mem,
         NEW e \in Event, NEW k, k # "append", Emit(e, k), e.run = run',
         EventOK(mem, e), Offered(mem, e),
         k # "idle" => Going(Append(mem, e), k, Here')
  PROVE  ControlInv'
<1>1. mem \in Seq(Event) /\ Sound(mem)
  BY DEF HistoryInv, FileInv, KernelTypeOK, LedgerTypeOK
<1>2. Sound(Append(mem, e))
  BY <1>1, SoundAppend
<1> QED
  BY <1>2 DEF ControlInv, Emit

LEMMA Left ==
  ASSUME NEW status, Leave(status)
  PROVE  ControlInv'
BY EmptySeq DEF Leave, ControlInv

LEMMA Thrown ==
  ASSUME HistoryInv, KernelTypeOK', mem' = mem, pc # "idle",
         pc = "append" => buf.type # "run_started",
         NEW type \in AnyException, Throw(type)
  PROVE  ControlInv'
<1>1. run \in Runs /\ run' = run /\ conv' = conv /\ conv \in Seq(Message)
  BY DEF HistoryInv, KernelTypeOK, Flow, ControlInv, Throw
<1>2. Exists(mem, run) /\ ~Completed(mem, run)
  BY HereIs DEF HistoryInv, ControlInv, EventOK, Going, Framed
<1>3. Blank(type, run) \in Event
  BY <1>1, BlankType DEF AnyException, EventTypes
<1>4. /\ Blank(type, run).type = type /\ Blank(type, run).run = run
  BY DEF Blank
<1>5. EventOK(mem, Blank(type, run)) /\ Offered(mem, Blank(type, run))
  BY <1>1, <1>2, <1>4 DEF EventOK, Offered, AnyException, EventTypes
<1>6. Emit(Blank(type, run), "idle")
  BY DEF Throw
<1> HIDE DEF Blank
<1> QED
  BY <1>1, <1>3, <1>4, <1>5, <1>6, Emitted

\* What run() knows at a point of its loop.
LEMMA AtPoint ==
  ASSUME HistoryInv, pc \notin {"idle", "append"}
  PROVE  /\ mem \in Seq(Event) /\ Sound(mem) /\ Here \in Frame
         /\ Going(mem, pc, Here)
         /\ run \in Runs /\ act \in Action /\ conv \in Seq(Message)
         /\ steps \in Nat /\ calls \in Nat /\ todo \in Nat
         /\ env.calls \in Nat /\ env.steps \in Nat
         /\ Len(act.calls) \in Nat
         /\ \A k \in 1 .. Len(act.calls) : act.calls[k] \in Tools
<1>1. mem \in Seq(Event) /\ Sound(mem) /\ Here \in Frame /\ Going(mem, pc, Here)
  BY HereFrame
     DEF HistoryInv, FileInv, KernelTypeOK, LedgerTypeOK, ControlInv
<1>2. /\ run \in Runs /\ act \in Action /\ conv \in Seq(Message)
      /\ steps \in Nat /\ calls \in Nat /\ todo \in Nat
      /\ env \in Envelope
  BY DEF HistoryInv, KernelTypeOK, ControlTypeOK, ControlInv, Flow
<1>3. act.calls \in Seq(Tools) /\ env.calls \in Nat /\ env.steps \in Nat
  BY <1>2 DEF Action, Envelope
<1>4. Len(act.calls) \in Nat /\ \A k \in 1 .. Len(act.calls) : act.calls[k] \in Tools
  BY <1>3, LenProperties, ElementOfSeq
<1> QED
  BY <1>1, <1>2, <1>3, <1>4

\* At the head of the loop, and waiting for the model.
LEMMA GoingRound ==
  ASSUME NEW log, NEW f, NEW p \in {"head", "model"},
         Framed(log, f), Unresolved(log, f.run) = {},
         Unnumbered(f.conv) = Unnumbered(Rehydrated(log, f.run))
  PROVE  Going(log, p, f)
BY DEF Going, Batch, Answered, Replayed, Told, ActionTold

\* An event of the run that says nothing changes no replay.
LEMMA SilentAppend ==
  ASSUME NEW log \in Seq(Event), NEW e \in Event, NEW r,
         e.type \notin {"model_action", "tool_observation", "verification"}
         \/ (e.type = "verification" /\ e.passed)
  PROVE  Rehydrated(Append(log, e), r) = Rehydrated(log, r)
BY ReplayAppend DEF Speaks

\* An event that speaks adds its message, but for the attempt number.
LEMMA SpokenAppend ==
  ASSUME NEW log \in Seq(Event), NEW e \in Event, Speaks(e),
         NEW m, m = [MessageOf(e) EXCEPT !.attempt = 0]
  PROVE  Unnumbered(Rehydrated(Append(log, e), e.run)) =
           Append(Unnumbered(Rehydrated(log, e.run)), m)
<1>1. /\ Rehydrated(log, e.run) \in Seq(Message)
      /\ Rehydrated(Append(log, e), e.run) =
           Append(Rehydrated(log, e.run), MessageOf(e))
  BY ReplayAppend
<1>2. MessageOf(e) \in Message
  BY MessageType
<1> QED
  BY <1>1, <1>2, UnnumberedAppend

LEMMA Utterances ==
  /\ \A a \in Action : /\ Assistant(a) \in Message
                       /\ [Assistant(a) EXCEPT !.attempt = 0] = Assistant(a)
  /\ \A c \in Contents : /\ Feedback(c) \in Message
                         /\ [Feedback(c) EXCEPT !.attempt = 0] = Feedback(c)
  /\ \A t \in Tools, n \in Nat, c \in Contents :
       /\ Observation(t, n, c) \in Message
       /\ [Observation(t, n, c) EXCEPT !.attempt = 0] = Observation(t, 0, c)
<1>1. NoAction \in Action
  BY DEF NoAction, Action
<1>2. \A a \in Action : /\ Assistant(a) \in Message
                        /\ [Assistant(a) EXCEPT !.attempt = 0] = Assistant(a)
  BY DEF Assistant, Message
<1>3. \A c \in Contents : /\ Feedback(c) \in Message
                          /\ [Feedback(c) EXCEPT !.attempt = 0] = Feedback(c)
  BY <1>1 DEF Feedback, Message
<1>4. \A t \in Tools, n \in Nat, c \in Contents :
        /\ Observation(t, n, c) \in Message
        /\ [Observation(t, n, c) EXCEPT !.attempt = 0] = Observation(t, 0, c)
  BY <1>1 DEF Observation, Message
<1> QED
  BY <1>2, <1>3, <1>4

-----------------------------------------------------------------------------
(* One step per action: from an append, and from a call, on.               *)

LEMMA AppendReturnsControl ==
  ASSUME HistoryInv, AppendReturns
  PROVE  ControlInv'
<1>1. pc = "append" /\ mem' = Append(mem, buf)
  BY DEF AppendReturns, AppendDone
<1>2. CASE cont = "idle"
  BY <1>2, Left DEF AppendReturns
<1>3. CASE cont # "idle"
  <2>1. /\ pc' = cont /\ cont' = "idle"
        /\ UNCHANGED <<run, env, deadline, steps, calls, conv, act, todo>>
    BY <1>3 DEF AppendReturns
  <2>2. Here' = Here
    BY <2>1 DEF Here
  <2>3. Going(mem', pc', Here')
    BY <1>1, <1>3, <2>1, <2>2 DEF HistoryInv, ControlInv
  <2> QED
    BY <1>1, <1>3, <2>1, <2>3 DEF HistoryInv, ControlInv
<1> QED
  BY <1>2, <1>3

LEMMA AppendFailsControl ==
  ASSUME HistoryInv, KernelTypeOK', AppendRefused \/ AppendRaises
  PROVE  ControlInv'
<1>1. pc = "append" /\ mem' = mem
  BY DEF AppendRefused, AppendRaises, AppendFault, ledgerVars
<1>2. CASE Leave("raised")
  BY <1>2, Left
<1>3. CASE ~Leave("raised")
  <2>1. /\ buf.type # "run_started"
        /\ \E kind \in AnyException : Throw(kind)
    BY <1>3 DEF AppendRefused, AppendRaises, Unwind, AnyException
  <2> QED
    BY <1>1, <2>1, Thrown
<1> QED
  BY <1>2, <1>3

\* The event of a call is offered to a sound ledger, and the frame is the one
\* the ledger gives.
LEMMA EnteredControl ==
  ASSUME HistoryInv, KernelTypeOK', NEW r \in Runs, NEW v \in Envelopes,
         NEW callable, NEW approved \in BOOLEAN,
         RunStarted(r, v, callable) \/ RunResumed(r, v, callable, approved)
  PROVE  ControlInv'
<1>1. /\ mem \in Seq(Event) /\ buf' \in Event /\ Rehydrated(mem, r) \in Seq(Message)
  BY ReplayAppend
     DEF HistoryInv, KernelTypeOK, LedgerTypeOK, ControlTypeOK
<1>2. /\ pc' = "append" /\ cont' = "head" /\ run' = r /\ env' = v
      /\ steps' = StepsUsed(mem, r) /\ calls' = CallsUsed(mem, r)
      /\ conv' = Rehydrated(mem, r) /\ mem' = mem
  BY DEF RunStarted, RunResumed, EnterRun, Emit, ledgerVars
<1>3. Here' \in Frame
  BY <1>1, <1>2, HereFrame
<1>4. /\ buf'.run = r /\ buf'.type \in {"run_started", "run_resumed"}
      /\ ~Exists(mem, r) =>
           /\ buf'.type = "run_started" /\ buf'.env = v
           /\ buf'.deadline = deadline'
      /\ Exists(mem, r) =>
           /\ buf'.type = "run_resumed" /\ ~Completed(mem, r)
           /\ FirstOf(mem, r).env = v /\ FirstOf(mem, r).deadline = deadline'
           /\ Unresolved(mem, r) = {}
  <2>1. CASE RunStarted(r, v, callable)
    BY <2>1 DEF RunStarted, Emit, Blank
  <2>2. CASE RunResumed(r, v, callable, approved)
    BY <2>2 DEF RunResumed, Resumable, ResumeDeadline, Emit, Blank
  <2> QED
    BY <2>1, <2>2
<1>5. EventOK(mem, buf') /\ Offered(mem, buf')
  BY <1>4 DEF EventOK, Offered, EventTypes, Completed
<1>6. Unresolved(mem, r) = {}
  BY <1>4, NoCounts
<1> DEFINE e == buf'
           L == Append(mem, e)
<1>7. Framed(L, Here')
  BY <1>1, <1>2, <1>3, <1>4, HereIs, FramedEntry
<1>8. Unresolved(L, r) = {}
  BY <1>1, <1>4, <1>6, SettledAppend
<1>9. Rehydrated(L, r) = Rehydrated(mem, r)
  BY <1>1, <1>4, SilentAppend
<1>10. Going(L, "head", Here')
  BY <1>2, <1>7, <1>8, <1>9, HereIs, GoingRound
<1>11. Emit(buf', "head")
  BY <1>2 DEF Emit
<1> QED
  BY <1>1, <1>2, <1>4, <1>5, <1>10, <1>11, Emitted

LEMMA CallControl ==
  ASSUME HistoryInv, KernelTypeOK', Call
  PROVE  ControlInv'
<1> PICK r \in Runs, v \in Envelopes, callable \in BOOLEAN,
         approved \in BOOLEAN :
           \/ RunAnswered(r, v, approved)
           \/ RunStarted(r, v, callable)
           \/ RunResumed(r, v, callable, approved)
  BY DEF Call
<1>1. CASE RunAnswered(r, v, approved)
  BY <1>1 DEF RunAnswered, HistoryInv, ControlInv
<1> QED
  BY <1>1, EnteredControl

LEMMA LoopHeadControl ==
  ASSUME HistoryInv, KernelTypeOK', LoopHead
  PROVE  ControlInv'
<1>1. pc = "head" /\ mem' = mem
  BY DEF LoopHead, ledgerVars
<1>2. CASE Throw("run_blocked") \/ Throw("run_failed")
  BY <1>1, <1>2, Thrown DEF AnyException
<1>3. CASE ~(Throw("run_blocked") \/ Throw("run_failed"))
  <2> DEFINE e == Blank("model_started", run)
             L == Append(mem, e)
  <2>1. /\ Emit(e, "model") /\ steps < env.steps /\ steps' = steps + 1
        /\ UNCHANGED <<run, env, deadline, calls, conv, act, todo>>
    <3>1. /\ Emit(e, "model") /\ ~StepLimit /\ steps' = steps + 1
          /\ UNCHANGED <<run, env, deadline, calls, conv, act, todo>>
      BY <1>3 DEF LoopHead, Rest
    <3> QED
      BY <1>1, <3>1, AtPoint DEF StepLimit
  <2>2. e \in Event /\ e.type = "model_started" /\ e.run = run
    BY <1>1, AtPoint, BlankType DEF EventTypes, Blank
  <2>3. /\ Framed(mem, Here) /\ Unresolved(mem, run) = {}
        /\ Unnumbered(conv) = Unnumbered(Rehydrated(mem, run))
    BY <1>1, AtPoint, HereIs DEF Going, Batch, Settled, Replayed, Told
  <2>4. Here \in Frame /\ Here' \in Frame /\ mem \in Seq(Event) /\ run \in Runs
        /\ conv \in Seq(Message)
    BY <1>1, <2>1, AtPoint, HereFrame DEF Emit
  <2> HIDE DEF e
  <2>5. EventOK(mem, e)
    BY <2>2, <2>3, HereIs, PlainOK
  <2>6. Offered(mem, e)
    BY <2>1, <2>2, <2>3, <2>4, HereIs DEF Offered, Framed
  <2>7. Framed(L, Here')
    BY <2>1, <2>2, <2>3, <2>4, HereIs, FramedAppend
  <2>8. Unresolved(L, run) = {}
    BY <2>2, <2>3, <2>4, SettledAppend
  <2>9. Rehydrated(L, run) = Rehydrated(mem, run)
    BY <2>2, <2>4, SilentAppend
  <2>10. Going(L, "model", Here')
    BY <2>1, <2>3, <2>7, <2>8, <2>9, HereIs, GoingRound
  <2> QED
    BY <1>1, <2>1, <2>2, <2>4, <2>5, <2>6, <2>10, Emitted
<1> QED
  BY <1>2, <1>3

LEMMA ModelReturnsControl ==
  ASSUME HistoryInv, KernelTypeOK', NEW a \in ModelActions, ModelReturns(a)
  PROVE  ControlInv'
<1> DEFINE e == [Blank("model_action", run) EXCEPT !.action = a,
                                                   !.content = a.content]
           L == Append(mem, e)
           k == AfterAction(a)
<1>1. /\ pc = "model" /\ mem' = mem /\ act' = a /\ todo' = 0 /\ Emit(e, k)
      /\ UNCHANGED <<run, env, deadline, steps, calls, conv>>
  BY DEF ModelReturns, Rest, ledgerVars
<1>2. e \in Event
  BY <1>1, FilledType DEF HistoryInv
<1>3. e.type = "model_action" /\ e.run = run /\ e.action = a
  BY DEF Blank
<1>4. k \in {"reserve", "verify", "error", "delegate"} /\ a \in Action
  BY ActionFacts
<1>5. /\ Framed(mem, Here) /\ Unresolved(mem, run) = {}
      /\ Unnumbered(conv) = Unnumbered(Rehydrated(mem, run))
  BY <1>1, AtPoint, HereIs DEF Going, Batch, Settled, Replayed, Told
<1>6. /\ Here \in Frame /\ Here' \in Frame /\ mem \in Seq(Event) /\ run \in Runs
      /\ conv \in Seq(Message)
  BY <1>1, AtPoint, HereFrame DEF Emit
<1>7. /\ k = "reserve" => a.type \in {"tool_call", "tool_batch"}
      /\ k = "verify" => a.type = "answer"
  BY ActionFacts DEF AfterAction, ActionTypes
<1> HIDE DEF e, k
<1>8. EventOK(mem, e) /\ Offered(mem, e)
  BY <1>3, <1>5, <1>6, HereIs, PlainOK DEF Offered
<1>9. Framed(L, Here')
  BY <1>1, <1>2, <1>3, <1>5, <1>6, HereIs, FramedAppend
<1>10. Batch(L, k, Here')
  <2>1. Unresolved(L, run) = {}
    BY <1>2, <1>3, <1>5, <1>6, SettledAppend
  <2> QED
    BY <1>1, <1>4, <1>7, <2>1, HereIs DEF Batch, Settled
<1>11. Answered(L, k, Here')
  <2>1. k = "verify" => LastAnswerIs(L, run, a)
    BY <1>2, <1>3, <1>6, <1>7, AnswerAppend
  <2>2. LastOf(L, run) = e
    BY <1>2, <1>3, <1>6, EndsAppend
  <2> QED
    BY <1>1, <1>3, <1>4, <2>1, <2>2, HereIs DEF Answered
<1>12. Replayed(L, k, Here')
  <2>1. Speaks(e) /\ MessageOf(e) = Assistant(a)
    BY <1>3 DEF Speaks, MessageOf
  <2>2. Unnumbered(Rehydrated(L, run)) =
          Append(Unnumbered(Rehydrated(mem, run)), Assistant(a))
    BY <1>2, <1>3, <1>4, <1>6, <2>1, Utterances, SpokenAppend
  <2>3. ~Told(k, Here')
    BY <1>4 DEF Told
  <2> QED
    BY <1>1, <1>5, <2>2, <2>3, HereIs DEF Replayed
<1>13. Going(L, k, Here')
  BY <1>9, <1>10, <1>11, <1>12 DEF Going
<1> QED
  BY <1>1, <1>2, <1>3, <1>4, <1>6, <1>8, <1>13, Emitted

LEMMA DelegateControl ==
  ASSUME HistoryInv, KernelTypeOK', Delegate
  PROVE  ControlInv'
<1> DEFINE e == Blank("delegation_requested", run)
<1>1. pc = "delegate" /\ mem' = mem /\ Emit(e, "idle") /\ run' = run /\ conv' = conv
  BY DEF Delegate, Rest, ledgerVars
<1>2. e \in Event /\ e.type = "delegation_requested" /\ e.run = run
  BY <1>1, AtPoint, BlankType DEF EventTypes, Blank
<1>3. Framed(mem, Here) /\ run \in Runs /\ conv \in Seq(Message)
  BY <1>1, AtPoint DEF Going
<1> HIDE DEF e
<1>4. EventOK(mem, e) /\ Offered(mem, e)
  BY <1>2, <1>3, HereIs, PlainOK DEF Offered
<1> QED
  BY <1>1, <1>2, <1>3, <1>4, Emitted

-----------------------------------------------------------------------------
(* One step per action: the calls of tools.                                *)

LEMMA ReserveControl ==
  ASSUME HistoryInv, KernelTypeOK', NEW wellFormed, Reserve(wellFormed)
  PROVE  ControlInv'
<1>1. pc = "reserve" /\ mem' = mem
  BY DEF Reserve, ledgerVars
<1>2. CASE Throw("run_blocked") \/ Throw("run_failed")
  BY <1>1, <1>2, Thrown DEF AnyException
<1>3. CASE ~(Throw("run_blocked") \/ Throw("run_failed"))
  <2>1. /\ pc' = "attempt" /\ ReadOnlyRule /\ ~OverBudget
        /\ \A t \in Called : Permitted(env, t)
        /\ UNCHANGED <<cont, run, env, deadline, steps, calls, conv, act, todo>>
    BY <1>3 DEF Reserve, Rest
  <2>2. /\ Here' = Here /\ Here \in Frame /\ mem \in Seq(Event) /\ Sound(mem)
        /\ calls \in Nat /\ Len(act.calls) \in Nat /\ env.calls \in Nat
    BY <1>1, <2>1, AtPoint DEF Here
  <2>3. /\ Framed(mem, Here) /\ Unresolved(mem, run) = {}
        /\ act \in ModelActions /\ act.type \in {"tool_call", "tool_batch"}
        /\ Append(Unnumbered(conv), Assistant(act)) =
             Unnumbered(Rehydrated(mem, run))
    BY <1>1, AtPoint, HereIs
       DEF Going, Batch, Settled, Replayed, ActionTold
  <2>4. todo = 0
    BY <1>1 DEF HistoryInv, KernelTypeOK, Flow, At
  <2>5. Outstanding(mem, calls, calls, Here)
    BY <2>2, <2>3, HereIs, OutstandingEnds
  <2>6. /\ \A k \in DOMAIN act.calls : Permitted(env, act.calls[k])
        /\ act.type = "tool_batch" =>
             \A k \in DOMAIN act.calls : Effect[act.calls[k]] = "read"
    BY <2>1 DEF ReadOnlyRule, Called
  <2>7. calls - todo = calls /\ calls - todo + Len(act.calls) <= env.calls
    BY <2>1, <2>2, <2>4 DEF OverBudget
  <2>8. Batch(mem, "attempt", Here)
    BY <2>3, <2>5, <2>6, <2>7, HereIs DEF Batch, Settled
  <2>9. Answered(mem, "attempt", Here) /\ Replayed(mem, "attempt", Here)
    BY <2>3, HereIs DEF Answered, Replayed, Told
  <2>10. Going(mem', pc', Here')
    BY <1>1, <2>1, <2>2, <2>3, <2>8, <2>9 DEF Going
  <2> QED
    BY <2>1, <2>10 DEF HistoryInv, ControlInv
<1> QED
  BY <1>2, <1>3

LEMMA AttemptControl ==
  ASSUME HistoryInv, KernelTypeOK', Attempt
  PROVE  ControlInv'
<1> DEFINE n == calls + 1
           t == act.calls[todo + 1]
           e == [Blank("attempt_started", run) EXCEPT !.tool = t, !.attempt = n]
           k == IF todo + 1 = Len(act.calls) THEN "execute" ELSE "attempt"
           first == calls - todo
           L == Append(mem, e)
<1>1. /\ pc = "attempt" /\ mem' = mem /\ Emit(e, k) /\ calls' = calls + 1
      /\ todo' = IF todo + 1 = Len(act.calls) THEN 0 ELSE todo + 1
      /\ UNCHANGED <<run, env, deadline, steps, conv, act>>
  BY DEF Attempt, Rest, ledgerVars
<1>2. /\ mem \in Seq(Event) /\ Sound(mem) /\ Here \in Frame
      /\ Going(mem, "attempt", Here)
      /\ run \in Runs /\ conv \in Seq(Message) /\ calls \in Nat /\ todo \in Nat
      /\ env.calls \in Nat /\ Len(act.calls) \in Nat /\ act \in Action
      /\ \A m \in 1 .. Len(act.calls) : act.calls[m] \in Tools
  BY <1>1, AtPoint
<1>3. todo < Len(act.calls) /\ todo <= calls
  BY <1>1 DEF HistoryInv, KernelTypeOK, Flow, At
<1>4. todo + 1 \in 1 .. Len(act.calls) /\ t \in Tools /\ n \in Nat
      /\ first \in Nat
  BY <1>2, <1>3
<1>5. e \in Event
  BY <1>1, <1>4, FilledType DEF HistoryInv
<1>6. e.type = "attempt_started" /\ e.run = run /\ e.attempt = n /\ e.tool = t
  BY DEF Blank
<1>7. Here' \in Frame
  BY <1>1, <1>2, HereFrame DEF Emit
<1>8. /\ Framed(mem, Here)
      /\ act \in ModelActions /\ act.type \in {"tool_call", "tool_batch"}
      /\ act.type = "tool_batch" =>
           \A m \in DOMAIN act.calls : Effect[act.calls[m]] = "read"
      /\ \A m \in DOMAIN act.calls : Permitted(env, act.calls[m])
      /\ first + Len(act.calls) <= env.calls
      /\ Outstanding(mem, first, first, Here)
      /\ Append(Unnumbered(conv), Assistant(act)) =
           Unnumbered(Rehydrated(mem, run))
  BY <1>2, HereIs DEF Going, Batch, Replayed, ActionTold
<1>9. DOMAIN act.calls = 1 .. Len(act.calls)
  BY <1>2, LenProperties DEF Action
<1> HIDE DEF e, n, t
<1>10. EventOK(mem, e)
  <2>1. Exists(mem, run) /\ ~Completed(mem, run) /\ calls = CallsUsed(mem, run)
    BY <1>8, HereIs DEF Framed
  <2>2. ASSUME NEW i \in OfType(mem, run, "attempt_started")
        PROVE  mem[i].attempt # n
    <3>1. i \in DOMAIN mem /\ mem[i].type = "attempt_started" /\ mem[i].run = run
      BY DEF OfType, Own
    <3>2. mem[i].attempt <= calls /\ mem[i].attempt \in Nat
      BY <1>2, <2>1, <3>1, OwnPlaces DEF Sound, AttemptsNumbered, Event
    <3> QED
      BY <1>2, <3>2 DEF n
  <2> QED
    BY <1>6, <2>1, <2>2 DEF EventOK, EventTypes
<1>11. Offered(mem, e)
  <2>1. /\ calls = CallsUsed(mem, run) /\ env = FirstOf(mem, run).env
    BY <1>8, HereIs DEF Framed
  <2>2. calls < env.calls
    <3>1. /\ calls \in Nat /\ todo \in Nat /\ env.calls \in Nat
          /\ Len(act.calls) \in Nat
      BY <1>2
    <3>2. calls - todo + Len(act.calls) <= env.calls
      BY <1>8
    <3> QED
      BY <1>3, <3>1, <3>2
  <2>3. Permitted(env, t)
    BY <1>4, <1>8, <1>9 DEF t
  <2> QED
    BY <1>2, <1>6, <2>1, <2>2, <2>3 DEF Offered, n
<1>12. Framed(L, Here')
  <2>1. /\ Here'.run = Here.run /\ Here'.env = Here.env
        /\ Here'.deadline = Here.deadline /\ Here'.steps = Here.steps
        /\ Here'.calls = Here.calls + 1 /\ e.run = Here.run
        /\ e.type = "attempt_started"
    BY <1>1, <1>6, HereIs
  <2>2. e.type # "run_completed" /\ e.type # "model_started"
    BY <2>1
  <2> QED
    BY <1>2, <1>5, <1>7, <1>8, <2>1, <2>2, FramedAppend
<1>13. Outstanding(L, first, first, Here')
  <2>1. first = Here.calls - Here.todo
    BY HereIs
  <2> HIDE DEF first
  <2> QED
    BY <1>1, <1>2, <1>4, <1>5, <1>6, <1>7, <1>8, <2>1, HereIs,
       AttemptOutstanding DEF n, t
<1>14. Batch(L, k, Here')
  <2>1. CASE todo + 1 = Len(act.calls)
    <3>1. k = "execute" /\ todo' = 0
      BY <1>1, <2>1
    <3>2. calls' - Len(act.calls) = first
      <4>1. /\ calls \in Nat /\ todo \in Nat /\ Len(act.calls) \in Nat
            /\ calls' = calls + 1
        BY <1>1, <1>2
      <4> QED
        BY <2>1, <4>1
    <3>3. Before(Here') = first
      BY <1>1, <3>2, HereIs DEF Before
    <3> QED
      BY <1>1, <1>8, <1>13, <3>1, <3>3, HereIs DEF Batch, Settled
  <2>2. CASE todo + 1 # Len(act.calls)
    <3>1. k = "attempt" /\ calls' - todo' = first
      BY <1>1, <1>2, <2>2
    <3> QED
      BY <1>1, <1>8, <1>13, <3>1, HereIs DEF Batch, Settled
  <2> QED
    BY <2>1, <2>2
<1>15. Answered(L, k, Here') /\ Replayed(L, k, Here')
  <2>1. Rehydrated(L, run) = Rehydrated(mem, run)
    BY <1>2, <1>5, <1>6, SilentAppend
  <2>2. k \in {"attempt", "execute"}
    OBVIOUS
  <2> QED
    BY <1>1, <1>8, <2>1, <2>2, HereIs DEF Answered, Replayed, Told
<1>16. Going(L, k, Here')
  BY <1>12, <1>14, <1>15 DEF Going
<1>17. k \notin {"idle", "append"}
  OBVIOUS
<1> HIDE DEF k
<1> QED
  BY <1>1, <1>2, <1>5, <1>6, <1>10, <1>11, <1>16, <1>17, Emitted

\* A handler changes nothing that the ledger says of the run.
LEMMA HandlerControl ==
  ASSUME HistoryInv, HandlerApplies \/ HandlerReturns
  PROVE  ControlInv'
<1>1. /\ pc \in {"execute", "executed"} /\ mem' = mem
      /\ pc' \in {"executed", "observe"}
      /\ UNCHANGED <<cont, run, env, deadline, steps, calls, conv, act, todo>>
  BY DEF HandlerApplies, HandlerReturns, Goto, Rest, ledgerVars
<1>2. Here' = Here /\ Going(mem, pc, Here) /\ Here \in Frame
      /\ Len(act.calls) \in Nat /\ calls \in Nat
  BY <1>1, AtPoint DEF Here
<1>3. /\ Framed(mem, Here)
      /\ act \in ModelActions /\ act.type \in {"tool_call", "tool_batch"}
      /\ todo = 0 /\ Outstanding(mem, Before(Here), Before(Here), Here)
      /\ Append(Unnumbered(conv), Assistant(act)) =
           Unnumbered(Rehydrated(mem, run))
  BY <1>1, <1>2, HereIs DEF Going, Batch, Replayed, ActionTold
<1>4. Before(Here) + todo = Before(Here) /\ todo <= Len(act.calls)
  BY <1>2, <1>3, HereIs DEF Before
<1>5. Batch(mem, pc', Here)
  BY <1>1, <1>3, <1>4, HereIs DEF Batch, Settled
<1>6. Answered(mem, pc', Here) /\ Replayed(mem, pc', Here)
  BY <1>1, <1>3, HereIs DEF Answered, Replayed, Told
<1>7. Going(mem', pc', Here')
  BY <1>1, <1>2, <1>3, <1>5, <1>6 DEF Going
<1> QED
  BY <1>1, <1>7 DEF HistoryInv, ControlInv

LEMMA CallNumbers ==
  ASSUME NEW n \in Nat, NEW l \in Nat, NEW d \in Nat, d < l, l <= n
  PROVE  /\ n - l \in Nat /\ n - l + d \in Nat /\ n - l + d < n
         /\ n - l + d + 1 \in Nat
         /\ n - l + d + 1 - (n - l) = d + 1
         /\ n - l + (d + 1) = n - l + d + 1
         /\ d + 1 \in 1 .. l /\ d + 1 <= l /\ d + 1 > 0
OBVIOUS

LEMMA ObserveControl ==
  ASSUME HistoryInv, KernelTypeOK', NEW c \in Contents, Observe(c)
  PROVE  ControlInv'
<1> DEFINE t == act.calls[todo + 1]
           lo == calls - Len(act.calls) + todo
           first == calls - Len(act.calls)
           e == [Blank("tool_observation", run) EXCEPT
                   !.tool = t, !.attempt = AttemptNumber, !.content = c]
           m == Observation(t, 0, c)
           L == Append(mem, e)
<1>1. /\ pc = "observe" /\ mem' = mem /\ Emit(e, "observe") /\ todo' = todo + 1
      /\ todo < Len(act.calls)
      /\ conv' = (IF todo = 0 THEN Append(conv, Assistant(act)) ELSE conv)
                   \o <<m>>
      /\ UNCHANGED <<run, env, deadline, steps, calls, act>>
  BY DEF Observe, Rest, ledgerVars
<1>2. /\ mem \in Seq(Event) /\ Sound(mem) /\ Here \in Frame
      /\ Going(mem, "observe", Here)
      /\ run \in Runs /\ conv \in Seq(Message) /\ calls \in Nat /\ todo \in Nat
      /\ Len(act.calls) \in Nat /\ act \in Action
      /\ \A j \in 1 .. Len(act.calls) : act.calls[j] \in Tools
  BY <1>1, AtPoint
<1>3. Len(act.calls) <= calls
  BY <1>1 DEF HistoryInv, KernelTypeOK, Flow, At
<1>4. /\ t \in Tools /\ first \in Nat /\ lo \in Nat /\ lo < calls
      /\ lo + 1 \in Nat /\ AttemptNumber = lo + 1 /\ lo + 1 - first = todo + 1
      /\ first + todo = lo /\ first + (todo + 1) = lo + 1
      /\ todo + 1 <= Len(act.calls) /\ todo + 1 > 0
  <2>1. /\ todo < Len(act.calls) /\ Len(act.calls) <= calls
        /\ todo \in Nat /\ Len(act.calls) \in Nat /\ calls \in Nat
    BY <1>1, <1>2, <1>3
  <2>2. /\ first \in Nat /\ lo \in Nat /\ lo < calls
        /\ lo + 1 \in Nat /\ lo + 1 - first = todo + 1
        /\ first + (todo + 1) = lo + 1
        /\ todo + 1 \in 1 .. Len(act.calls)
        /\ todo + 1 <= Len(act.calls) /\ todo + 1 > 0
    BY <2>1, CallNumbers
  <2>3. AttemptNumber = lo + 1 /\ first + todo = lo
    BY <2>1 DEF AttemptNumber
  <2>4. t \in Tools
    BY <1>2, <2>2
  <2> QED
    BY <2>2, <2>3, <2>4
<1>5. e \in Event
  BY <1>1, <1>4, FilledType DEF HistoryInv
<1>6. /\ e.type = "tool_observation" /\ e.run = run
      /\ e.attempt = lo + 1 /\ e.tool = t /\ e.content = c
  BY <1>4 DEF Blank
<1>7. /\ m \in Message /\ Assistant(act) \in Message
      /\ Append(conv, Assistant(act)) \in Seq(Message)
  BY <1>2, <1>4, Utterances, AppendProperties
<1>8. conv' = Append(IF todo = 0 THEN Append(conv, Assistant(act)) ELSE conv, m)
  BY <1>1, <1>2, <1>7, AppendIsConcat
<1>9. conv' \in Seq(Message)
  BY <1>2, <1>7, <1>8, AppendProperties
<1>10. /\ Framed(mem, Here)
       /\ act \in ModelActions /\ act.type \in {"tool_call", "tool_batch"}
       /\ Outstanding(mem, first, lo, Here)
       /\ todo > 0 => Unnumbered(conv) = Unnumbered(Rehydrated(mem, run))
       /\ todo = 0 => Append(Unnumbered(conv), Assistant(act)) =
                        Unnumbered(Rehydrated(mem, run))
  BY <1>2, <1>4, HereIs DEF Going, Batch, Replayed, Told, ActionTold, Before
<1>11. Here' \in Frame
  BY <1>1, <1>9, HereFrame DEF Emit
<1> HIDE DEF e, lo, first, m, t
<1>12. Bound(mem, e) /\ Outstanding(L, first, lo + 1, Here')
  <2>1. e.tool = Here.act.calls[lo + 1 - first]
    BY <1>4, <1>6, HereIs DEF t
  <2> QED
    BY <1>1, <1>2, <1>4, <1>5, <1>6, <1>10, <1>11, <2>1, HereIs,
       ObserveOutstanding
<1>13. EventOK(mem, e) /\ Offered(mem, e)
  <2>1. Exists(mem, run) /\ ~Completed(mem, run)
    BY <1>10, HereIs DEF Framed
  <2> QED
    BY <1>2, <1>6, <1>12, <2>1 DEF EventOK, EventTypes, Offered
<1>14. Framed(L, Here')
  <2>1. /\ Here'.run = Here.run /\ Here'.env = Here.env
        /\ Here'.deadline = Here.deadline /\ Here'.steps = Here.steps
        /\ Here'.calls = Here.calls /\ e.run = Here.run
        /\ e.type \notin {"model_started", "attempt_started", "run_completed"}
    BY <1>1, <1>6, HereIs
  <2> QED
    BY <1>2, <1>5, <1>10, <1>11, <2>1, FramedAppend
<1>15. Batch(L, "observe", Here')
  <2>1. Before(Here') = first
    BY <1>1, HereIs DEF Before, first
  <2> QED
    BY <1>1, <1>4, <1>10, <1>12, <2>1, HereIs DEF Batch, Settled
<1>16. Replayed(L, "observe", Here')
  <2>1. Speaks(e) /\ m = [MessageOf(e) EXCEPT !.attempt = 0]
    <3>1. MessageOf(e) = Observation(t, lo + 1, c)
      BY <1>6 DEF MessageOf
    <3>2. [Observation(t, lo + 1, c) EXCEPT !.attempt = 0] = m
      BY <1>4, Utterances DEF m
    <3> QED
      BY <1>6, <3>1, <3>2 DEF Speaks
  <2>2. Unnumbered(Rehydrated(L, run)) =
          Append(Unnumbered(Rehydrated(mem, run)), m)
    BY <1>2, <1>5, <1>6, <2>1, SpokenAppend
  <2>3. [m EXCEPT !.attempt = 0] = m
    BY <1>4, Utterances DEF m
  <2>4. ~ActionTold("observe", Here')
    <3>1. todo' > 0 /\ todo' # 0
      BY <1>1, <1>2
    <3> QED
      BY <3>1, HereIs DEF Told, ActionTold
  <2>5. CASE todo = 0
    <3>1. Unnumbered(Append(conv, Assistant(act))) =
            Append(Unnumbered(conv), Assistant(act))
      BY <1>2, <1>7, Utterances, UnnumberedAppend
    <3>2. Unnumbered(conv') = Append(Unnumbered(Rehydrated(mem, run)), m)
      BY <1>7, <1>8, <1>10, <2>3, <2>5, <3>1, UnnumberedAppend
    <3> QED
      BY <1>1, <2>2, <2>4, <3>2, HereIs DEF Replayed
  <2>6. CASE todo # 0
    <3>1. Unnumbered(conv') = Append(Unnumbered(conv), m)
      BY <1>2, <1>7, <1>8, <2>3, <2>6, UnnumberedAppend
    <3>2. Unnumbered(conv) = Unnumbered(Rehydrated(mem, run))
      BY <1>2, <1>10, <2>6
    <3> QED
      BY <1>1, <2>2, <2>4, <3>1, <3>2, HereIs DEF Replayed
  <2> QED
    BY <2>5, <2>6
<1>17. Going(L, "observe", Here')
  BY <1>14, <1>15, <1>16 DEF Going, Answered
<1> QED
  BY <1>1, <1>2, <1>5, <1>6, <1>9, <1>13, <1>17, Emitted

LEMMA ObservedControl ==
  ASSUME HistoryInv, KernelTypeOK', Observed
  PROVE  ControlInv'
<1>1. pc = "observe" /\ todo = Len(act.calls) /\ mem' = mem
  BY DEF Observed, ledgerVars
<1>2. CASE Throw("run_failed")
  BY <1>1, <1>2, Thrown DEF AnyException
<1>3. CASE ~Throw("run_failed")
  <2>1. /\ pc' = "head"
        /\ UNCHANGED <<cont, run, env, deadline, steps, calls, conv, act, todo>>
    BY <1>3 DEF Observed, Goto, Rest
  <2>2. /\ Here' = Here /\ Here \in Frame /\ mem \in Seq(Event) /\ Sound(mem)
        /\ Going(mem, "observe", Here)
        /\ calls \in Nat /\ Len(act.calls) \in Nat
    BY <1>1, <2>1, AtPoint DEF Here
  <2>3. /\ Framed(mem, Here)
        /\ act \in ModelActions /\ act.type \in {"tool_call", "tool_batch"}
        /\ Outstanding(mem, Before(Here), Before(Here) + todo, Here)
        /\ todo > 0 => Unnumbered(conv) = Unnumbered(Rehydrated(mem, run))
    BY <2>2, HereIs DEF Going, Batch, Replayed, Told
  <2>4. Len(act.calls) > 0
    <3>1. AfterAction(act) = "reserve"
      BY <2>3 DEF AfterAction
    <3> QED
      BY <2>3, <3>1, ActionFacts
  <2>5. Before(Here) + todo = calls /\ Before(Here) \in Nat
    <3>1. Len(act.calls) <= calls
      BY <1>1 DEF HistoryInv, KernelTypeOK, Flow, At
    <3> QED
      BY <1>1, <2>2, <3>1, HereIs DEF Before
  <2>6. Unresolved(mem, run) = {}
    BY <2>2, <2>3, <2>5, HereIs, OutstandingEnds
  <2>7. Going(mem, "head", Here)
    BY <1>1, <2>2, <2>3, <2>4, <2>6, HereIs, GoingRound
  <2> QED
    BY <1>1, <2>1, <2>2, <2>7 DEF HistoryInv, ControlInv
<1> QED
  BY <1>2, <1>3

-----------------------------------------------------------------------------
(* One step per action: verification and completion.                       *)

LEMMA VerifyControl ==
  ASSUME HistoryInv, KernelTypeOK', NEW passed \in BOOLEAN, NEW c \in Contents,
         Verify(passed, c)
  PROVE  ControlInv'
<1> DEFINE e == [Blank("verification", run) EXCEPT !.passed = passed,
                                                   !.content = c]
           k == IF passed THEN "verified" ELSE "head"
           L == Append(mem, e)
<1>1. /\ pc = "verify" /\ mem' = mem /\ Emit(e, k)
      /\ conv' = IF passed THEN conv ELSE conv \o <<Assistant(act), Feedback(c)>>
      /\ UNCHANGED <<run, env, deadline, steps, calls, act, todo>>
  BY DEF Verify, Rest, ledgerVars
<1>2. /\ mem \in Seq(Event) /\ Here \in Frame /\ Going(mem, "verify", Here)
      /\ run \in Runs /\ conv \in Seq(Message) /\ act \in Action
  BY <1>1, AtPoint
<1>3. e \in Event
  BY <1>1, FilledType DEF HistoryInv
<1>4. e.type = "verification" /\ e.run = run /\ e.passed = passed /\ e.content = c
  BY DEF Blank
<1>5. /\ Framed(mem, Here) /\ Unresolved(mem, run) = {}
      /\ LastAnswerIs(mem, run, act)
      /\ LastOf(mem, run).type = "model_action" /\ LastOf(mem, run).action = act
      /\ Append(Unnumbered(conv), Assistant(act)) =
           Unnumbered(Rehydrated(mem, run))
  BY <1>2, HereIs
     DEF Going, Batch, Settled, Answered, Replayed, ActionTold
<1>6. /\ Assistant(act) \in Message /\ Feedback(c) \in Message
      /\ [Assistant(act) EXCEPT !.attempt = 0] = Assistant(act)
      /\ [Feedback(c) EXCEPT !.attempt = 0] = Feedback(c)
  BY <1>2, Utterances
<1>7. /\ Append(conv, Assistant(act)) \in Seq(Message)
      /\ Append(Append(conv, Assistant(act)), Feedback(c)) \in Seq(Message)
      /\ conv \o <<Assistant(act), Feedback(c)>> =
           Append(Append(conv, Assistant(act)), Feedback(c))
  BY <1>2, <1>6, AppendProperties
<1>8. conv' \in Seq(Message)
  BY <1>1, <1>2, <1>7
<1>9. Here' \in Frame
  BY <1>1, <1>8, HereFrame DEF Emit
<1> HIDE DEF e
<1>10. EventOK(mem, e) /\ Offered(mem, e)
  <2>1. Exists(mem, run) /\ ~Completed(mem, run)
    BY <1>5, HereIs DEF Framed
  <2>2. act.type = "answer"
    BY <1>5 DEF LastAnswerIs
  <2> QED
    BY <1>2, <1>4, <1>5, <2>1, <2>2 DEF EventOK, EventTypes, Offered
<1>11. Framed(L, Here')
  <2>1. /\ Here'.run = Here.run /\ Here'.env = Here.env
        /\ Here'.deadline = Here.deadline /\ Here'.steps = Here.steps
        /\ Here'.calls = Here.calls /\ e.run = Here.run
        /\ e.type \notin {"model_started", "attempt_started", "run_completed"}
    BY <1>1, <1>4, HereIs
  <2> QED
    BY <1>2, <1>3, <1>5, <1>9, <2>1, FramedAppend
<1>12. Unresolved(L, run) = {}
  BY <1>2, <1>3, <1>4, <1>5, SettledAppend
<1>13. Going(L, k, Here')
  <2>1. CASE passed
    <3>1. k = "verified"
      BY <2>1
    <3>2. Batch(L, "verified", Here')
      BY <1>1, <1>12, HereIs DEF Batch, Settled
    <3>3. LastOf(L, run) = e /\ LastAnswerIs(L, run, act)
      BY <1>2, <1>3, <1>4, <1>5, EndsAppend, AnswerAppend
    <3>4. Answered(L, "verified", Here')
      BY <1>1, <1>4, <2>1, <3>3, HereIs DEF Answered
    <3>5. Replayed(L, "verified", Here')
      BY DEF Replayed, Told, ActionTold
    <3> QED
      BY <1>11, <3>1, <3>2, <3>4, <3>5 DEF Going
  <2>2. CASE ~passed
    <3>1. k = "head" /\ conv' = Append(Append(conv, Assistant(act)), Feedback(c))
      BY <1>1, <1>7, <2>2
    <3>2. Speaks(e) /\ MessageOf(e) = Feedback(c)
      BY <1>4, <2>2 DEF Speaks, MessageOf
    <3>3. Unnumbered(Rehydrated(L, run)) =
            Append(Unnumbered(Rehydrated(mem, run)), Feedback(c))
      BY <1>2, <1>3, <1>4, <1>6, <3>2, SpokenAppend
    <3>4. /\ Unnumbered(Append(conv, Assistant(act))) =
               Append(Unnumbered(conv), Assistant(act))
          /\ Unnumbered(conv') =
               Append(Unnumbered(Append(conv, Assistant(act))), Feedback(c))
      BY <1>2, <1>6, <1>7, <3>1, UnnumberedAppend
    <3> QED
      BY <1>1, <1>5, <1>11, <1>12, <3>1, <3>3, <3>4, HereIs, GoingRound
  <2> QED
    BY <2>1, <2>2
<1>14. k \notin {"idle", "append"}
  OBVIOUS
<1> HIDE DEF k
<1> QED
  BY <1>1, <1>2, <1>3, <1>4, <1>8, <1>10, <1>13, <1>14, Emitted

LEMMA CompleteControl ==
  ASSUME HistoryInv, KernelTypeOK', Complete
  PROVE  ControlInv'
<1> DEFINE e == [Blank("run_completed", run) EXCEPT !.content = act.content]
<1>1. /\ pc = "verified" /\ mem' = mem /\ Emit(e, "idle")
      /\ run' = run /\ conv' = conv
  BY DEF Complete, Rest, ledgerVars
<1>2. /\ mem \in Seq(Event) /\ Going(mem, "verified", Here)
      /\ run \in Runs /\ conv \in Seq(Message)
  BY <1>1, AtPoint
<1>3. e \in Event
  BY <1>1, FilledType DEF HistoryInv
<1>4. e.type = "run_completed" /\ e.run = run /\ e.content = act.content
  BY DEF Blank
<1>5. /\ Exists(mem, run) /\ ~Completed(mem, run) /\ Unresolved(mem, run) = {}
      /\ LastAnswerIs(mem, run, act)
      /\ LastOf(mem, run).type = "verification" /\ LastOf(mem, run).passed
  BY <1>2, HereIs DEF Going, Framed, Batch, Settled, Answered
<1> HIDE DEF e
<1>6. EventOK(mem, e) /\ Offered(mem, e)
  BY <1>2, <1>4, <1>5, LastAnswerFound
     DEF EventOK, EventTypes, Completable, Offered
<1> QED
  BY <1>1, <1>2, <1>3, <1>4, <1>6, Emitted

LEMMA CallbackControl ==
  ASSUME HistoryInv, KernelTypeOK', NEW type \in AnyException,
         ModelRaises(type) \/ HandlerRaises(type) \/ VerifierRaises(type)
  PROVE  ControlInv'
BY Thrown DEF ModelRaises, HandlerRaises, VerifierRaises, ledgerVars

-----------------------------------------------------------------------------
(* The invariant is inductive.                                             *)

LEMMA ProgramControl ==
  ASSUME HistoryInv, KernelTypeOK', Program
  PROVE  ControlInv'
<1>1. CASE ModelReportsError
  BY <1>1, Thrown DEF ModelReportsError, AnyException, ledgerVars
<1> QED
  BY <1>1, AppendReturnsControl, AppendFailsControl, LoopHeadControl,
     ModelReturnsControl, DelegateControl, ReserveControl, AttemptControl,
     HandlerControl, ObserveControl, ObservedControl, VerifyControl,
     CallbackControl, CompleteControl DEF Program

LEMMA EnvironmentControl ==
  ASSUME HistoryInv, KernelTypeOK', Environment \/ UNCHANGED vars
  PROVE  ControlInv'
<1>1. CASE Call
  BY <1>1, CallControl
<1>2. CASE AppendRaises
  BY <1>2, AppendFailsControl
<1>3. CASE Interrupt \/ Crash
  BY <1>3, Left DEF Interrupt, Crash
<1>4. CASE Reopen
  BY <1>4 DEF Reopen, controlVars, HistoryInv, ControlInv
<1>5. CASE FileChanges \/ Tick \/ UNCHANGED vars
  <2>1. mem' = mem /\ UNCHANGED controlVars
    BY <1>5 DEF FileChanges, Disturb, Tick, vars, ledgerVars
  <2>2. /\ UNCHANGED <<pc, cont, buf, run, conv>> /\ Here' = Here
    BY <2>1 DEF controlVars, Here
  <2> QED
    BY <2>1, <2>2 DEF HistoryInv, ControlInv
<1> QED
  BY <1>1, <1>2, <1>3, <1>4, <1>5 DEF Environment

LEMMA HistoryInit == Init => HistoryInv
<1> SUFFICES ASSUME Init PROVE HistoryInv
  OBVIOUS
<1>1. KernelTypeOK
  BY TypeInit
<1>2. mem = <<>> /\ disk = <<>> /\ pc = "idle" /\ cont = "idle" /\ conv = <<>>
  BY DEF Init, LedgerInit
<1>3. SoundFile(<<>>)
  <2>1. Len(<<>>) = 0 /\ DOMAIN <<>> = {} /\ SubSeq(<<>>, 1, 0) = <<>>
    OBVIOUS
  <2>2. \A n \in 0 .. 0 : n = 0
    OBVIOUS
  <2> QED
    BY <2>1, <2>2, SoundEmpty DEF SoundFile
<1>4. FileInv
  BY <1>2, <1>3, SoundEmpty DEF FileInv
<1>5. ControlInv
  BY <1>2, EmptySeq DEF ControlInv
<1> QED
  BY <1>1, <1>4, <1>5 DEF HistoryInv

LEMMA HistoryStep ==
  ASSUME HistoryInv, Next \/ UNCHANGED vars
  PROVE  HistoryInv'
<1>1. KernelTypeOK'
  BY TypeStep DEF HistoryInv
<1>2. FileInv'
  BY LedgerSteps, FileStep
<1>3. ControlInv'
  BY <1>1, ProgramControl, EnvironmentControl DEF Next
<1> QED
  BY <1>1, <1>2, <1>3 DEF HistoryInv

THEOREM History == Spec => []HistoryInv
<1>1. Init => HistoryInv
  BY HistoryInit
<1>2. HistoryInv /\ [Next]_vars => HistoryInv'
  BY HistoryStep
<1> QED
  BY <1>1, <1>2, PTL DEF Spec

-----------------------------------------------------------------------------
(* What follows for every run, whatever crashes, failed writes and outside *)
(* changes of the file there are.                                          *)

\* TypeOK: every variable of the ledger and of the kernel has its type, the
\* conversation rebuilt by a resume included.
THEOREM TypesHold == Spec => []TypeOK
<1>1. HistoryInv => TypeOK
  BY DEF HistoryInv, KernelTypeOK, ControlInv, TypeOK
<1> QED
  BY <1>1, History, PTL

\* BudgetAcrossResumes: the steps and calls of a run, failed and interrupted
\* ones included, stay within the limits of its first envelope.
THEOREM BudgetKept == Spec => []BudgetAcrossResumes
<1>1. HistoryInv => BudgetAcrossResumes
  BY DEF HistoryInv, FileInv, Sound, WithinLimits, StepsUsed, CallsUsed,
         BudgetAcrossResumes
<1> QED
  BY <1>1, History, PTL

\* WithinEnvelope: every attempt was permitted by the envelope the run was
\* started with.
THEOREM EnvelopeKept == Spec => []WithinEnvelope
<1>1. HistoryInv => WithinEnvelope
  BY DEF HistoryInv, FileInv, Sound, AttemptsPermitted, WithinEnvelope
<1> QED
  BY <1>1, History, PTL

\* SelfAcceptance: the kernel never offers its own store an event the store
\* refuses.
THEOREM OffersAccepted == Spec => []SelfAcceptance
<1>1. HistoryInv => SelfAcceptance
  BY DEF HistoryInv, ControlInv, SelfAcceptance
<1> QED
  BY <1>1, History, PTL

\* ReplayMatchesLive: the counters and the conversation of the loop are those
\* a fresh replay of the ledger would give.
THEOREM ReplayFaithful == Spec => []ReplayMatchesLive
<1>1. HistoryInv => ReplayMatchesLive
  <2> SUFFICES ASSUME HistoryInv, pc \in {"head", "model"}
               PROVE  /\ Unnumbered(conv) = Unnumbered(Rehydrated(mem, run))
                      /\ steps = StepsUsed(mem, run)
                      /\ calls = CallsUsed(mem, run)
    BY DEF ReplayMatchesLive, StepsUsed, CallsUsed
  <2>1. Framed(mem, Here) /\ Replayed(mem, pc, Here)
    BY AtPoint DEF Going
  <2> QED
    BY <2>1, HereIs DEF Framed, Replayed, Told
<1> QED
  BY <1>1, History, PTL

\* NothingAfterCompletion: no event of a run follows its completion in the
\* file, torn and changed lines, other runs and reopened stores included.
THEOREM CompletionFinal == Spec => []NothingAfterCompletion
<1>1. HistoryInv => NothingAfterCompletion
  BY DEF HistoryInv, FileInv, SoundFile, NothingAfterCompletion
<1> QED
  BY <1>1, History, PTL

LEMMA ActionBuffered ==
  ASSUME Next \/ UNCHANGED vars, buf'.type = "model_action", buf' # buf
  PROVE  \E a \in ModelActions : ModelReturns(a)
<1>1. /\ \A kind \in AnyException : ~Throw(kind)
      /\ \A status : ~Leave(status)
  BY DEF Throw, Leave, Emit, Blank, AnyException, NoEvent
<1>2. ~UNCHANGED vars
  BY DEF vars, controlVars
<1>3. /\ ~AppendReturns /\ ~AppendRefused /\ ~AppendRaises
      /\ ~Interrupt /\ ~Crash
  BY <1>1 DEF AppendReturns, AppendRefused, AppendRaises, Interrupt, Crash,
     Unwind, AnyException, NoEvent, Blank
<1>4. /\ ~LoopHead /\ ~Delegate /\ ~ModelReportsError /\ ~Observed
      /\ \A wellFormed : ~Reserve(wellFormed)
  <2>1. ~Throw("run_blocked") /\ ~Throw("run_failed")
    BY <1>1 DEF AnyException
  <2>2. ~ModelReportsError
    BY <2>1 DEF ModelReportsError
  <2>3. ~Delegate
    BY DEF Delegate, Emit, Blank
  <2>4. ~LoopHead
    BY <2>1 DEF LoopHead, Emit, Blank
  <2>5. ~Observed
    BY <2>1 DEF Observed, Goto
  <2>6. \A wellFormed : ~Reserve(wellFormed)
    BY <2>1 DEF Reserve
  <2> QED
    BY <2>2, <2>3, <2>4, <2>5, <2>6
<1>5. \A kind \in AnyException :
        ~ModelRaises(kind) /\ ~HandlerRaises(kind) /\ ~VerifierRaises(kind)
  BY <1>1 DEF ModelRaises, HandlerRaises, VerifierRaises
<1>6. /\ ~Attempt /\ ~HandlerApplies /\ ~HandlerReturns /\ ~Complete
      /\ \A c : ~Observe(c)
      /\ \A passed, c : ~Verify(passed, c)
  BY DEF Attempt, HandlerApplies, HandlerReturns, Complete, Observe, Verify,
     Goto, Emit, Blank
<1>7. ~Reopen /\ ~FileChanges /\ ~Tick /\ ~Call
  <2>1. ~Reopen /\ ~FileChanges /\ ~Tick
    BY DEF Reopen, FileChanges, Tick, controlVars
  <2>2. \A r, v, b : ~RunStarted(r, v, b)
    BY DEF RunStarted, Emit, Blank
  <2>3. \A r, v, b, approved : ~RunResumed(r, v, b, approved)
    BY DEF RunResumed, Emit, Blank
  <2>4. \A r, v, approved : ~RunAnswered(r, v, approved)
    BY DEF RunAnswered
  <2> QED
    BY <2>1, <2>2, <2>3, <2>4 DEF Call
<1> QED
  BY <1>2, <1>3, <1>4, <1>5, <1>6, <1>7 DEF Next, Program, Environment

\* DeadlineNotReset: no model action enters the ledger after the deadline the
\* run was first started with.
THEOREM DeadlineKept == Spec => DeadlineNotReset
<1>1. HistoryInv /\ [Next]_vars =>
        [buf'.type = "model_action" /\ buf' # buf =>
           now < FirstOf(mem, run).deadline]_vars
  <2> SUFFICES ASSUME HistoryInv, Next \/ UNCHANGED vars,
                      buf'.type = "model_action", buf' # buf
               PROVE  now < FirstOf(mem, run).deadline
    OBVIOUS
  <2>1. pc = "model" /\ ~Late
    BY ActionBuffered DEF ModelReturns
  <2>2. deadline = FirstOf(mem, run).deadline
    BY <2>1, AtPoint, HereIs DEF Going, Framed
  <2>3. now \in Nat /\ deadline \in Nat
    BY DEF HistoryInv, KernelTypeOK, ControlTypeOK
  <2> QED
    BY <2>1, <2>2, <2>3 DEF Late
<1> QED
  BY <1>1, History, PTL DEF Spec, DeadlineNotReset

-----------------------------------------------------------------------------
(* What follows while every line written reads back as one line.           *)

\* AnswersFromIntactLedger: a completed result, fresh or cached, is returned
\* only while the file still is the ledger that holds it.
THEOREM AnswersIntact ==
  ASSUME CleanLines PROVE Spec => AnswersFromIntactLedger
<1>1. SafetyInv /\ [Next]_vars =>
        [result' # result /\ result'.status = "completed" => disk' = mem']_vars
  <2> SUFFICES ASSUME SafetyInv, Next \/ UNCHANGED vars,
                      result' # result, result'.status = "completed"
               PROVE  disk' = mem'
    OBVIOUS
  <2>1. CASE AppendReturns
    BY <2>1, DoneGrows DEF SafetyInv, AppendReturns
  <2>2. CASE Call
    <3>1. PICK r \in Runs, v \in Envelopes, callable \in BOOLEAN,
               approved \in BOOLEAN :
                 \/ RunAnswered(r, v, approved)
                 \/ RunStarted(r, v, callable)
                 \/ RunResumed(r, v, callable, approved)
      BY <2>2 DEF Call
    <3>2. RunAnswered(r, v, approved)
      BY <3>1 DEF RunStarted, RunResumed, EnterRun, NoResult
    <3>3. ~LedgerChanged
      BY <3>2 DEF RunAnswered
    <3> QED
      BY <3>2, <3>3 DEF RunAnswered, LedgerChanged, Synced, ledgerVars
  <2>3. /\ \A kind : ~Throw(kind)
        /\ ~Leave("raised") /\ ~Leave("none")
    BY DEF Throw, Leave
  <2>4. ~AppendRefused /\ ~AppendRaises /\ ~Interrupt /\ ~Crash
    BY <2>3 DEF AppendRefused, AppendRaises, Interrupt, Crash, Unwind
  <2>5. ~UNCHANGED vars /\ ~Reopen /\ ~FileChanges /\ ~Tick
    BY DEF vars, Reopen, FileChanges, Tick, controlVars
  <2>6. ~Program \/ AppendReturns
    BY <2>3, <2>4 DEF Program, LoopHead, ModelReturns, ModelRaises, Delegate,
       ModelReportsError, Reserve, Attempt, HandlerApplies, HandlerReturns,
       HandlerRaises, Observe, Observed, Verify, VerifierRaises, Complete, Goto
  <2> QED
    BY <2>1, <2>2, <2>4, <2>5, <2>6 DEF Next, Environment
<1> QED
  BY <1>1, Safety, PTL DEF Spec, AnswersFromIntactLedger

\* Between two appends the file is the ledger that run() knows.
SameFile == disturbances = 0 /\ pc \notin {"idle", "append"} => disk = mem

LEMMA SameFileStep ==
  ASSUME CleanLines, SafetyInv, SameFile, Next \/ UNCHANGED vars
  PROVE  SameFile'
<1> SUFFICES ASSUME disturbances' = 0, pc' \notin {"idle", "append"}
             PROVE  disk' = mem'
  BY DEF SameFile
<1>1. disturbances = 0 /\ LedgerInv
  BY LedgerSteps, FileGrows DEF SafetyInv
<1>2. CASE AppendReturns
  BY <1>1, <1>2, DoneGrows DEF AppendReturns
<1>3. /\ \A kind : ~Throw(kind)
      /\ \A status : ~Leave(status)
      /\ \A e, k : ~Emit(e, k)
  BY DEF Throw, Leave, Emit
<1>4. /\ ~AppendRefused /\ ~AppendRaises /\ ~Interrupt /\ ~Crash
      /\ \A r, v, b : ~RunStarted(r, v, b)
      /\ \A r, v, b, approved : ~RunResumed(r, v, b, approved)
  BY <1>3 DEF AppendRefused, AppendRaises, Interrupt, Crash, Unwind,
     RunStarted, RunResumed
<1>5. ASSUME UNCHANGED <<ledgerVars, pc>> \/ (UNCHANGED ledgerVars /\ pc \notin {"idle", "append"})
      PROVE  disk' = mem'
  BY <1>1, <1>5 DEF SameFile, ledgerVars
<1>6. CASE Program /\ ~AppendReturns
  <2>1. UNCHANGED ledgerVars /\ pc \notin {"idle", "append"}
    BY <1>3, <1>4, <1>6 DEF Program, LoopHead, ModelReturns, ModelRaises,
       Delegate, ModelReportsError, Reserve, Attempt, HandlerApplies,
       HandlerReturns, HandlerRaises, Observe, Observed, Verify,
       VerifierRaises, Complete
  <2> QED
    BY <1>5, <2>1
<1>7. CASE Environment
  <2>1. ~FileChanges
    BY <1>1 DEF FileChanges, Disturb
  <2>2. CASE Reopen
    BY <2>2 DEF Reopen, Open
  <2>3. CASE Tick
    BY <1>5, <2>3 DEF Tick, controlVars
  <2>4. CASE Call
    BY <1>4, <1>5, <2>4 DEF Call, RunAnswered
  <2> QED
    BY <1>4, <1>7, <2>1, <2>2, <2>3, <2>4 DEF Environment
<1>8. CASE UNCHANGED vars
  BY <1>5, <1>8 DEF vars, controlVars
<1> QED
  BY <1>2, <1>6, <1>7, <1>8 DEF Next

\* NoEffectWhileUnresolved: a mutating handler never runs while the outcome of
\* an earlier mutation of the run is unknown.
THEOREM EffectsResolved ==
  ASSUME CleanLines, MaxDisturbances = 0
  PROVE  Spec => NoEffectWhileUnresolved
<1> DEFINE Quiet == disturbances = 0 /\ SameFile
<1>1. Init => Quiet
  BY DEF Init, LedgerInit, SameFile
<1>2. SafetyInv /\ Quiet /\ [Next]_vars => Quiet'
  <2> SUFFICES ASSUME SafetyInv, Quiet, Next \/ UNCHANGED vars PROVE Quiet'
    OBVIOUS
  <2>1. LedgerStep
    BY LedgerSteps
  <2>2. disturbances' = 0
    BY <2>1 DEF LedgerStep, Disturb
  <2> QED
    BY <2>2, SameFileStep
<1>3. SafetyInv /\ HistoryInv /\ Quiet /\ [Next]_vars =>
        [effects' # effects => Cardinality(Unresolved(disk, run)) = 1]_vars
  <2> SUFFICES ASSUME SafetyInv, HistoryInv, Quiet, Next \/ UNCHANGED vars,
                      effects' # effects
               PROVE  Cardinality(Unresolved(disk, run)) = 1
    OBVIOUS
  <2>1. pc = "execute" /\ Mutates
    BY ControlSteps DEF HandlerApplies, HistoryInv
  <2>2. PICK k \in DOMAIN act.calls : Effect[act.calls[k]] # "read"
    BY <2>1 DEF Mutates, Called
  <2>3. mem \in Seq(Event) /\ Sound(mem) /\ Here \in Frame
        /\ Going(mem, "execute", Here)
    BY <2>1, AtPoint
  <2>4. Cardinality(Unresolved(mem, run)) = 1
    BY <2>2, <2>3, HereIs, OneUnresolved
  <2> QED
    BY <2>1, <2>4 DEF SameFile
<1> QED
  BY <1>1, <1>2, <1>3, Safety, History, PTL DEF Spec, NoEffectWhileUnresolved

=============================================================================
