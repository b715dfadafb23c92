--------------------------- MODULE GateEvaluation ---------------------------
(***************************************************************************)
(* evaluate_gate and evaluate_bound_gate of gates.py, called with facts    *)
(* and with evidence that was recorded before: other facts, another time, and  *)
(* records that were replaced or rewritten meanwhile.                      *)
(*                                                                         *)
(* A value is a type and a number that orders the values of that type;     *)
(* "int" and "float" are numbers.  Digests are represented by what they    *)
(* are digests of.  A target stands for the run, the subject revision and  *)
(* the gate that a record is bound to.                                     *)
(***************************************************************************)
EXTENDS Integers, FiniteSets

CONSTANTS
  Keys,            \* what policies require
  Values,          \* [type, num]: what facts say
  Requirements,    \* functions from Keys to [op, value]: policies
  FactSets,        \* functions from Keys to Values and None
  Refs,            \* evidence references
  Targets,
  None,            \* a fact, record or target that there is not
  MaxAge,          \* max_age_seconds
  Validity,        \* time from observed_at to expires_at
  MaxTime, MaxObservations, MaxRewrites   \* bounds

ASSUME GateAssumption ==
  /\ None \notin Values /\ Values \subseteq [type : STRING, num : Int]
  /\ Requirements \subseteq
       [Keys -> [op : {"==", "!=", ">=", "<=", ">", "<"},
                 value : [type : STRING, num : Int]]]
  /\ FactSets \subseteq [Keys -> Values \cup {None}]
  /\ [k \in Keys |-> None] \in FactSets
  /\ MaxAge \in Nat \ {0} /\ Validity \in Nat
  /\ MaxTime \in Nat /\ MaxObservations \in Nat /\ MaxRewrites \in Nat

Record == [facts : FactSets, target : Targets, observed : Int, expires : Int,
           passed : BOOLEAN]

Receipt == [status : {"none", "raised", "pass", "fail", "blocked"},
            bound : BOOLEAN, authority : BOOLEAN, facts : FactSets,
            refs : SUBSET Refs, target : Targets \cup {None}, at : Int]

Unevaluated == [status |-> "none", bound |-> FALSE, authority |-> FALSE,
                facts |-> [k \in Keys |-> None], refs |-> {}, target |-> None,
                at |-> 0]

VARIABLES
  requirement,   \* policy["required"]
  evidence,      \* the records as the caller holds them
  trusted,       \* the records whose digests the resolver vouches for
  observations,  \* history: reference and record of every observation made
  receipt,       \* what the last evaluation returned
  rewrites

gateVars == <<requirement, evidence, trusted, observations, receipt, rewrites>>

GateTypeOK ==
  /\ requirement \in Requirements
  /\ evidence \in [Refs -> Record \cup {None}]
  /\ trusted \in [Refs -> Record \cup {None}]
  /\ observations \subseteq Refs \X Record
  /\ receipt \in Receipt
  /\ rewrites \in Nat

GateInit ==
  /\ requirement \in Requirements
  /\ evidence = [r \in Refs |-> None] /\ trusted = evidence
  /\ observations = {}
  /\ receipt = Unevaluated
  /\ rewrites = 0

-----------------------------------------------------------------------------
(* compare().                                                              *)

Numbers == {"int", "float"}

\* Seeded fault: a boolean is taken for the integer it is in Python.
CompatibleAsInstance(actual, expected) ==
  IF expected.type \in Numbers THEN actual.type \in Numbers \cup {"bool"}
                               ELSE actual.type = expected.type

Compatible(actual, expected) ==
  IF expected.type \in Numbers THEN actual.type \in Numbers
                               ELSE actual.type = expected.type

\* Values without an order raise TypeError, which does not pass.
Compare(actual, req) ==
  /\ Compatible(actual, req.value)
  /\ LET a == actual.num
         b == req.value.num
     IN  \/ req.op = "==" /\ a = b
         \/ req.op = "!=" /\ a # b
         \/ /\ req.value.type # "null"
            /\ \/ req.op = ">=" /\ a >= b
               \/ req.op = "<=" /\ a <= b
               \/ req.op = ">" /\ a > b
               \/ req.op = "<" /\ a < b

-----------------------------------------------------------------------------
(* evaluate_gate().                                                        *)

Missing(facts) == {k \in Keys : facts[k] = None}

Status(facts, refs) ==
  IF Missing(facts) # {} \/ refs = {} THEN "blocked"
  ELSE IF \A k \in Keys : Compare(facts[k], requirement[k]) THEN "pass"
  ELSE "fail"

Issue(bound, facts, refs, target, at) ==
  LET status == Status(facts, refs)
  IN  [status |-> status, bound |-> bound, authority |-> status = "pass",
       facts |-> facts, refs |-> refs, target |-> target, at |-> at]

EvaluateGate(facts, refs, at) ==
  /\ receipt' = Issue(FALSE, facts, refs, None, at)
  /\ UNCHANGED <<requirement, evidence, trusted, observations, rewrites>>

-----------------------------------------------------------------------------
(* evaluate_bound_gate().                                                  *)

Held(records) == {r \in Refs : records[r] # None}

\* Seeded fault: a record is trusted by its reference alone.
BacksByReference(r, facts, target, at) ==
  /\ evidence[r].target = target /\ evidence[r].facts = facts
  /\ at - evidence[r].observed \in 0 .. MaxAge
  /\ at < evidence[r].expires
  /\ evidence[r].passed

Backs(r, facts, target, at) ==
  /\ evidence[r] = trusted[r]
  /\ evidence[r].target = target /\ evidence[r].facts = facts
  /\ at - evidence[r].observed \in 0 .. MaxAge
  /\ at < evidence[r].expires
  /\ evidence[r].passed

\* The caller says what the receipt is for, and at which time.
EvaluateBoundGate(facts, refs, target, at) ==
  /\ receipt' = IF /\ refs # {} /\ refs = Held(evidence) /\ refs = Held(trusted)
                   /\ \A r \in refs : Backs(r, facts, target, at)
                  THEN Issue(TRUE, facts, refs, target, at)
                  ELSE [Unevaluated EXCEPT !.status = "raised"]
  /\ UNCHANGED <<requirement, evidence, trusted, observations, rewrites>>

-----------------------------------------------------------------------------
(* What happens before the evaluation.                                     *)

\* An observer makes a record, and the resolver knows it from then on; a
\* record made before for the same reference is replaced in both.
MakeObservation(r, record) ==
  /\ Cardinality(observations) < MaxObservations
  /\ evidence' = [evidence EXCEPT ![r] = record]
  /\ trusted' = [trusted EXCEPT ![r] = record]
  /\ observations' = observations \cup {<<r, record>>}
  /\ UNCHANGED <<requirement, receipt, rewrites>>

\* The record that the caller will pass is changed, or gets lost.
RewriteRecord(r) ==
  /\ rewrites < MaxRewrites /\ evidence[r] # None
  /\ rewrites' = rewrites + 1
  /\ evidence' \in
       {[evidence EXCEPT ![r] = None]} \cup
       {[evidence EXCEPT ![r].facts = f] : f \in FactSets} \cup
       {[evidence EXCEPT ![r].target = t] : t \in Targets} \cup
       {[evidence EXCEPT ![r].observed = n, ![r].expires = n + Validity] : n \in 0 .. MaxTime} \cup
       {[evidence EXCEPT ![r].passed = TRUE]}
  /\ UNCHANGED <<requirement, trusted, observations, receipt>>

\* The evaluators keep no state: one evaluation, made at any moment, ends it.
GateNext ==
  /\ receipt.status = "none"
  /\ \/ \E f \in FactSets, rs \in SUBSET Refs, at \in 0 .. MaxTime :
          \/ EvaluateGate(f, rs, at)
          \/ \E t \in Targets : EvaluateBoundGate(f, rs, t, at)
     \/ \E r \in Refs, f \in FactSets, t \in Targets, n \in 0 .. MaxTime, p \in BOOLEAN :
          MakeObservation(r, [facts |-> f, target |-> t, observed |-> n,
                              expires |-> n + Validity, passed |-> p])
     \/ \E r \in Refs : RewriteRecord(r)

GateSpec == GateInit /\ [][GateNext]_gateVars

-----------------------------------------------------------------------------
(* Properties.                                                             *)

\* What a requirement means: a number is compared with numbers, a truth value
\* with truth values, and what cannot be compared is not met.
Meets(v, req) ==
  /\ v # None
  /\ v.type = req.value.type \/ {v.type, req.value.type} \subseteq {"int", "float"}
  /\ v.num < req.value.num => req.op \in {"<", "<=", "!="}
  /\ v.num > req.value.num => req.op \in {">", ">=", "!="}
  /\ v.num = req.value.num => req.op \in {"==", ">=", "<="}

\* Authority is given for facts that meet every requirement; a bound gate
\* gives it for these facts and this target only if each reference was
\* observed, as passed, within the age limit and before it expired, whatever
\* became of the records between the observation and the evaluation.
AuthorityIsBacked ==
  receipt.authority =>
    /\ receipt.refs # {}
    /\ \A k \in Keys : Meets(receipt.facts[k], requirement[k])
    /\ receipt.bound =>
         \A r \in receipt.refs : \E o \in observations :
           /\ o[1] = r /\ o[2].passed
           /\ o[2].facts = receipt.facts /\ o[2].target = receipt.target
           /\ o[2].observed <= receipt.at /\ receipt.at <= o[2].observed + MaxAge
           /\ receipt.at < o[2].expires

=============================================================================
