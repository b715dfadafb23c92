-------------------------- MODULE ContextPipeline --------------------------
(***************************************************************************)
(* From documents to a prompt: select_semantic_candidates (semantic.py),   *)
(* the adapter that loads what was found, select_context and               *)
(* assemble_prompt (context.py).  The documents change between the calls.  *)
(*                                                                         *)
(* A digest that must match is represented by whether it does; content by  *)
(* its size; a document's manifest and its loaded artifact are two reads   *)
(* of the same record.                                                     *)
(***************************************************************************)
EXTENDS Integers, Sequences, FiniteSets, SequencesExt

CONSTANTS
  Library,          \* functions from artifact ids to documents with that id, or Absent
  Intents, Profiles, Embeddings,   \* access intents, read and embedding profiles
  Found,            \* sequences of [id, rev, chunk, group, score]: what a search returns
  Absent,
  NotANumber,       \* the score NaN
  TopScore,         \* the score 1.0
  Times, MaxDocumentChanges        \* bounds

\* Levels, limits and sizes are numbers; a search finds ids there may be.
ContextAssumption ==
  /\ \A i \in Intents : i.level \in Int /\ i.budget \in Int
  /\ \A q \in Profiles :
       /\ q.level \in Int /\ q.budget \in Nat /\ q.minimumScore \in Int
       /\ q.maxRecords \in Nat /\ q.maxCandidates \in Nat
       /\ q.tiers \in Seq(STRING)
  /\ \A e \in Embeddings \ {Absent} : e.minimumScore \in Int /\ e.maxCandidates \in Nat
  /\ \A lib \in Library :
       /\ IsFiniteSet(DOMAIN lib)
       /\ \A x \in DOMAIN lib : lib[x] # Absent =>
            lib[x].id = x /\ lib[x].level \in Int /\ lib[x].size \in Nat
  /\ \A found \in Found :
       /\ found \in Seq(ToSet(found))
       /\ \A i \in DOMAIN found :
            /\ found[i].score \in Int \cup {NotANumber}
            /\ \A lib \in Library : found[i].id \in DOMAIN lib
  /\ NotANumber \notin Int /\ TopScore \in Nat /\ MaxDocumentChanges \in Nat
ASSUME ContextAssumption

VARIABLES
  intent, profile, embedding,
  documents,
  candidates,   \* what select_semantic_candidates returned
  artifacts,    \* what the adapter loaded for it
  pack,         \* what select_context returned
  prompt,       \* what assemble_prompt returned
  contextStep, documentChanges

contextVars == <<intent, profile, embedding, documents, candidates, artifacts,
                 pack, prompt, contextStep, documentChanges>>

NoCandidates == [status |-> "none", chosen |-> <<>>, from |-> <<>>]
NoPack == [decision |-> "none", items |-> <<>>, sealed |-> <<>>, at |-> 0]

ContextInit ==
  /\ intent \in Intents /\ profile \in Profiles /\ embedding \in Embeddings
  /\ documents \in Library
  /\ candidates = NoCandidates
  /\ artifacts = <<>>
  /\ pack = NoPack
  /\ prompt = <<>>
  /\ contextStep = "search" /\ documentChanges = 0

Least(a, b) == IF a < b THEN a ELSE b
Most(a, b) == IF a > b THEN a ELSE b

\* The k-th member of a set of positions, and what a sequence has there.
Nth(S, k) == CHOOSE i \in S : Cardinality({j \in S : j <= i}) = k
Picked(q, S) == [k \in 1 .. Cardinality(S) |-> q[Nth(S, k)]]

-----------------------------------------------------------------------------
(* select_semantic_candidates().                                           *)

\* What must hold of the request before any candidate is looked at.
Retrievable ==
  /\ profile.semantic # "disabled"
  /\ embedding # Absent
  /\ Cardinality(intent.groups) > 1 => profile.crossGroup /\ embedding.crossGroup
  /\ embedding.group \in intent.groups \cap profile.groups
  /\ embedding.usable    \* profile and manifest active, current, validated, of one model
  /\ intent.purpose \in embedding.purposes

MinimumScore == Most(profile.minimumScore, embedding.minimumScore)
MaxCandidates == Least(profile.maxCandidates, embedding.maxCandidates)

Acceptable(c) ==
  /\ c.group = embedding.group
  /\ c.score # NotANumber
  /\ c.score \in 0 .. TopScore /\ c.score >= MinimumScore
  /\ <<c.id, c.rev, c.chunk>> \in embedding.indexed
  /\ documents[c.id] # Absent
  /\ c.id \in embedding.scope
  /\ LET d == documents[c.id]
     IN  /\ d.rev = c.rev /\ d.current /\ d.passed /\ ~d.secrets
         /\ d.level <= intent.level /\ d.level <= profile.level
         /\ d.level <= embedding.level
         /\ d.member     \* of the group, listed with this manifest and its digest

\* Seeded fault: the answer of the search is taken to be sorted.
KeptUnsorted(found) == {found}

\* sorted(key = score, reverse = True) keeps the order of equal scores; a
\* score that compares with nothing leaves an order nobody can predict.
Before(a, i, b, j) == a.score > b.score \/ (a.score = b.score /\ i < j)

Orders(found) ==
  {p \in [DOMAIN found -> DOMAIN found] :
     /\ IsInjective(p)
     /\ (\A i \in DOMAIN found : found[i].score # NotANumber) =>
          \A i, j \in DOMAIN found :
            i < j => Before(found[p[i]], p[i], found[p[j]], p[j])}

BestFirst(found) == {[i \in DOMAIN found |-> found[p[i]]] : p \in Orders(found)}

Keep(ordered) ==
  LET accepted == Picked(ordered, {i \in DOMAIN ordered : Acceptable(ordered[i])})
  IN  [k \in 1 .. Least(Len(accepted), MaxCandidates) |-> accepted[k]]

StatusOf(chosen) ==
  IF chosen # <<>> THEN "pass"
  ELSE IF intent.mode = "hybrid" /\ profile.exactFallback THEN "reduced"
  ELSE "blocked"

Search(found) ==
  /\ contextStep = "search"
  /\ IF intent.mode = "exact"
       THEN candidates' = [NoCandidates EXCEPT !.status =
              IF profile.semantic = "required" THEN "raised" ELSE "not_requested"]
       ELSE IF ~Retrievable THEN candidates' = [NoCandidates EXCEPT !.status = "raised"]
       ELSE \E ordered \in BestFirst(found) :
              candidates' = [status |-> StatusOf(Keep(ordered)), chosen |-> Keep(ordered),
                             from |-> found]
  /\ contextStep' = "load"
  /\ UNCHANGED <<intent, profile, embedding, documents, artifacts, pack, prompt,
                 documentChanges>>

\* The adapter reads the documents found or, for an exact request and after a
\* permitted fall back to one, the targets of the intent in any order.
Load ==
  /\ contextStep = "load" /\ candidates.status \notin {"raised", "blocked"}
  /\ \E ids \in IF candidates.status = "pass"
                  THEN {[i \in DOMAIN candidates.chosen |-> candidates.chosen[i].id]}
                  ELSE SetToSeqs(DOMAIN documents) :
       artifacts' = LET present == Picked(ids, {i \in DOMAIN ids : documents[ids[i]] # Absent})
                    IN  [i \in DOMAIN present |-> documents[present[i]]]
  /\ contextStep' = "select"
  /\ UNCHANGED <<intent, profile, embedding, documents, candidates, pack, prompt,
                 documentChanges>>

-----------------------------------------------------------------------------
(* select_context() and assemble_prompt().                                 *)

\* The first tier of the profile that the artifact has.
TierOf(a) ==
  profile.tiers[Nth({i \in DOMAIN profile.tiers : profile.tiers[i] \in a.tiers}, 1)]

TierAllowed(a) ==
  /\ \E t \in ToSet(profile.tiers) : t \in a.tiers
  /\ TierOf(a) = "raw" => profile.raw /\ intent.raw
  /\ TierOf(a) = "full_records" => profile.fullHistory /\ intent.fullHistory

FieldsAllowed(a) ==
  /\ a.fields # Absent
  /\ a.fields \cap (profile.denied \cup {"secrets", "credentials"}) = {}
  /\ profile.allowed # {} => a.fields \subseteq profile.allowed

Eligible(a, now) ==
  /\ a.type \in profile.types
  /\ a.passed /\ a.current
  /\ a.validated # Absent /\ now - a.validated \in 0 .. profile.maxAge
  /\ a.level <= Least(intent.level, profile.level)
  /\ TierAllowed(a) /\ FieldsAllowed(a)
  /\ a.intact

Sizes(items) ==
  LET used[n \in 0 .. Len(items)] == IF n = 0 THEN 0 ELSE used[n - 1] + items[n].size
  IN  used
SizeOf(items) == Sizes(items)[Len(items)]

Budget == Least(intent.budget, profile.budget)

\* Seeded fault: a budget once exceeded closes the pack.
FitsSoFar(items, a) == SizeOf(items) < Budget

Fits(items, a) == SizeOf(items) + a.size <= Budget

\* One turn of the loop over the artifacts.
Consider(items, a, now) ==
  IF /\ a.id \in intent.targets
     /\ \A item \in ToSet(items) : item.id # a.id
     /\ Len(items) < profile.maxRecords
     /\ Eligible(a, now)
     /\ Fits(items, a)
    THEN Append(items, [id |-> a.id, rev |-> a.rev, tier |-> TierOf(a), size |-> a.size])
    ELSE items

\* What is selected when n artifacts were considered.
Selected(now) ==
  LET items[n \in 0 .. Len(artifacts)] ==
        IF n = 0 THEN <<>> ELSE Consider(items[n - 1], artifacts[n], now)
  IN  items

Select(now) ==
  /\ contextStep = "select"
  /\ LET items == Selected(now)[Len(artifacts)]
     IN  pack' = IF ~(profile.active /\ intent.targets # {} /\ intent.currentOnly
                      /\ intent.purpose \in profile.purposes
                      /\ intent.operation \in profile.operations)
                   THEN [NoPack EXCEPT !.decision = "raised"]
                   ELSE [decision |-> IF items = <<>> THEN "blocked" ELSE "allow",
                         items |-> items, sealed |-> items, at |-> now]
  /\ contextStep' = "assemble"
  /\ UNCHANGED <<intent, profile, embedding, documents, candidates, artifacts,
                 prompt, documentChanges>>

\* The pack is frozen, its lists are not: the caller changes one.
Tamper ==
  /\ contextStep = "assemble" /\ pack.items # <<>>
  /\ documentChanges < MaxDocumentChanges
  /\ documentChanges' = documentChanges + 1
  /\ pack' \in {[pack EXCEPT !.items = Tail(@)],
                [pack EXCEPT !.items = @ \o @],
                [pack EXCEPT !.items[1].rev = @ + 1],
                [pack EXCEPT !.items[1].tier = "raw"]}
  /\ UNCHANGED <<intent, profile, embedding, documents, candidates, artifacts,
                 prompt, contextStep>>

\* Seeded fault: the decision alone lets a pack into a prompt.
UncheckedPack == pack.decision = "allow"

UsablePack == pack.decision = "allow" /\ pack.sealed = pack.items

Assemble ==
  /\ contextStep = "assemble"
  /\ prompt' = IF UsablePack THEN pack.items ELSE <<>>
  /\ contextStep' = "done"
  /\ UNCHANGED <<intent, profile, embedding, documents, candidates, artifacts,
                 pack, documentChanges>>

-----------------------------------------------------------------------------

\* Between search and load a document is revised, reclassified, validated
\* again, expired or removed.
ChangeDocuments ==
  /\ contextStep = "load" /\ documentChanges < MaxDocumentChanges
  /\ documents' \in Library \ {documents}
  /\ documentChanges' = documentChanges + 1
  /\ UNCHANGED <<intent, profile, embedding, candidates, artifacts, pack, prompt,
                 contextStep>>

ContextNext ==
  \/ \E found \in Found : Search(found)
  \/ Load
  \/ \E now \in Times : Select(now)
  \/ Tamper \/ Assemble \/ ChangeDocuments

ContextSpec == ContextInit /\ [][ContextNext]_contextVars

-----------------------------------------------------------------------------
(* Properties.                                                             *)

\* A prompt holds what intent and profile both allow of the artifacts as they
\* were loaded, each once and within both budgets; it leaves out an artifact
\* they allow only when no record or no byte is left for it.  A pack that was
\* changed after its selection is in no prompt.
PromptWithinPolicy ==
  prompt # <<>> =>
    /\ \A item \in ToSet(prompt) : \E a \in ToSet(artifacts) :
         /\ <<a.id, a.rev, a.size>> = <<item.id, item.rev, item.size>>
         /\ a.id \in intent.targets /\ Eligible(a, pack.at)
         /\ a.level <= intent.level /\ a.level <= profile.level
         /\ item.tier \in a.tiers
         /\ item.tier = "raw" => intent.raw /\ profile.raw
    /\ \A i, j \in DOMAIN prompt : prompt[i].id = prompt[j].id => i = j
    /\ Len(prompt) <= profile.maxRecords
    /\ SizeOf(prompt) <= intent.budget /\ SizeOf(prompt) <= profile.budget
    /\ \A a \in ToSet(artifacts) :
         \/ \E item \in ToSet(prompt) : item.id = a.id
         \/ a.id \notin intent.targets \/ ~Eligible(a, pack.at)
         \/ Len(prompt) = profile.maxRecords
         \/ SizeOf(prompt) + a.size > intent.budget
         \/ SizeOf(prompt) + a.size > profile.budget

\* No acceptable candidate has a higher score than one that was chosen, and one
\* is missing only when both limits leave no room for it.
Best(chosen, found) ==
  LET good == {i \in DOMAIN found :
                 /\ found[i].score >= profile.minimumScore
                 /\ found[i].score >= embedding.minimumScore
                 /\ Acceptable(found[i])}
  IN  /\ \A i \in good : \/ found[i] \in ToSet(chosen)
                         \/ /\ Len(chosen) \in {profile.maxCandidates, embedding.maxCandidates}
                            /\ \A c \in ToSet(chosen) : c.score >= found[i].score
      /\ Len(chosen) <= profile.maxCandidates /\ Len(chosen) <= embedding.maxCandidates

\* The candidates that select_semantic_candidates returns are the best of those
\* found, in whatever order the search gave them.  (With a score that is not a
\* number in the answer, no order is promised.)
BestCandidates ==
  /\ contextStep = "load" /\ documentChanges = 0
  /\ candidates.status \in {"pass", "reduced", "blocked"}
  /\ \A i \in DOMAIN candidates.from : candidates.from[i].score # NotANumber
  => Best(candidates.chosen, candidates.from)

=============================================================================
