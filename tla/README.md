# TRACE-GATE: formal models of the reference implementation

TLA+ modules for `src/trace_gate` (the Python reference implementation of the
TRACE-GATE framework), checked with TLC on small instances and proved about with
TLAPS.  The modules are translated from the code; documents and tests serve to
say what the code is meant to do.

## 1. The system

The package is a set of local, mostly synchronous adapters around an
application.  Nothing is distributed: the hard behaviour comes from crashes and
I/O errors between two durable writes, approved resumes of work that was done in
part, other writers of a file, the wall clock, retargeted links, and callers
that submit documents in any order.

| Component (source) | State | Operations | Interaction | Hard behaviour | What makes it correct |
|---|---|---|---|---|---|
| EventStore (`runtime.py` 158-242) | JSONL file, in-memory copy, head digest | open and validate, append, expected head | written only by `RunKernel.run` | torn, unterminated or unsynced lines, file changed or truncated behind the store | a published event is in the file and reads back; a loaded ledger is one the kernel could have written |
| ToolRegistry (`runtime.py` 37-130) | registered tools, mutation lock | preflight, execute, execute_batch | called by run(), calls handlers | timeout after the effect, handlers that raise | only permitted tools run; a mutation is never retried |
| RunKernel (`runtime.py` 245-423) | run, envelope, deadline, counters, conversation | run (start, resume, answer from the ledger) | model, verifier and handlers are callbacks | crash between an effect and its record, exceptions in callbacks, resumes that pass other limits | at-most-once mutation, budgets and deadline across resumes, terminal answers |
| AgentCoordinator (`multi_agent.py`) | scopes, tasks, reserved places, writer leases | register scope, delegate, complete, cancel parent, merge | called by an orchestrator, reads paths through links | expiry, cancellation and completion in any order, links retargeted while a writer runs | running writers are apart; a lease belongs to its running task; a merge finds every conflict |
| Migration transaction (`migration.py` 145-231, 258-290) | none of its own: the caller stores the value | transition, transaction_errors, cutover_errors | callers keep the value under compare-and-set | long sequences of failures, resumes and corrections; stale cutovers | evidence is kept, no stage is passed over, two partitions never write |
| Chunk-set packaging and restore (`migration_stream.py`, `migration_io.py`) | bundle and state directories: claim, parts, receipts, flock | pack_chunk_set, restore_chunk_set | both share claim_directory; restore and link restore share the staging flock | crash between any two file operations, resume, two processes | a completed bundle has every part; nothing is overwritten; failures are kept |
| Link restore (`migration_link_restore.py`, `migration_links.py`) | links in the staging directory, a state directory | restore_relative_links, descriptor_errors | runs after the regular restore under the same flock | link graph with chains and cycles; replay of a completed restore | links resolve inside the staging directory |
| Archive extraction (`migration_archive.py`) | a new directory | extract_verified | reads one archive file | an archive replaced while it is read, errors and losses of power between two members | a receipt stands for a whole tree of the approved manifest |
| Gate evaluation (`gates.py`) | none | evaluate_gate, evaluate_bound_gate | facts and evidence from observers, digests from a resolver | evidence that is old, replaced or rewritten; values of other types | authority rests on facts that were observed for this target, in time |
| Context and semantic selection (`context.py`, `semantic.py`) | none | select_semantic_candidates, select_context, assemble_prompt | an adapter loads what a search found | documents that change between the calls, budgets at their limit, a pack changed after selection | a prompt holds what intent and profile allow, and all of it that fits |
| Validation (`validation.py`) | none | JSON schema and field checks | used by all | - | - |

## 2. Modules

| Module | Models | Kind |
|---|---|---|
| `EventStore` | the ledger file, the copy in memory, validation, append and its failures | component |
| `RunKernel` | `run()`, preflight, execution; EXTENDS `EventStore` and composes the two | component, composition |
| `AgentCoordinator` | every method of the coordinator | component |
| `OwnershipTransfer` | what a migration promises: ownership and the right to write pass once | abstract specification |
| `MigrationTransaction` | `transition` with `transaction_errors`; implements `OwnershipTransfer` | component, refinement |
| `ClaimDirectory` | `claim_directory`, `write_json`, the flock, attempt receipts, and what kills and losses of power leave of a file | component |
| `PackChunkSet` | `pack_chunk_set`; EXTENDS `ClaimDirectory` and composes the two | component, composition |
| `RestoreStaging` | `restore_chunk_set` and `restore_relative_links` in one staging directory; EXTENDS `ClaimDirectory` and composes the three | component, composition |
| `LinkGraph` | `descriptor_errors`, and the order, making and checking of the links in `restore_relative_links` | component |
| `ArchiveExtraction` | `extract_verified` with the archive file, the destination and the power | component |
| `GateEvaluation` | `compare`, `evaluate_gate`, `evaluate_bound_gate` on evidence recorded earlier | component |
| `ContextPipeline` | `select_semantic_candidates`, `select_context`, `assemble_prompt` over changing documents | component, composition |
| `MCRunKernel`, `MCAgentCoordinator`, `MCMigrationTransaction`, `MCPackChunkSet`, `MCRestoreStaging`, `MCAdapters` | small instances for TLC | model checking |
| `Positions` | first, last and k-th member of a set of positions; induction and recursion up to a number | lemmas |
| `RunKernelProofs` | types, what a read of the ledger returns when it grows, durability and at-most-once effects | proofs |
| `RunKernelHistory` | the history in a ledger: budgets, envelope, replay, completion, deadline, answers | proofs |
| `AgentCoordinatorProofs` | separation of writers, leases, merges | proofs |
| `MigrationProofs` | evidence, stages and the refinement of `OwnershipTransfer` | proofs |
| `PackChunkSetProofs` | types; completed and returned bundles are whole, of one configuration, never overwritten; receipts are numbered apart | proofs |
| `RestoreStagingProofs` | receipts and answers of restores and link restores stay true; types | proofs |
| `AdapterProofs` | authority is backed; a receipt of an extraction stands for a whole tree; prompts keep to the policy, candidates are the best; accepted links can be restored | proofs |

A definition preceded by "Seeded fault" is not part of a model: it is a plausible
error of the code, kept beside the definition it would replace, under which the
properties named in `PROJECT.json` fail.

### EventStore and RunKernel

`disk` is the file as a reader parses it, one event per line; a line that does
not parse, or does not chain to the one before it, is `Garbled`.  The digest
chain is thereby represented by what it decides: two ledgers have the same head
exactly when they are the same sequence.  `mem` is `EventStore.events`; `up`
says a process holds the store.  `AppendDone` is an append to its end,
`AppendFault` one that raised, `CrashAppending` one in which the process died;
`Torn` says what the last two leave in the file: nothing, a torn line, a line
without its newline, or a whole line that was not published.

An action of `RunKernel` is what `run()` does from one append to the next: it
puts the event in `buf` and the control point that follows in `cont`.
`AppendReturns`, `AppendRefused` and `AppendRaises` end the append, the last two
through the `except` clauses (`Throw`, `Unwind`).  `Call` is an application that
calls `run()` with any run, envelope, verifier and approval.  `conv` is the
conversation, which a resume rebuilds from the ledger (`Rehydrated`).  `effects`
is history: the attempts whose mutating handler changed the world.

Left out: stores with `path=None`, ledgers of runtime version 1, the mutation
lock between kernels that share a registry (one invocation runs at a time), and
the interleaving inside `execute_batch`, whose reads do not interact.
The head passed as `expected_head` is kept by the application; `PinHead` says
whether it does.

### AgentCoordinator

A method is one action, as the class has no concurrency of its own; a method
that raises changes nothing.  `place` is what `path_identity` resolves a name
to at present, and `Retarget` changes it between two calls.  `reserved` is
`task_write_roots`, `holder` is the lease registry.

### OwnershipTransfer and MigrationTransaction

`value` is the transaction a caller stores; a step is a candidate `transition`
accepts.  `Next` enumerates the candidates of careless callers: any phase and
checkpoint, any write states, a history with a receipt more, lost, rewritten or
under a used identity, a cutover for any epoch, archive or evidence.  `recorded`
is history: every receipt any value held.  The identity of the transaction, its
plan and its scope are fixed; "failed" is checked as "blocked" is, which stands
for both; one package digest stands for the three a transaction may have by its
mode, and the tables `Required` and `Bound` say in which the modes differ.

### ClaimDirectory and PackChunkSet

`file` maps each name in each directory to what a reader makes of it: `"absent"`,
`"torn"` (short, or not JSON), `"bad"` (of full size with other bytes), or its
content.  The content of a claim, a part, a package-set or a completion receipt
is determined by the approved configuration (policy, inventory, source), so it is
represented by that configuration, and comparing digests is comparing
configurations; what an attempt receipt says is left out, that it exists is not.
`unsynced` are the files whose data a loss of power may take.  Entries of a
directory are assumed to survive it: `write_json` syncs the directory it writes
to, but `claim_directory` does not sync the parent of one that it makes
(migration_io.py:106), so that a whole bundle or state directory could go with
all that it holds, which is not modelled.

`Write` starts `write_json`, or the writing of a part, for a process: `Create`
(exclusive), `Fill` and `Sync` are its steps, `job` holds what is written and the
control point after it.  `Raise` is the `except` clause of `pack_chunk_set`,
which writes a failure receipt if the call has an attempt number; `End` is its
`finally`, which closes the lock.  `Fails` stands for an OSError, an interrupt,
a source that changed under the call, an exceeded budget and a lack of space, at
any point; `Killed` ends one process, `PowerLoss` all of them.  A replaced
`.partial` file is left out: no code of this version writes one.  A short part
costs one unit of `FailureBudget`.

A completed bundle is whole only while the power stays on (`CompletedIsWhole`):
a full part left unsynced by a call that died is reused by the next one and never
synced.  What holds even then is `ResultIsWhole`: a call that answers has read
every part back.

### RestoreStaging

The two adapters keep their receipts in state directories, which are those of
`ClaimDirectory` (`Dirs`; `LinkDirs` are those of link restores), and meet in one
staging directory: `staged`, its flock `stageLock`, `tree` with the blocks each
file holds, `links`.  `synced` says how much of a file a loss of power leaves.
`Call` lets any process use any state directory for any package, so a staging may
be continued by the restore of another package, and links may be asked for
before, during and after a restore: the receipt a link restore is given says
nothing of the staging, as it names no path.  `Shared` are the files that two
packages have in common, without which the first byte would tell them apart.

A call whose bundle is not complete ends before it claims anything.  The checks
of space and size are among the errors of `Fails`.  Directories stand and fall
with the files in them; links are numbered in the order the code computes, and
`verify_target` of a link is part of the verification of the tree, which nobody
changes under the flock: both are the subject of `LinkGraph`.

What a loss of power leaves of the staging is `PowerFails`.  `restore_chunk_set`
syncs the data of a file after each part, also of one it finds already written,
but neither the directory in which it makes the file nor the parent of the
staging, while its receipt is durable with its directory.  So every file may be
gone whatever was synced of it (`Survivors`), and so may the staging itself
(`StagingGone`); a file that was not synced to its end may also be left short or
with other bytes behind its synced beginning.  Links are taken in any number: the
code syncs the directory of a link that it makes but not of one that a resume
finds, and the model does not keep the two apart.

Hence `RestoreReceiptTrue` promises the whole tree when the receipt is written and
as long as the power stays on, and of a loss of power only that it takes a file
as a whole or leaves it whole: no part is short or foreign, which packaging cannot
promise, as it does not sync a part that it finds.  A restore and a link restore
that are called after the loss read the tree again (`AnswersFromTree`), whatever
receipts survived.  A link restore does not sync the files it reads:
`LinksOnWholeTree` and `LinkReceiptTrue` hold while the power stays on.

### LinkGraph

A path is the sequence of its components and `Target` is `target_path`: the raw
text taken component by component, each from a directory that is no link
(`Lexical` is where it has led after each).  The two recursive functions of the
code, `resolve` and `order`, both follow a link to what it leads to and stop at
what they met before; here `Chain` is the path they follow, `Ahead` how far they
go, and what they do with the links on it is said of all of them at once.
`Resolve` is one call of `resolve`, with `links` for its memory of earlier calls:
how deep a chain may be depends on it, and so on the order of the list
(`ChainsBounded` fails).  `Behind` is one call of `order`.

`Walk` is the operating system, which expands link texts as it meets them, for at
most `LongestWalk` steps: it follows `MaxFollow` links, and each adds its text, of
no more components than 1024 bytes can hold (`MaxText`).  `AcceptedRestores`
compares the two.  A row that records another kind or hash than its chain ends in
has `matches` FALSE.  Approvals, counts and the characters of a path are left out,
except that no component is empty, "." or ".." (`RelativePath`).

### ArchiveExtraction

An archive is the sequence of its members.  `CopyRest` ends the private copy: if
the file was replaced meanwhile the copy is `Mixed`, whose digest nobody
approved.  `Verifies` is everything that is checked of the copy before the
destination is made.  `tree` is the destination, `flushed` and `settled` what
of it a loss of power spares: data of files, and entries of directories.
`member_parent` syncs no parent of the directories it makes, so after a loss of
power files may be missing though a receipt was returned; none can be torn or
foreign.  Compression, sizes, names and header metadata are among the errors of
`Stop`.

### GateEvaluation

Values are a type and a number that orders the values of the type.  An observer
makes records, the resolver of digests knows them (`trusted`), the caller holds
a copy (`evidence`) that is replaced, rewritten or lost before it calls one of
the evaluators, with any facts, references, target and time.  As the evaluators
keep no state, one evaluation ends a behaviour.

### ContextPipeline

Search, load, select, assemble are the four calls; the adapter that loads is not
in `src` and reads the documents as they are then.  `BestFirst` is the sort: with
a score that is not a number its order is anyone's, as Python's is.  `items` is
what the caller can change in a frozen pack, `sealed` what its digest covers.
A digest of content that must match is a field that says whether it does.  The
lists of excluded candidates and artifacts are left out.

## 3. Runs

| Run | Instance | What it shows |
|---|---|---|
| `kernel_resume` | one run, three tools (read, write, destructive), two envelopes, one resume, a crash and one of an I/O error, an interrupt and a passed deadline; or (`OneFocus`) two runs in one ledger, undisturbed, that only answer, the first resumed at any point of the second | `TypeOK`, `PublishedIsReadable`, `IntentBeforeEffect`, `NoEffectWhileUnresolved`, `BudgetAcrossResumes`, `WithinEnvelope`, `SelfAcceptance`, `ReplayMatchesLive`, `NothingAfterCompletion`, `DeadlineNotReset` |
| `kernel_disturbed` | the file is truncated or changed, and one I/O error; the application pins the head | `AtMostOnce`, `AnswersFromIntactLedger`, and `Returns` under fairness |
| `agents` | three tasks, two keys, nested roots, one retargeted link | `TypeOK`, `WritersDisjoint`, `LeasesMatchWriters`, `MergeSound`, `DisjointAtDelegation`, `LeaseOnlyYielded` |
| `migration` | all eight stages, two kinds of evidence, up to three receipts | `TypeOK`, `NothingForgotten`, `CompletionCorrectsFailures`, `StageByStage`, `ImplementsTransfer` |
| `restore` | two processes, two packages of two files of two blocks, the first in common, two state directories for restores and one for links, two links, one error or kill, one loss of power | `TypeOK`, `RestoreReceiptTrue`, `LinksOnWholeTree`, `LinkReceiptTrue`, `AnswersFromTree` |
| `pack` | two processes, two configurations, two parts, two errors or kills, one loss of power | `TypeOK`, `CompletedIsWhole`, `OneConfiguration`, `OwnReceipt`, `ResultIsWhole`, `NothingOverwritten` |
| `adapters` | one of four adapters in each behaviour: three links over a tree of two directories and two files; two callers and seven archives, two stops or losses of power, one replacement; two references, two targets, two observations, one rewriting; two documents in five versions, three candidates in any order, one change | `AcceptedRestores`, `ReceiptIsTree`, `AuthorityIsBacked`, `PromptWithinPolicy`, `BestCandidates` |
| `link_chain` | the same links, chains of at most two | `ChainsBounded` fails: see findings |
| `separator_line`, `unterminated_line` | one answer, one fault | `PublishedIsReadable` fails: see findings |
| `acceptance_package` | two packages | `AcceptedPackage` fails: see findings |
| `pack_interrupted` | one process, one death | `ResumeCompletes` fails: see findings |

### Bounds

Every unbounded quantity has a named bound: `MaxFaults`, `MaxCrashes`,
`MaxDisturbances`, `MaxInterrupts`, `MaxResumes`, `MaxClock`, `MaxRetargets`,
`MaxReceipts`, `MaxEpoch`, and for the adapters `MaxAttempts` (the receipts a new
call may find), `MaxFaults` (errors and deaths) beside one loss of power, and
`MaxAfterLoss` (calls at once after it).

A crash beside one error, interrupt or passed deadline, and one resume, are enough
for every pair of a failure and a recovery in one run, a failed resume included;
two model steps and two calls let a budget be spent before and after a resume;
two runs are the fewest that share a ledger; three tasks are the fewest of which
one can lie between two in a merge and one can take over a key; three receipts
are a failure, its correction and a receipt of another kind; two processes are
the fewest that compete for the flock, two parts the fewest of which one can be
reused and one missing, and three attempts let a failed call and a failed resume
precede the one that completes.  In `restore`, two blocks
let a restore stop in the middle of a file; the two attempts that may be
found, and those under way, are a restore and a link restore, with calls that
died before their receipt in front of each; after the loss of power calls come
one at a time, as what is looked for then is what a later call makes of the files.
In `adapters`, `MaxDepth` and `MaxFollow` stand for 64 and 40: three links are the
fewest whose chain passes the first; texts have up to `MaxText` = 3 components, the
fewest that go through a link and back.  The four adapters share no state, so each
behaviour exercises one and leaves the others at rest.
What a bound of one might hide about the ledger, and three failures in one run, are
covered by the theorems, which hold for any number of each.

`CHECK_DEADLOCK FALSE` is set where the system may stop: a ledger that became
unreadable is never opened again, an aborted migration, or a completed and
activated one, accepts nothing more, an adapter takes no call after
`MaxAttempts`, and a gate or a prompt is the end of its behaviour.

### Fairness

`Returns` is checked under `WF_vars(Program)` alone: a process that lives goes
on, and a callback (model, handler, verifier) returns or raises, as `run()` calls
it synchronously and waits for it.  Nothing is assumed of callers, of the clock
or of failures.  `ResumeCompletes` supposes in addition an operator who resumes
whenever the process is idle (`OperatedSpec`): it is refuted even so.

## 4. Theorems

| Theorem | Statement | Assumptions beyond those of the constants |
|---|---|---|
| `TypesHold` | `TypeOK` of `RunKernel` | none |
| `Durable` | `PublishedIsReadable` | clean lines |
| `Intent` | `IntentBeforeEffect` | clean lines |
| `OnceUndisturbed` | `AtMostOnce` | clean lines, nobody else writes the file |
| `OncePinned` | `AtMostOnce` | the application pins the head |
| `BudgetKept`, `EnvelopeKept`, `DeadlineKept` | `BudgetAcrossResumes`, `WithinEnvelope`, `DeadlineNotReset` | none |
| `ReplayFaithful`, `OffersAccepted`, `CompletionFinal` | `ReplayMatchesLive`, `SelfAcceptance`, `NothingAfterCompletion` | none |
| `AnswersIntact` | `AnswersFromIntactLedger` | clean lines |
| `EffectsResolved` | `NoEffectWhileUnresolved` | clean lines, nobody else writes the file |
| `ReceiptStandsForTree` | `ReceiptIsTree` of `ArchiveExtraction` | none |
| `PromptsWithinPolicy`, `CandidatesAreBest` | `PromptWithinPolicy`, `BestCandidates` of `ContextPipeline` | none |
| `GateAuthority` | `AuthorityIsBacked` of `GateEvaluation` | none |
| `AcceptedRestorable` | `AcceptedRestores` of `LinkGraph` | none |
| `AgentTypes`, `SeparateWriters`, `LeasesOfWriters`, `LeasesYielded` | `TypeOK`, `WritersDisjoint`, `LeasesMatchWriters`, `LeaseOnlyYielded` of `AgentCoordinator` | none |
| `ApartWhenDelegated`, `MergesSound` | `DisjointAtDelegation`, `MergeSound` of `AgentCoordinator` | none |
| `MigrationTypes`, `KeepsEvidence`, `FailuresCorrected`, `NoStageSkipped` | `TypeOK`, `NothingForgotten`, `CompletionCorrectsFailures`, `StageByStage` of `MigrationTransaction` | none |
| `TransferImplemented`, `OneSideWrites` | `ImplementsTransfer`; `TransferInv` of `OwnershipTransfer` under the refinement | none |
| `CompletionMeansWhole`, `BundleOfOneConfiguration`, `ResultsAreWhole`, `NeverOverwritten` | `CompletedIsWhole`, `OneConfiguration`, `ResultIsWhole`, `NothingOverwritten` of `PackChunkSet` | none |
| `PackagingTypes`, `ReceiptsAreOwn` | `TypeOK`, `OwnReceipt` of `PackChunkSet` | none (processes and directories are finitely many) |
| `ReceiptsStayTrue`, `LinkedTreeWhole`, `LinkReceiptsStayTrue`, `AnswersAreTrue` | `RestoreReceiptTrue`, `LinksOnWholeTree`, `LinkReceiptTrue`, `AnswersFromTree` of `RestoreStaging` | none |
| `RestoringTypes` | `TypeOK` of `RestoreStaging` | none (processes and directories are finitely many) |

"Clean lines" (`CleanLines` in `RunKernelProofs`) says that no text holds a
character `str.splitlines` breaks lines at and that no write stops just before
its newline: the two findings show that it cannot be dropped.

*Types.*  The type invariant is not inductive alone: an action that reads
`act.calls[todo + 1]` or subtracts from `calls` needs to know the control point.
`Flow` adds what is known at each point, and `KernelTypeOK` is preserved action
by action.

*Effects.*  `AtMostOnce` speaks of the world only.  `SafetyInv` ties it to the
ledger: what is in memory is in the file (`LedgerInv`), a torn line is the last
one, each effect has its intent in the file (`Intended`), and at the point
before a handler runs its attempt is recorded and has had no effect
(`AttemptFresh`).  A new attempt is numbered by the attempts recorded, which are
the file's, so it differs from every one that had an effect.  `OncePinned`
replaces the file by the pinned head in the same argument (`PinnedInv`), so it
needs neither clean lines nor an undisturbed file.

*History.*  What the budgets, the envelope, the deadline and the replay promise
speaks of all that a ledger recorded, while the code keeps counters and a
conversation of its own.  `HistoryInv` ties the two: `Going` says for each control
point what the locals of `run()` are of the ledger in memory, and during an append
what they are of it with the event in the buffer, so that it is the same fact
before an append, after it, and after one that failed.  `Outstanding` says that
the calls of an act are numbered in order, recorded before they run and observed
after, and `SoundFile` says it of a file that a process may reopen.  The replayed
conversation is that of the events by rank (`Nth`), so that appending an event
extends it by one or leaves it.  Nothing is assumed of the file: a store opens
only on what validation accepts, and every fact is one about the accepted ledger.
TLC checked `HistoryInv`, on `kernel_resume` and on an instance with all faults of
writing and other writers, before it was proved.

*Writers.*  `CoordinatorInv` joins the types, the leases and the separation: a
lease passes on only if it is held by a running task, and a new task is compared
with the recorded places of the running ones, not with what their links mean now.

*Extraction.*  `ArchiveInv`: one caller at most makes and writes the destination,
as nobody gets past "make" once it is there; the files in it are those of the
members before the one the caller is at, with their approved bytes and flushed, so
a loss of power takes none of them; and a receipt is given when the root is
settled, which it stays.

*Gates.*  A receipt says nothing of how a record came to be trusted: `Vouched`
adds that what the resolver vouches for was observed, whatever the caller did to
its copy.  The rest is that `compare` passes only what meets the requirement.

*Selection.*  The loop of `select_context` and the sum of the sizes are recursive
functions up to the length of a list.  That such a function exists, and what holds
of its every step, is proved with the first number at which it would fail
(`UpTo`, `RecursionExists`): an induction over a set, as the library's is over an
operator.  `ConsiderSound` is one turn of the loop: what kept an artifact out, a
budget, a limit or its identity, keeps it out for good, as sizes are not negative
and nothing leaves the list.  `ContextInv` then says that what is sealed in a pack
is sound of the artifacts it was selected from.  For the candidates, an order of a
finite list leaves nothing out, a place is that of its rank, and an acceptable
candidate that is not kept has a rank beyond the limit, so that all that were kept
come before it.

*Links.*  `LinkInv` says that an accepted policy is sound (`LinksAccepted`), that
the links before the one a restore is at are there, and that a restore fails only
if a chain is beyond a limit.  It needs three facts of the graph.  A chain that
ends in an entry goes through k different links and never returns
(`ChainEnds`): one that came back to a link would not end.  So k is its length,
however far earlier calls had resolved it.  The order lists every link after the
one it leads to (`OrderedSound`), so what is further along a chain is there when a
link is made.  And the operating system arrives where the chain ends
(`WalkArrives`): along the text of one link (`FollowText`) every component but the
last is taken from a directory that is no link, where lexical removal of ".." and
a walk agree, and no parent of a directory is a link (`ParentIsNoLink`), so that
only a last component can name one; then along the chain, link by link, each at
most `MaxText` steps and one link more.  The recursive functions are treated as
those of the selection.  TLC checked `LinkInv` on an instance with fewer policies
before it was proved.

*Merges.*  `merge` compares each task with the first that holds a path;
`ConflictsFound` shows that this finds every conflict, as two tasks that agree
with the first agree with each other.  A report stays true because a completed
task is never completed again.  The coordinator keeps the dict of artifacts it was
given (multi_agent.py:128), so this is also said of callers that do not change it.

*Migration.*  `transition` is stateless, so what it promises over a history rests
on what each stored value satisfies: `MigrationInv` keeps the checks of
`transaction_errors` that later steps rely on and adds that nothing recorded is
missing.  A correction names a receipt before it of its kind; identities are
distinct, so it is the failed one.  For the refinement, `CheckpointMoves` shows
that the checkpoint stays or moves to the next stage: hence "planned" is left
once, and completion comes only from a held source.

*Packaging.*  `PackInv` says of each process that it holds the lock of the
directory it works in alone, what it may be writing and what it found before it
went on; of the files, that nothing of a configuration is there before its claim.
One process then works in a directory at a time, what it found stays
(`FilesKept`), and what appears is what the holder of the lock writes
(`FilesNew`).  A receipt whose name is taken is refused, so these need nothing of
the numbers.  `ReceiptsAreOwn` does: the receipts of a directory are numbered
without a gap, the number of the process that holds the lock is the next one until
its receipt is there, and receipts that are not synced exist all the same, so a
loss of power frees no number.  For the types, a number must be one a receipt can
have: each receipt is left by a call that had left none, so receipts and calls
that have left none are together at most `MaxAttempts` and the processes.

*Restore.*  `RestoreReceiptTrue` holds because the files of a receipt are also
safe as long as the power stays on: `Solid` says that they were synced in full,
which `Certify` may conclude as every file before the one a process is at was
flushed (`ProcInv`).  What a loss of power leaves of such a file is all of it or
nothing (`SurvivorFacts`); after the loss `Solid` is claimed of no receipt, and a
new receipt rests on what its call has certified alone (`HasCertified`).
A file that holds the data of a package is never changed, as a copy goes on only
from a beginning of its own data (`Extension`, `FileKept`): thus two packages in
one staging never both advance where they differ.  The flock is needed only
between a copy and its flush, so that what is synced is what was copied.  Its
types (`TypeInv`) count as those of the packaging do: receipts that exist (`Left`)
and calls that may still leave one (`Unspent`) are together at most `MaxAttempts`
and the processes, so a call that begins finds a number.  A refusal with the
staging locked goes on to write a receipt, and every end of a call leaves the
staging, so that only calls at work lock it; no file is longer than its package
says, as a copy adds one block at most and a loss of power puts at most one bad
block where a synced beginning ends.  TLC checked `TypeInv` on `restore` before it
was proved.

Only model-checked: liveness (`Returns`), as the prover does not reason about
fairness.  Every safety invariant and action property of the passing runs is a
theorem, and so is the refinement of the migration.

## 5. Findings

- `separator_line`: an answer with U+0085, U+2028 or U+2029 is written unescaped
  and the reader splits lines there: a published event cannot be read back.
- `unterminated_line`: a line without its newline is accepted on reload, and the
  next append joins it.
- `link_chain`: `TRACE-DM-MIGRATION.ko.md` limits chains to 64 links; the code
  counts from where a chain was resolved before, so a list that names its end
  first may be any length, and the same list reversed is refused.  `verify_target`
  and the operating system then fail when such links are restored.
- `acceptance_package`: `TRACE-DM-MIGRATION.ko.md` enters a cutover after
  confirming that the destination accepted this archive; the code compares the
  subject of no acceptance receipt in physical mode.
- `pack_interrupted`: `REFERENCE-IMPLEMENTATION.ko.md` provides an explicit
  resume after a partial failure; a first call that dies between `mkdir` and the
  durable claim leaves a directory a fresh call refuses because it exists and a
  resume refuses because it has no claim.

## 6. Not modelled

- Schema and field validation (`validation.py`): JSON Schema and field-by-field
  comparisons of one document, with no state and nothing to interleave; the
  models take documents that passed it.
- The command-line scripts: they read files and print results.
- Of `migration.py`, the functions that check one document by itself
  (`plan_errors`, `package_errors`, `relocation_errors`, `compensation_errors`).
- The mutation lock of `ToolRegistry`: one invocation of `run()` at a time.

## 7. Plan

1. Done: `EventStore`, `RunKernel`, `AgentCoordinator`, `OwnershipTransfer`,
   `MigrationTransaction`, `ClaimDirectory`, `PackChunkSet`, `RestoreStaging`,
   `LinkGraph`, `ArchiveExtraction`, `GateEvaluation`, `ContextPipeline`, and the
   proofs above.
2. Two kernels that share a registry, with its mutation lock.
