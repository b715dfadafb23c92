-------------------------- MODULE ArchiveExtraction --------------------------
(***************************************************************************)
(* extract_verified of migration_archive.py: an approved archive is copied *)
(* to a private snapshot, the snapshot is verified, and its members are    *)
(* written to a new directory.                                             *)
(*                                                                         *)
(* An archive is the sequence of its members; digests are represented by   *)
(* what they are digests of.  The bounds on sizes and names, and the       *)
(* metadata of a header, are among the errors of Stops.                    *)
(***************************************************************************)
EXTENDS Naturals, Sequences, FiniteSets

CONSTANTS
  Callers,      \* processes that extract
  Archives,     \* sequences of [path, dir, data]: what the archive file may hold
  Listing,      \* manifest -> the paths of files it lists -> their data
  ManifestPath, \* TRACE-DM-MANIFEST.json
  MaxStops,     \* bound: errors, kills and losses of power
  MaxChanges    \* bound: replacements of the archive file

Mixed == <<>>          \* the archive changed while it was read
Root == <<>>            \* the destination itself
IsDirectory == "directory"   \* what a directory has in the place of data
Torn == "torn"

ASSUME ArchiveAssumption ==
  /\ MaxStops \in Nat /\ MaxChanges \in Nat /\ Mixed \notin Archives
  /\ \A a \in Archives : a \in Seq([path : Seq(STRING), dir : BOOLEAN,
                                    data : STRING \ {IsDirectory}])

Manifests == DOMAIN Listing

VARIABLES
  archiveFile,  \* the archive at its path
  approved,     \* the archive and the manifest whose digests were approved
  extractor,    \* caller -> control point
  snapshot,     \* caller -> what it read, or Mixed
  member,       \* caller -> position of the member it is at
  receipts,     \* the callers a receipt was returned to
  tree,         \* paths in the destination, with the data of files
  flushed,      \* files whose data survives a loss of power
  settled,      \* paths whose directory entry survives a loss of power
  powerLost,    \* there was a loss of power
  stops, changes

callVars == <<extractor, snapshot, member, receipts>>
destinationVars == <<tree, flushed, settled, powerLost>>
archiveVars == <<archiveFile, approved, callVars, destinationVars, stops, changes>>

Above(path) == {SubSeq(path, 1, n) : n \in 1 .. Len(path) - 1}
Up(path) == SubSeq(path, 1, Len(path) - 1)

ArchiveInit ==
  /\ approved \in [archive : Archives, manifest : Manifests]
  /\ archiveFile \in {approved.archive} \cup {CHOOSE a \in Archives : TRUE}
  /\ extractor = [p \in Callers |-> "idle"]
  /\ snapshot = [p \in Callers |-> Mixed]
  /\ member = [p \in Callers |-> 1]
  /\ receipts = {}
  /\ tree = [q \in {} |-> Torn] /\ flushed = {} /\ settled = {}
  /\ powerLost = FALSE /\ stops = 0 /\ changes = 0

-----------------------------------------------------------------------------
(* What is verified of the snapshot before anything is written.            *)

Paths(a) == {a[i].path : i \in DOMAIN a}
FilesIn(a) == {a[i].path : i \in {j \in DOMAIN a : ~a[j].dir}}

\* scan()
WellFormed(a) ==
  /\ Cardinality(Paths(a)) = Len(a)
  /\ \A q \in Paths(a) : Above(q) \cap FilesIn(a) = {}

\* Seeded fault: files that the manifest lists may be missing.
CoveredBy(a, manifest) ==
  FilesIn(a) \ {ManifestPath} \subseteq DOMAIN Listing[manifest]

\* The files are those of the manifest.
Covers(a, manifest) == FilesIn(a) \ {ManifestPath} = DOMAIN Listing[manifest]

Verifies(a) ==
  /\ a = approved.archive
  /\ WellFormed(a)
  /\ \E i \in DOMAIN a : a[i] = [path |-> ManifestPath, dir |-> FALSE,
                                 data |-> approved.manifest]
  /\ Covers(a, approved.manifest)
  /\ \A i \in DOMAIN a :
       a[i].path \in FilesIn(a) \ {ManifestPath} =>
         a[i].data = Listing[approved.manifest][a[i].path]

-----------------------------------------------------------------------------
(* The call.                                                               *)

At(p, point) == extractor[p] = point
To(p, point) == extractor' = [extractor EXCEPT ![p] = point]

OpenArchive(p) ==
  /\ At(p, "idle")
  /\ snapshot' = [snapshot EXCEPT ![p] = archiveFile]
  /\ member' = [member EXCEPT ![p] = 1]
  /\ To(p, "copy")
  /\ UNCHANGED <<archiveFile, approved, receipts, destinationVars, stops, changes>>

\* copy_bounded(): the archive may be replaced while it is being read.
CopyRest(p) ==
  /\ At(p, "copy")
  /\ snapshot' = [snapshot EXCEPT ![p] = IF @ = archiveFile THEN @ ELSE Mixed]
  /\ To(p, "verify")
  /\ UNCHANGED <<archiveFile, approved, member, receipts, destinationVars,
                 stops, changes>>

VerifySnapshot(p) ==
  /\ At(p, "verify")
  /\ IF Verifies(snapshot[p]) THEN To(p, "make") ELSE To(p, "idle")
  /\ UNCHANGED <<archiveFile, approved, snapshot, member, receipts,
                 destinationVars, stops, changes>>

MakeDestination(p) ==
  /\ At(p, "make")
  /\ IF Root \in DOMAIN tree
       THEN To(p, "idle") /\ UNCHANGED tree
       ELSE To(p, "enter") /\ tree' = [q \in {Root} |-> IsDirectory]
  /\ UNCHANGED <<archiveFile, approved, snapshot, member, receipts, flushed,
                 settled, powerLost, stops, changes>>

Current(p) == snapshot[p][member[p]]
With(paths, data) ==
  [q \in DOMAIN tree \cup paths |-> IF q \in DOMAIN tree THEN tree[q] ELSE data]

\* member_parent() makes the directories above; a file is made exclusively.
EnterMember(p) ==
  /\ At(p, "enter") /\ member[p] <= Len(snapshot[p])
  /\ LET m == Current(p)
         above == Above(m.path) \cup (IF m.dir THEN {m.path} ELSE {})
     IN  IF \/ \E q \in above \cap DOMAIN tree : tree[q] # IsDirectory
            \/ ~m.dir /\ m.path \in DOMAIN tree
           THEN /\ To(p, "idle")
                /\ UNCHANGED <<tree, member>>
           ELSE IF m.dir
             THEN /\ tree' = With(above, IsDirectory)
                  /\ member' = [member EXCEPT ![p] = @ + 1]
                  /\ UNCHANGED extractor
             ELSE /\ tree' = [q \in DOMAIN tree \cup above \cup {m.path} |->
                                IF q = m.path THEN Torn
                                ELSE With(above, IsDirectory)[q]]
                  /\ To(p, "write")
                  /\ UNCHANGED member
  /\ UNCHANGED <<archiveFile, approved, snapshot, receipts, flushed, settled,
                 powerLost, stops, changes>>

WriteMember(p) ==
  /\ At(p, "write")
  /\ tree' = [tree EXCEPT ![Current(p).path] = Current(p).data]
  /\ To(p, "flush")
  /\ UNCHANGED <<archiveFile, approved, snapshot, member, receipts, flushed,
                 settled, powerLost, stops, changes>>

\* Seeded fault: the data of a file is not synced.
NoFlush(p) ==
  /\ At(p, "flush")
  /\ To(p, "reread")
  /\ UNCHANGED <<archiveFile, approved, snapshot, member, receipts,
                 destinationVars, stops, changes>>

FlushMember(p) ==
  /\ At(p, "flush")
  /\ flushed' = flushed \cup {Current(p).path}
  /\ To(p, "reread")
  /\ UNCHANGED <<archiveFile, approved, snapshot, member, receipts, tree,
                 settled, powerLost, stops, changes>>

FilesThere == {q \in DOMAIN tree : tree[q] # IsDirectory}
EntriesOf(d) == {q \in DOMAIN tree : q # Root /\ Up(q) = d}

\* The file is read back, then the directory it is in is synced.
RereadMember(p) ==
  /\ At(p, "reread")
  /\ LET m == Current(p)
     IN  IF tree[m.path] = m.data
           THEN /\ settled' = settled \cup EntriesOf(Up(m.path))
                /\ member' = [member EXCEPT ![p] = @ + 1]
                /\ To(p, "enter")
           ELSE To(p, "idle") /\ UNCHANGED <<settled, member>>
  /\ UNCHANGED <<archiveFile, approved, snapshot, receipts, tree, flushed,
                 powerLost, stops, changes>>

\* The destination and its parent are synced, and the receipt is returned.
ReturnReceipt(p) ==
  /\ At(p, "enter") /\ member[p] > Len(snapshot[p])
  /\ settled' = settled \cup EntriesOf(Root) \cup {Root}
  /\ receipts' = receipts \cup {p}
  /\ To(p, "idle")
  /\ UNCHANGED <<archiveFile, approved, snapshot, member, tree, flushed,
                 powerLost, stops, changes>>

-----------------------------------------------------------------------------
(* The surroundings.                                                       *)

ReplaceArchive ==
  /\ changes < MaxChanges
  /\ changes' = changes + 1
  /\ archiveFile' \in Archives
  /\ UNCHANGED <<approved, callVars, destinationVars, stops>>

\* An error, an exceeded bound, an interrupt or the death of the process.
Stop(p) ==
  /\ extractor[p] # "idle" /\ stops < MaxStops
  /\ stops' = stops + 1
  /\ To(p, "idle")
  /\ UNCHANGED <<archiveFile, approved, snapshot, member, receipts,
                 destinationVars, changes>>

\* Entries that were not synced may be gone, with all below them, and data
\* that was not synced may be short.
LosePower ==
  /\ stops < MaxStops
  /\ stops' = stops + 1
  /\ powerLost' = TRUE
  /\ extractor' = [p \in Callers |-> "idle"]
  /\ \E gone \in SUBSET (DOMAIN tree \ settled),
        short \in SUBSET (FilesThere \ flushed) :
       LET kept == {q \in DOMAIN tree : (Above(q) \cup {Root, q}) \cap gone = {}}
       IN  /\ tree' = [q \in kept |-> IF q \in short THEN Torn ELSE tree[q]]
           /\ flushed' = (FilesThere \cap kept) \ short
           /\ settled' = kept
  /\ UNCHANGED <<archiveFile, approved, snapshot, member, receipts, changes>>

Extract(p) ==
  \/ OpenArchive(p) \/ CopyRest(p) \/ VerifySnapshot(p) \/ MakeDestination(p)
  \/ EnterMember(p) \/ WriteMember(p) \/ FlushMember(p) \/ RereadMember(p)
  \/ ReturnReceipt(p)

ArchiveNext ==
  \/ \E p \in Callers : Extract(p) \/ Stop(p)
  \/ ReplaceArchive \/ LosePower

ArchiveSpec == ArchiveInit /\ [][ArchiveNext]_archiveVars

-----------------------------------------------------------------------------
(* Properties.                                                             *)

ApprovedFiles == DOMAIN Listing[approved.manifest] \cup {ManifestPath}

Expected(q) ==
  IF q = ManifestPath THEN approved.manifest ELSE Listing[approved.manifest][q]

\* Once a receipt was returned, the destination holds nothing but files of the
\* approved manifest, each whole, whatever happened to the archive, to other
\* calls and to the power since; and all of them, if the power stayed on.
\* A destination without a receipt may hold anything.
ReceiptIsTree ==
  receipts # {} =>
    /\ FilesThere \subseteq ApprovedFiles
    /\ \A q \in FilesThere : tree[q] = Expected(q)
    /\ FilesThere = ApprovedFiles \/ powerLost

=============================================================================
