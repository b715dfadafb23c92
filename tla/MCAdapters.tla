----------------------------- MODULE MCAdapters -----------------------------
(***************************************************************************)
(* The adapters beside the ledger and the migration transaction, one of    *)
(* them in each behaviour: they share no state.                            *)
(***************************************************************************)
EXTENDS LinkGraph, ArchiveExtraction, GateEvaluation, ContextPipeline, TLC

CONSTANTS Adapters, p1, p2, k1, e1, e2, d1, d2

VARIABLE exercised
vars == <<exercised, linkVars, archiveVars, gateVars, contextVars>>

\* The links of a package with two directories and two files: every list of
\* three, with at most one row that records other hashes.
MCInventory == (<<"d">> :> "directory") @@ (<<"d", "e">> :> "directory") @@
               (<<"f">> :> "file") @@ (<<"d", "f">> :> "file")
MCSortedPaths == <<<<"a">>, <<"b">>, <<"d", "c">>>>
MCRaw == {<<"d", "e">>, <<"f">>, <<"a", "..", "f">>, <<"a">>, <<"b">>,
          <<"d", "c">>, <<"..", "f">>, <<"..", "b">>}
MCPolicies ==
  LET paths == ToSet(MCSortedPaths)
  IN  {[row |-> [l \in paths |-> [target |-> t[l], matches |-> l # odd]], list |-> q] :
         q \in SetToSeqs(paths), t \in [paths -> MCRaw], odd \in {<<"b">>, <<>>}}

\* Archives: whole, with its members in another order, without a member, of
\* another manifest, with a file for a directory, altered, and with a path twice.
Dir(q) == [path |-> q, dir |-> TRUE, data |-> ""]
File(q, x) == [path |-> q, dir |-> FALSE, data |-> x]
MCManifestPath == <<"M">>
MCListing == ("m1" :> ((<<"d", "e", "g">> :> "x") @@ (<<"f">> :> "y"))) @@
             ("m2" :> (<<"f">> :> "y"))
MCArchives ==
  LET m1 == File(MCManifestPath, "m1")
      m2 == File(MCManifestPath, "m2")
      g == <<"d", "e", "g">>
  IN  {<<m1, File(g, "x"), File(<<"f">>, "y")>>,
       <<File(g, "x"), Dir(<<"d">>), Dir(<<"d", "e">>), File(<<"f">>, "y"), m1>>,
       <<m1, File(<<"f">>, "y")>>,
       <<m2, File(<<"f">>, "y"), Dir(<<"d">>)>>,
       <<m1, File(g, "x"), File(<<"f">>, "y"), File(<<"d">>, "y")>>,
       <<m1, File(g, "y"), File(<<"f">>, "y")>>,
       <<m1, File(g, "x"), File(<<"f">>, "y"), File(<<"f">>, "z")>>}

\* Facts: a number that meets the requirement, a boolean, and none.
V(t, n) == [type |-> t, num |-> n]
MCValues == {V("int", 0), V("float", 2), V("bool", 1)}
MCRequirements == {[k \in Keys |-> [op |-> ">=", value |-> V("int", 1)]]}
MCFactSets == {[k \in Keys |-> v] : v \in {V("float", 2), V("bool", 1), None}}

\* Two documents in five versions each; three candidates in every order.
Doc(d) == [id |-> d, rev |-> 1, type |-> "note", passed |-> TRUE, current |-> TRUE,
        validated |-> 1, level |-> 1, tiers |-> {"summary", "raw"},
        fields |-> {"status"}, intact |-> TRUE, size |-> 2, secrets |-> FALSE,
        member |-> TRUE]
Versions(d) ==
  {Absent, Doc(d), [Doc(d) EXCEPT !.rev = 2, !.tiers = {"raw"}, !.size = 1],
   [Doc(d) EXCEPT !.level = 2], [Doc(d) EXCEPT !.validated = 0, !.size = 1],
   [Doc(d) EXCEPT !.fields = {"secrets"}]}
MCLibrary ==
  {(d1 :> v) @@ (d2 :> w) : v \in Versions(d1), w \in Versions(d2)}
MCIntents ==
  {[mode |-> m, groups |-> {"G"}, purpose |-> "review", operation |-> "read",
    level |-> 2, budget |-> b, targets |-> {d1, d2}, raw |-> r,
    fullHistory |-> FALSE, currentOnly |-> TRUE] :
     m \in {"exact", "hybrid"}, b \in {2, 4}, r \in BOOLEAN}
Profile ==
  [semantic |-> "optional", active |-> TRUE, crossGroup |-> FALSE, groups |-> {"G"},
   minimumScore |-> 1, maxCandidates |-> 2, exactFallback |-> TRUE, level |-> 1,
   purposes |-> {"review"}, operations |-> {"read"}, tiers |-> <<"summary", "raw">>,
   raw |-> TRUE, fullHistory |-> FALSE, types |-> {"note"}, denied |-> {},
   allowed |-> {"status"}, maxAge |-> 1, budget |-> 3, maxRecords |-> 2]
MCProfiles == {Profile, [Profile EXCEPT !.maxCandidates = 1, !.exactFallback = FALSE],
               [Profile EXCEPT !.semantic = "disabled", !.maxRecords = 1]}
MCEmbeddings ==
  {[group |-> "G", usable |-> TRUE, crossGroup |-> FALSE, purposes |-> {"review"},
    minimumScore |-> 1, maxCandidates |-> 2, scope |-> {d1, d2}, level |-> 2,
    indexed |-> {<<d1, 1, "c">>, <<d1, 1, "e">>, <<d2, 1, "c">>}]}
Hit(d, c, n) == [id |-> d, rev |-> 1, chunk |-> c, group |-> "G", score |-> n]
MCFound ==
  UNION {SetToSeqs({Hit(d1, "c", 1), Hit(d1, "e", n), Hit(d2, "c", 2)}) :
           n \in {0, 3, NotANumber}}

-----------------------------------------------------------------------------
\* An adapter that a behaviour leaves alone starts somewhere.
LinkRest == policy = (CHOOSE p \in Policies : TRUE) /\ LinkInit
ArchiveRest ==
  /\ approved = [archive |-> CHOOSE a \in Archives : TRUE, manifest |-> "m1"]
  /\ archiveFile = approved.archive
  /\ ArchiveInit
GateRest == requirement = (CHOOSE q \in Requirements : TRUE) /\ GateInit
ContextRest ==
  /\ intent = (CHOOSE i \in Intents : TRUE) /\ profile = Profile
  /\ documents = [d \in {d1, d2} |-> Doc(d)]
  /\ ContextInit

Init ==
  /\ exercised \in Adapters
  /\ IF exercised = "links" THEN LinkInit ELSE LinkRest
  /\ IF exercised = "archive" THEN ArchiveInit ELSE ArchiveRest
  /\ IF exercised = "gates" THEN GateInit ELSE GateRest
  /\ IF exercised = "context" THEN ContextInit ELSE ContextRest

Next ==
  /\ UNCHANGED exercised
  /\ \/ exercised = "links" /\ LinkNext /\ UNCHANGED <<archiveVars, gateVars, contextVars>>
     \/ exercised = "archive" /\ ArchiveNext /\ UNCHANGED <<linkVars, gateVars, contextVars>>
     \/ exercised = "gates" /\ GateNext /\ UNCHANGED <<linkVars, archiveVars, contextVars>>
     \/ exercised = "context" /\ ContextNext /\ UNCHANGED <<linkVars, archiveVars, gateVars>>

Spec == Init /\ [][Next]_vars
=============================================================================
