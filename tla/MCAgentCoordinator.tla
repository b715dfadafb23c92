------------------------- MODULE MCAgentCoordinator -------------------------
(* A small instance of AgentCoordinator: a directory, a directory inside it *)
(* and one beside it, two spellings of roots, three tasks, two keys.        *)
EXTENDS AgentCoordinator, TLC

CONSTANTS t1, t2, t3, parentRun, k1, k2, docs, inner, aside, n1, n2, tool,
          out, d1, d2

MCTasks == {t1, t2, t3}
MCParents == {parentRun}
MCKeys == {k1, k2}
MCTools == {tool}
MCNames == {n1, n2}
MCPlaces == {docs, inner, aside}
MCBelow == {<<inner, docs>>}
MCPaths == {out}
MCDigests == {d1, d2}

Write(n, k, e, c) ==
  [parent |-> parentRun, reads |-> {}, writes |-> {n}, tools |-> {}, key |-> k,
   expires |-> e, cascades |-> c]
Read(k) ==
  [parent |-> parentRun, reads |-> {n1}, writes |-> {}, tools |-> {tool},
   key |-> k, expires |-> 2, cascades |-> TRUE]

MCContracts ==
  {Write(n1, k1, 1, TRUE), Write(n2, k1, 2, FALSE), Write(n2, k2, 2, TRUE),
   Read(NoKey)}

MCScopes ==
  {[reads |-> {n1}, writes |-> {n1, n2}, tools |-> {tool}],
   [reads |-> {}, writes |-> {n2}, tools |-> {}]}

MCMergeLists == {<<t1, t2, t3>>}

EqualDigests == Permutations(MCDigests)

=============================================================================
