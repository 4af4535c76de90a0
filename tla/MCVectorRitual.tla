--------------------------- MODULE MCVectorRitual ---------------------------
(* Worlds for TLC.  In the first, no file is edited: the checkouts start in    *)
(* any state a run may find, whoever owns them, and a run may be killed.  In   *)
(* the second, they are at their pins and a developer edits.                   *)
EXTENDS VectorRitual, TLC

CONSTANTS c1, c2, d1, d2

Tree(kind, head, litter) == [kind |-> kind, head |-> head, litter |-> litter]

World(geth, node, own, e, k) ==
  [tree |-> [geth |-> geth, node |-> node], owned |-> own, edits |-> e, kills |-> k]

Pinned == Tree("clone", "pin", {})
Found == {Tree("absent", "none", {}), Tree("plain", "none", {}), Tree("worktree", "pin", {}),
          Tree("clone", "none", {}), Tree("clone", "tip", {}), Pinned}

MCWorlds ==
  {World(g, n, [t \in Trees |-> o], 0, 2) : g \in Found, n \in Found, o \in {TRUE, FALSE}}
  \cup {World(Pinned, Pinned, [t \in Trees |-> FALSE], 3, 1)}

MCSymmetry == Permutations({c1, c2})
=============================================================================
