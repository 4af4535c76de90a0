------------------------------- MODULE MCGate -------------------------------
(* The three parts of run_all.sh's gate, and the scripts beside it, on a small node. *)
EXTENDS ScriptLane

MCTxIds == UNION {Intended[p] : p \in DOMAIN Intended} \cup Never \cup {"stray", "twin1", "twin2"}
MCFees == 9..10
\* Two blocks of nobody's where a script waits for the head to move after it may have been
\* cut; a fee that moves, where a fee is read.
MCMaxEmpty == [reads |-> 1, transactions |-> 2, predeploys |-> 1, boundaries |-> 1, scenarios |-> 1]
MCFeeMoves == [reads |-> 1, transactions |-> 0, predeploys |-> 0, boundaries |-> 1, scenarios |-> 0]
=============================================================================
