---------------------------- MODULE MCTopUpQuotes ----------------------------
(***************************************************************************)
(* Small instances of TopUpQuotes.                                         *)
(***************************************************************************)
EXTENDS TopUpQuotes, TLC

CONSTANTS q1, x1

\* A quote settled before payments had a table of their own.
OldPair == {<<q1, x1>>}

WorkerSymmetry == Permutations(Workers)
=============================================================================
