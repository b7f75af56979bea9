------------------------------ MODULE MCStore ------------------------------
(***************************************************************************)
(* Store.tla for TLC.                                                      *)
(***************************************************************************)
EXTENDS StoreInvariant, TLC

\* Every command except a move of a path onto itself.
SaneCommands == AllCommands \ {"mvSelf"}

\* Paths are interchangeable, and so are passphrases: no action and no safety
\* property names one.
Interchangeable == Permutations(Paths) \cup Permutations(Passes)

TwoProcesses == Permutations(Paths) \cup Permutations(Procs) \cup Permutations(Contents)
=============================================================================
