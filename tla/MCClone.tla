------------------------------ MODULE MCClone ------------------------------
(***************************************************************************)
(* Clone.tla for TLC, with the properties of a store nothing went wrong in.*)
(***************************************************************************)
EXTENDS MCStore, Clone
=============================================================================
