------------------------------ MODULE MCKeypers ------------------------------
(***************************************************************************)
(* Keypers for TLC.  x, y and w are rival packages of one epoch; z         *)
(* belongs to another.                                                     *)
(***************************************************************************)
EXTENDS Keypers, TLC

CONSTANTS x, y, z, w, e1, e2

MCEpochOf == [package \in Packages |-> IF package = z THEN e2 ELSE e1]

(* The authorizations of y run out before the abort deadline. *)
MCExpiry == [package \in Packages |-> IF package = y THEN 0 ELSE MaxTime]

Symmetry == Permutations(Keypers) \cup Permutations(Procs) \cup Permutations(SettlementNonces)
=============================================================================
