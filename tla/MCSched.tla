------------------------------ MODULE MCSched ------------------------------
(***************************************************************************)
(* Sched on a small instance.  Actor structs are interchangeable, so the   *)
(* safety runs use their permutations as symmetry.                         *)
(***************************************************************************)
EXTENDS Sched, TLC

Symmetry == Permutations(Mains) \cup Permutations(Actor \ Mains)
=============================================================================
