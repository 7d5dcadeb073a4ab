-------------------------------- MODULE MCNet --------------------------------
(***************************************************************************)
(* Net on a small instance.  Actors and descriptors are interchangeable.   *)
(***************************************************************************)
EXTENDS Net, TLC

NetSymmetry == Permutations(Actor \ Mains) \cup Permutations(Fd)
=============================================================================
