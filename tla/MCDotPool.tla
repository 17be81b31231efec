------------------------------- MODULE MCDotPool -------------------------------
(***************************************************************************)
(* Instances of DotPool: workers and connections are interchangeable, the  *)
(* safety runs use their symmetry.                                         *)
(***************************************************************************)
EXTENDS DotPool, TLC

Symmetric == Permutations(Worker) \cup Permutations(Conn)
===============================================================================
