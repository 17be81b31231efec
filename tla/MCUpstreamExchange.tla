--------------------------- MODULE MCUpstreamExchange ---------------------------
(***************************************************************************)
(* Instances of UpstreamExchange; the callers are interchangeable.         *)
(***************************************************************************)
EXTENDS UpstreamExchange, TLC

Symmetric == Permutations(Caller)
===============================================================================
