------------------------------ MODULE MCConfigure ------------------------------
(***************************************************************************)
(* Instances of Configure, the menu included.                              *)
(***************************************************************************)
EXTENDS Configure

CONSTANTS doh, local, typo

(* No list, one somebody has edited by hand, one above the limit; and one  *)
(* somebody else saves.                                                    *)
Lists == {<<>>, <<doh, typo>>, <<local, doh, doh, local>>}
OnlyDoh == <<doh>>

===============================================================================
