------------------------------ MODULE MCLruCache ------------------------------
(***************************************************************************)
(* Instances of LruCache.                                                  *)
(***************************************************************************)
EXTENDS LruCache
===============================================================================
