--------------------------- MODULE MCServiceLifecycle ---------------------------
(***************************************************************************)
(* Instances of ServiceLifecycle.                                          *)
(***************************************************************************)
EXTENDS ServiceLifecycle

AllCommands == DOMAIN Program

===============================================================================
