------------------------------ MODULE MCQueryPath ------------------------------
(***************************************************************************)
(* Instances of QueryPath.                                                 *)
(***************************************************************************)
EXTENDS QueryPath, TLC

CONSTANTS lower, mixed, udp, tcp, dnssec

MCQuery == {udp, tcp, dnssec}

(* One name, spelled in lower case or with the letters in mixed case.      *)
MCName == {lower, mixed}
MCCanonical == lower :> lower @@ mixed :> lower

(* A query over UDP and one over TCP that spells the name otherwise, which *)
(* may be coalesced, and the same name asked with the DO bit by a client   *)
(* that offers more room.                                                  *)
MCAsk ==
    udp    :> [name |-> lower, do |-> FALSE, tcp |-> FALSE, wide |-> FALSE] @@
    tcp    :> [name |-> mixed, do |-> FALSE, tcp |-> TRUE,  wide |-> FALSE] @@
    dnssec :> [name |-> lower, do |-> TRUE,  tcp |-> FALSE, wide |-> TRUE]

(* The first upstream answers with what the cache takes and 512 bytes do   *)
(* not hold, the second with a response that is not cached.                *)
MCAnswer == << {[cacheable |-> TRUE, big |-> TRUE]}, {[cacheable |-> FALSE, big |-> FALSE]} >>

(* All three queries come to listeners that neither are late nor break, or *)
(* two of them, one by UDP and one by TCP, to any listeners.  No step that *)
(* fairness asks for is left out.                                          *)
Bounded ==
    \/ pc[dnssec] = "new"
    \/ \A l \in DOMAIN listener : listener[l] \in {"serving", "closing"}

BoundedSpec == Init /\ [][Next /\ Bounded']_vars /\ Fairness

FirstHealthy == {1}
AllHealthy == {1, 2}

===============================================================================
