------------------------------ MODULE MCTakeover ------------------------------
(***************************************************************************)
(* Instances of Takeover for TLC: an interface whose DNS comes from its    *)
(* DHCP lease, one with DHCP and no lease, and one configured by hand.     *)
(***************************************************************************)
EXTENDS Takeover

CONSTANTS eth, wifi, vpn, router, quad9

MCIface == {eth, wifi, vpn}
MCServer == {router, quad9}
MCDhcp == [i \in MCIface |-> i # vpn]
MCLease == [i \in MCIface |-> IF i = eth THEN router ELSE NoAddr]

TwoIface == {eth, vpn}
TwoDhcp == [i \in TwoIface |-> i # vpn]
TwoLease == [i \in TwoIface |-> IF i = eth THEN router ELSE NoAddr]

===============================================================================
