------------------------------ MODULE DnsCustody ------------------------------
(***************************************************************************)
(* What ZeusDNS promises about the machine's DNS settings, without saying  *)
(* how: a setting is taken over only after it was put in escrow, it comes  *)
(* back only from the escrow, and the escrow is given up only when nothing *)
(* is held but what was forfeited before.  Takeover.tla (the runner and    *)
(* its prev_dns.json) implements it.                                       *)
(***************************************************************************)
CONSTANTS
    Iface,      \* the network interfaces
    Setting,    \* what a user may choose as an interface's DNS setting
    Loopback,   \* the setting 127.0.0.1, i.e. ZeusDNS itself
    Nothing,    \* an empty place in the escrow
    MayForfeit  \* whether the custodian may lose track of what it holds

VARIABLES
    user,       \* the setting each interface's user wants
    dns,        \* the setting in force
    escrow,     \* the setting each interface can be given back
    forfeit     \* the interfaces the custodian has lost track of

custodyVars == <<user, dns, escrow, forfeit>>

NoEscrow == [i \in Iface |-> Nothing]

CustodyInit ==
    /\ user \in [Iface -> Setting]
    /\ dns = user
    /\ escrow = NoEscrow
    /\ forfeit = {}

(* The user changes a setting; nothing is in custody. *)
Edit(i, s) ==
    /\ escrow = NoEscrow
    /\ user' = [user EXCEPT ![i] = s]
    /\ dns' = [dns EXCEPT ![i] = s]
    /\ forfeit' = forfeit \ {i}
    /\ UNCHANGED escrow

(* Settings go in escrow, all at once; for what is forfeited, anything. *)
Deposit ==
    /\ escrow = NoEscrow
    /\ escrow' \in [Iface -> Setting \cup {Loopback, Nothing}]
    /\ \A i \in Iface \ forfeit : escrow'[i] \in {dns[i], Nothing}
    /\ UNCHANGED <<user, dns, forfeit>>

(* An interface whose setting is safe is pointed at ZeusDNS. *)
Capture(i) ==
    /\ escrow[i] # Nothing
    /\ dns' = [dns EXCEPT ![i] = Loopback]
    /\ UNCHANGED <<user, escrow, forfeit>>

(* An interface gets its setting back; the escrow keeps its copy. *)
Release(i) ==
    /\ escrow[i] # Nothing
    /\ dns' = [dns EXCEPT ![i] = escrow[i]]
    /\ UNCHANGED <<user, escrow, forfeit>>

(* A careless custodian loses track of some of what it holds. *)
Forfeit(F) ==
    /\ MayForfeit
    /\ \A i \in F : escrow[i] # Nothing
    /\ forfeit' = forfeit \cup F
    /\ UNCHANGED <<user, dns, escrow>>

(* The escrow is given up: every interface in it has its setting back, or  *)
(* was forfeited.                                                          *)
Discard ==
    /\ \A i \in Iface \ forfeit : escrow[i] # Nothing => dns[i] = escrow[i]
    /\ escrow' = NoEscrow
    /\ UNCHANGED <<user, dns, forfeit>>

CustodyNext ==
    \/ \E i \in Iface, s \in Setting : Edit(i, s)
    \/ Deposit
    \/ \E i \in Iface : Capture(i) \/ Release(i)
    \/ \E F \in SUBSET Iface : Forfeit(F)
    \/ Discard

CustodySpec == CustodyInit /\ [][CustodyNext]_custodyVars

(* Type invariant. *)
CustodyTypeOK ==
    /\ user \in [Iface -> Setting]
    /\ dns \in [Iface -> Setting \cup {Loopback}]
    /\ escrow \in [Iface -> Setting \cup {Loopback, Nothing}]
    /\ forfeit \subseteq Iface
    /\ ~MayForfeit => forfeit = {}

(* Every interface either has the setting its user wants, or that setting  *)
(* lies in the escrow: of what is not forfeited nothing is ever lost.      *)
CustodyNoLoss ==
    \A i \in Iface \ forfeit : dns[i] = user[i] \/ escrow[i] = user[i]

(* Whatever lies in the escrow is what the user wants back.                *)
EscrowIsUser ==
    \A i \in Iface \ forfeit : escrow[i] # Nothing => escrow[i] = user[i]

===============================================================================
