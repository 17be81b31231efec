---------------------------- MODULE TakeoverProofs ----------------------------
(***************************************************************************)
(* Proofs about Takeover, for every set of interfaces, servers and         *)
(* processes, every DHCP configuration and any number of crashes.          *)
(***************************************************************************)
EXTENDS Takeover, TLAPS

(* What an instance must leave out for NoResolverLoss: processes that      *)
(* overlap, and a user who edits settings while a backup dangles (each     *)
(* alone breaks it); and for NoLoss also a query without DHCP annotation   *)
(* (it keeps only the servers).                                            *)
Single == "overlap" \notin Faults
Undisturbed == Single /\ "edit_stale" \notin Faults
Annotated == "dhcpq" \notin Faults

-------------------------------------------------------------------------------
(* Lemmas about the helpers.                                               *)

(* A query's table is a table of entries.                                  *)
LEMMA SnapshotType ==
    ASSUME TypeOK, NEW a \in BOOLEAN
    PROVE  Snapshot(a) \in Backup
<1>1. ASSUME NEW i \in Iface
      PROVE  /\ Addr(i, dns[i]) \in Server \cup {NoAddr, Loopback}
             /\ DhcpMark(i, a) \in Dhcps
  BY TakeoverAssumption DEF TypeOK, Addr, DhcpMark, Dhcps, Setting
<1> QED BY <1>1 DEF Snapshot, Backup, Entry, TypeOK

(* What RestoreSystemDNS writes is a setting.                              *)
LEMMA RestoreToType ==
    ASSUME NEW e \in Entry
    PROVE  RestoreTo(e) \in Setting \cup {Loopback}
BY DEF Entry, RestoreTo, Setting

(* Restoring from an annotated query made while an interface has its user's*)
(* setting gives exactly that setting back.                                *)
LEMMA SnapshotExact ==
    ASSUME TypeOK, UserAllowed, NEW i \in Iface, dns[i] = user[i],
           NEW e, e = Snapshot(TRUE)[i], e # NoEntry
    PROVE  RestoreTo(e) = user[i]
<1>1. e.addr = Addr(i, user[i]) /\ e.dhcp = DhcpMark(i, TRUE)
  BY DEF Snapshot
<1>2. CASE Dhcp[i]
  <2>1. user[i] = Automatic
    BY <1>2 DEF UserAllowed, UserSetting
  <2>2. DhcpMark(i, TRUE) = "Enabled"
    BY <1>2 DEF DhcpMark
  <2> QED BY <1>1, <2>1, <2>2 DEF RestoreTo
<1>3. CASE ~Dhcp[i]
  <2>1. DhcpMark(i, TRUE) = "Disabled"
    BY <1>3 DEF DhcpMark
  <2>2. user[i] = Automatic => Addr(i, user[i]) = NoAddr
    BY <1>3, TakeoverAssumption DEF Addr
  <2>3. user[i] # Automatic => Addr(i, user[i]) = user[i] /\ user[i] # NoAddr
    BY TakeoverAssumption DEF Addr, TypeOK
  <2> QED BY <1>1, <2>1, <2>2, <2>3 DEF RestoreTo
<1> QED BY <1>2, <1>3

(* With or without the annotation, restoring from a query made while an    *)
(* interface has its user's servers gives it these servers back.           *)
LEMMA SnapshotServers ==
    ASSUME TypeOK, UserAllowed, NEW i \in Iface, Addr(i, dns[i]) = Addr(i, user[i]),
           NEW a \in BOOLEAN, NEW e, e = Snapshot(a)[i], e # NoEntry
    PROVE  Addr(i, RestoreTo(e)) = Addr(i, user[i])
<1>1. e.addr = Addr(i, user[i]) /\ e.dhcp = DhcpMark(i, a)
  BY DEF Snapshot
<1>2. CASE Dhcp[i] /\ RestoreTo(e) = Automatic
  BY <1>2 DEF UserAllowed, UserSetting
<1>3. CASE ~Dhcp[i] /\ RestoreTo(e) = Automatic
  <2>1. e.dhcp # "Enabled"
    BY <1>1, <1>3 DEF DhcpMark
  <2>2. e.addr \in {NoAddr, Automatic}
    BY <1>3, <2>1 DEF RestoreTo
  <2>3. Addr(i, user[i]) # Automatic
    BY <1>3, TakeoverAssumption DEF Addr, TypeOK, Setting
  <2> QED BY <1>1, <1>3, <2>2, <2>3, TakeoverAssumption DEF Addr
<1>4. CASE RestoreTo(e) # Automatic
  BY <1>1, <1>4 DEF RestoreTo, Addr
<1> QED BY <1>2, <1>3, <1>4

(* Whatever a query finds on an interface, its user's servers or ZeusDNS,  *)
(* a restore from it gives the interface one of the two.                   *)
LEMMA SnapshotTheirs ==
    ASSUME TypeOK, UserAllowed, NEW i \in Iface, Theirs(i, dns[i]),
           NEW a \in BOOLEAN, NEW e, e = Snapshot(a)[i], e # NoEntry
    PROVE  Theirs(i, RestoreTo(e))
<1>1. CASE Addr(i, dns[i]) = Addr(i, user[i])
  BY <1>1, SnapshotServers DEF Theirs
<1>2. CASE dns[i] = Loopback
  <2>1. e.addr = Loopback /\ e.dhcp = DhcpMark(i, a)
    BY <1>2, TakeoverAssumption DEF Snapshot, Addr, Setting
  <2>2. Dhcp[i] => user[i] = Automatic
    BY DEF UserAllowed, UserSetting
  <2>3. RestoreTo(e) = Automatic => Dhcp[i]
    BY <2>1, TakeoverAssumption DEF RestoreTo, DhcpMark, Setting
  <2>4. RestoreTo(e) \in {Automatic, Loopback}
    BY <2>1 DEF RestoreTo
  <2> QED BY <2>2, <2>3, <2>4 DEF Theirs
<1> QED BY <1>1, <1>2 DEF Theirs

(* A query made while every interface that was not given up is intact is   *)
(* faithful.                                                               *)
LEMMA SnapshotFaithful ==
    ASSUME TypeOK, UserAllowed, \A i \in Iface \ gap : Intact(i),
           \A i \in Iface : Theirs(i, dns[i]), NEW a \in Annotation
    PROVE  Faithful(Snapshot(a))
<1> SUFFICES ASSUME NEW i \in Iface, NEW e, e = Snapshot(a)[i], e # NoEntry
             PROVE  /\ i \notin gap => Same(i, RestoreTo(e), user[i])
                    /\ Theirs(i, RestoreTo(e))
  BY DEF Faithful
<1>t. Theirs(i, RestoreTo(e))
  BY SnapshotTheirs DEF Annotation
<1> SUFFICES ASSUME i \notin gap PROVE Same(i, RestoreTo(e), user[i])
  BY <1>t
<1>1. CASE dns[i] = user[i] /\ a = TRUE
  BY <1>1, SnapshotExact DEF Same
<1>2. CASE "dhcpq" \in Faults
  <2>1. Addr(i, dns[i]) = Addr(i, user[i])
    BY DEF Intact, Same
  <2>2. a \in BOOLEAN
    BY DEF Annotation
  <2> QED BY <1>2, <2>1, <2>2, SnapshotServers DEF Same
<1> QED BY <1>1, <1>2 DEF Intact, Same, Annotation

-------------------------------------------------------------------------------
(* TypeOK is not inductive: a restore script must also have an entry for   *)
(* each interface it has left.                                             *)
ScriptEntries ==
    \A p \in Proc : pc[p] = "restoring" => todo[p] \subseteq HasEntry(snap[p])

TypeInv == TypeOK /\ ScriptEntries

(* Type correctness, whatever the faults and however processes overlap.    *)
THEOREM Typing == Spec => []TypeOK
<1>1. Init => TypeInv
  <2> SUFFICES ASSUME Init PROVE TypeInv
    OBVIOUS
  <2>1. NoBackup \in Backup
    BY DEF NoBackup, Backup
  <2> QED BY <2>1, TakeoverAssumption DEF Init, TypeInv, TypeOK, ScriptEntries, Steps
<1>2. TypeInv /\ [Next]_vars => TypeInv'
  <2> SUFFICES ASSUME TypeInv, [Next]_vars PROVE TypeInv'
    OBVIOUS
  <2> USE DEF TypeInv, TypeOK, ScriptEntries, machine, disk, locals, Go, Steps
  <2>b. NoBackup \in Backup
    BY DEF NoBackup, Backup
  <2>q. ASSUME NEW p \in Proc, Quit(p)
        PROVE  /\ pc' \in [Proc -> Steps] /\ snap' \in [Proc -> Backup]
               /\ todo' \in [Proc -> SUBSET Iface] /\ failed' \in [Proc -> SUBSET Iface]
               /\ ok' \in [Proc -> BOOLEAN]
               /\ boot' \in [Proc -> SUBSET (Server \cup {Loopback})]
               /\ ScriptEntries'
    BY <2>q, <2>b DEF Quit, HasEntry
  <2>1. ASSUME NEW p \in Proc, Start(p) PROVE TypeInv'
    BY <2>1 DEF Start
  <2>2. ASSUME NEW p \in Proc, Uninstall(p) PROVE TypeInv'
    BY <2>2 DEF Uninstall
  <2>3. ASSUME NEW p \in Proc, GetBootstrapDNS(p) PROVE TypeInv'
    <3>1. Bootstrap \subseteq Server \cup {Loopback}
      BY TakeoverAssumption DEF Bootstrap, Addr, Setting
    <3> QED BY <2>3, <3>1 DEF GetBootstrapDNS
  <2>4. ASSUME NEW p \in Proc, Stat(p) PROVE TypeInv'
    <3>1. gap' \subseteq Iface
      BY <2>4 DEF Stat, HasEntry
    <3> QED BY <2>4, <3>1 DEF Stat
  <2>5. ASSUME NEW p \in Proc, Query(p) PROVE TypeInv'
    <3>1. \A a \in Annotation : Snapshot(a) \in Backup
      BY SnapshotType DEF Annotation
    <3> QED BY <2>5, <3>1 DEF Query
  <2>6. ASSUME NEW p \in Proc, Create(p) PROVE TypeInv'
    BY <2>6, <2>b DEF Create
  <2>7. ASSUME NEW p \in Proc, Fill(p) PROVE TypeInv'
    BY <2>7, <2>b DEF Fill
  <2>8. ASSUME NEW p \in Proc, Listen(p) PROVE TypeInv'
    BY <2>8 DEF Listen
  <2>9. ASSUME NEW p \in Proc, Flip(p) PROVE TypeInv'
    <3>1. HasServers(saved) \subseteq Iface
      BY DEF HasServers, HasEntry
    <3>2. todo' \in [Proc -> SUBSET Iface] /\ ok' \in [Proc -> BOOLEAN]
      BY <2>9, <3>1 DEF Flip
    <3>3. ScriptEntries'
      BY <2>9 DEF Flip
    <3>4. pc' \in [Proc -> Steps]
      BY <2>9 DEF Flip
    <3> QED BY <2>9, <3>2, <3>3, <3>4 DEF Flip
  <2>10. ASSUME NEW p \in Proc, SetOne(p) PROVE TypeInv'
    <3>1. PICK i \in todo[p] : Cmdlet(p, i, Loopback)
      BY <2>10 DEF SetOne
    <3>2. /\ dns' \in [Iface -> Setting \cup {Loopback}]
          /\ todo' \in [Proc -> SUBSET Iface] /\ failed' \in [Proc -> SUBSET Iface]
      BY <3>1 DEF Cmdlet
    <3>3. ScriptEntries'
      BY <2>10, <3>1 DEF SetOne, Cmdlet
    <3> QED BY <2>10, <3>2, <3>3 DEF SetOne
  <2>11. ASSUME NEW p \in Proc, EndSet(p) PROVE TypeInv'
    BY <2>11 DEF EndSet
  <2>12. ASSUME NEW p \in Proc, Stop(p) PROVE TypeInv'
    BY <2>12 DEF Stop
  <2>13. ASSUME NEW p \in Proc, Cleanup(p) PROVE TypeInv'
    <3>1. CASE Quit(p)
      BY <2>13, <2>q, <3>1 DEF Cleanup
    <3>2. CASE ~Quit(p)
      <4>0. file = "good"
        BY <2>13, <3>2 DEF Cleanup
      <4>1. HasEntry(saved) \subseteq Iface
        BY DEF HasEntry
      <4>2. /\ snap' \in [Proc -> Backup] /\ todo' \in [Proc -> SUBSET Iface]
            /\ failed' \in [Proc -> SUBSET Iface]
        BY <2>13, <3>2, <4>0, <4>1 DEF Cleanup
      <4>3. ScriptEntries'
        BY <2>13, <3>2, <4>0, <4>1 DEF Cleanup
      <4> QED BY <2>13, <3>2, <4>2, <4>3 DEF Cleanup
    <3> QED BY <3>1, <3>2
  <2>14. ASSUME NEW p \in Proc, RestoreOne(p) PROVE TypeInv'
    <3>1. PICK i \in todo[p] : Cmdlet(p, i, RestoreTo(snap[p][i]))
      BY <2>14 DEF RestoreOne
    <3>2. RestoreTo(snap[p][i]) \in Setting \cup {Loopback}
      BY <2>14, RestoreToType DEF RestoreOne, HasEntry, Backup
    <3>3. dns' \in [Iface -> Setting \cup {Loopback}]
      BY <3>1, <3>2 DEF Cmdlet
    <3>4. failed' \in [Proc -> SUBSET Iface] /\ todo' \in [Proc -> SUBSET Iface]
      BY <3>1 DEF Cmdlet
    <3>5. ScriptEntries'
      BY <2>14, <3>1 DEF RestoreOne, Cmdlet, HasEntry
    <3> QED BY <2>14, <3>3, <3>4, <3>5 DEF RestoreOne
  <2>15. ASSUME NEW p \in Proc, EndRestore(p) PROVE TypeInv'
    BY <2>15, <2>q DEF EndRestore
  <2>16. ASSUME NEW p \in Proc, Remove(p) PROVE TypeInv'
    BY <2>16, <2>q, <2>b DEF Remove
  <2>17. ASSUME NEW p \in Proc, Crash(p) PROVE TypeInv'
    BY <2>17, <2>q, TakeoverAssumption DEF Crash
  <2>18. ASSUME NEW i \in Iface, NEW s \in UserSetting(i), UserEdit(i, s)
         PROVE  TypeInv'
    <3>1. s \in Setting
      BY DEF UserSetting, Setting
    <3> QED BY <2>18, <3>1 DEF UserEdit
  <2>19. ASSUME NEW i \in Iface, Unplug(i) \/ Replug(i) PROVE TypeInv'
    BY <2>19 DEF Unplug, Replug
  <2>20. CASE UNCHANGED vars
    BY <2>20 DEF vars
  <2> QED
    BY <2>1, <2>2, <2>3, <2>4, <2>5, <2>6, <2>7, <2>8, <2>9, <2>10, <2>11,
       <2>12, <2>13, <2>14, <2>15, <2>16, <2>17, <2>18, <2>19, <2>20
       DEF Next, Progress, Environment
<1>3. TypeInv => TypeOK
  BY DEF TypeInv
<1> QED BY <1>1, <1>2, <1>3, PTL DEF Spec

-------------------------------------------------------------------------------
(* A process that acts is the only one there is.                           *)
LEMMA Alone ==
    ASSUME Single, Solo, NEW p \in Proc, pc[p] # "off" \/ MayStart(p)
    PROVE  \A q \in Proc \ {p} : pc[q] = "off"
BY DEF Single, Solo, MayStart

(* If the others are off, the facts about the one that moves are enough.   *)
LEMMA OneMoves ==
    ASSUME TypeOK, NEW p \in Proc, \A q \in Proc \ {p} : pc[q] = "off",
           NEW s \in Steps, Go(p, s), StepFacts(p)'
    PROVE  Solo' /\ \A q \in Proc : StepFacts(q)'
<1>1. \A q \in Proc \ {p} : pc'[q] = "off"
  BY DEF TypeOK, Go
<1>2. ASSUME NEW q \in Proc \ {p} PROVE StepFacts(q)'
  BY <1>1 DEF StepFacts
<1> QED BY <1>1, <1>2 DEF Solo

(* The end of a process asks nothing of it.                                *)
LEMMA QuitFacts ==
    ASSUME TypeOK, NEW p \in Proc, \A q \in Proc \ {p} : pc[q] = "off", Quit(p)
    PROVE  Solo' /\ \A q \in Proc : StepFacts(q)'
<1>1. pc'[p] = "off" /\ Go(p, "off")
  BY DEF Quit, Go, TypeOK
<1>2. StepFacts(p)'
  BY <1>1 DEF StepFacts
<1> QED BY <1>1, <1>2, OneMoves DEF Steps

(* The backup and the settings are as before; more may be given up.        *)
LEMMA CoversStutter ==
    ASSUME UserAllowed, BackupCovers, UNCHANGED <<user, dns, disk>>, gap \subseteq gap'
    PROVE  UserAllowed' /\ BackupCovers'
BY DEF UserAllowed, BackupCovers, Faithful, Intact, Theirs, disk

(* A process goes on with its bootstrap resolvers, or ends and has none.   *)
LEMMA BootStays ==
    ASSUME TypeOK, BootFacts, UNCHANGED user, NEW p \in Proc,
           \/ \E s \in Steps \ {"off"} : Go(p, s) /\ UNCHANGED boot
           \/ Quit(p)
    PROVE  BootFacts'
<1>1. \A q \in Proc : boot'[q] \in {boot[q], {}}
  BY DEF Quit, TypeOK
<1>2. \A q \in Proc : pc'[q] = "off" => pc[q] = "off" \/ boot'[q] = {}
  BY DEF Quit, Go, TypeOK
<1> QED BY <1>1, <1>2 DEF BootFacts, BootstrapIsUsers

(* Every step keeps the inductive invariant.                               *)
LEMMA InvStep ==
    ASSUME Undisturbed, IInv, Next, TypeOK'
    PROVE  IInv'
<1> USE DEF machine, disk, locals
<1>t. /\ TypeOK /\ Solo /\ UserAllowed /\ BackupCovers /\ BootFacts /\ NothingGivenUp
      /\ \A p \in Proc : StepFacts(p)
  BY DEF IInv
<1>w. ASSUME NEW p \in Proc, NEW s \in Steps, Go(p, s), UserAllowed', BackupCovers',
             BootFacts', NothingGivenUp', pc[p] # "off" \/ MayStart(p), StepFacts(p)'
      PROVE  IInv'
  <2>1. \A q \in Proc \ {p} : pc[q] = "off"
    BY <1>t, <1>w, Alone DEF Undisturbed
  <2>2. Solo' /\ \A q \in Proc : StepFacts(q)'
    BY <1>t, <1>w, <2>1, OneMoves
  <2> QED BY <1>w, <2>2 DEF IInv
<1>m. ASSUME NEW p \in Proc, NEW s \in Steps \ {"off"}, Go(p, s), UserAllowed', BackupCovers',
             UNCHANGED <<user, boot, gap>>, pc[p] # "off" \/ MayStart(p), StepFacts(p)'
      PROVE  IInv'
  <2>1. BootFacts'
    BY <1>t, <1>m, BootStays
  <2>2. NothingGivenUp'
    BY <1>t, <1>m DEF NothingGivenUp
  <2> QED BY <1>m, <1>w, <2>1, <2>2
<1>q. ASSUME NEW p \in Proc, Quit(p), UserAllowed', BackupCovers', UNCHANGED <<user, gap>>,
             pc[p] # "off"
      PROVE  IInv'
  <2>1. \A q \in Proc \ {p} : pc[q] = "off"
    BY <1>t, <1>q, Alone DEF Undisturbed
  <2>2. Solo' /\ \A q \in Proc : StepFacts(q)'
    BY <1>t, <1>q, <2>1, QuitFacts
  <2>3. BootFacts'
    BY <1>t, <1>q, BootStays
  <2>4. NothingGivenUp'
    BY <1>t, <1>q DEF NothingGivenUp
  <2> QED BY <1>q, <2>2, <2>3, <2>4 DEF IInv
<1>c. ASSUME UNCHANGED <<user, dns, disk, gap>> PROVE UserAllowed' /\ BackupCovers'
  BY <1>t, <1>c, CoversStutter
<1>g. ASSUME NEW p \in Proc, NEW s, Go(p, s) PROVE pc'[p] = s
  BY <1>t, <1>g DEF Go, TypeOK
<1>1. ASSUME NEW p \in Proc, Start(p) PROVE IInv'
  <2>1. pc'[p] = "boot"
    BY <1>1, <1>g DEF Start
  <2>2. StepFacts(p)'
    BY <2>1 DEF StepFacts
  <2> QED BY <1>1, <1>m, <1>c, <2>2 DEF Start, Steps
<1>2. ASSUME NEW p \in Proc, Uninstall(p) PROVE IInv'
  <2>1. pc'[p] = "cleanup"
    BY <1>2, <1>g DEF Uninstall
  <2>2. StepFacts(p)'
    BY <2>1 DEF StepFacts
  <2> QED BY <1>2, <1>m, <1>c, <2>2 DEF Uninstall, Steps
<1>3. ASSUME NEW p \in Proc, GetBootstrapDNS(p) PROVE IInv'
  <2>1. pc'[p] = "stat" /\ UNCHANGED <<user, dns, disk, gap>>
    BY <1>3, <1>g DEF GetBootstrapDNS
  <2>2. StepFacts(p)'
    BY <2>1 DEF StepFacts
  <2>3. Bootstrap \subseteq {Addr(i, user[i]) : i \in Iface}
    <3>1. \A i \in Iface : dns[i] = Loopback \/ Addr(i, dns[i]) = Addr(i, user[i])
      BY <1>t DEF BackupCovers, Theirs
    <3>2. \A i \in Iface : dns[i] = Loopback => Addr(i, dns[i]) = Loopback
      BY TakeoverAssumption DEF Addr, Setting
    <3> QED BY <1>t, <3>1, <3>2 DEF Bootstrap, TypeOK
  <2>4. \A q \in Proc : boot'[q] \in {boot[q], {}, Bootstrap}
    BY <1>t, <1>3 DEF GetBootstrapDNS, TypeOK
  <2>5. \A q \in Proc : pc'[q] = "off" => pc[q] = "off" /\ boot'[q] = boot[q]
    BY <1>t, <1>3 DEF GetBootstrapDNS, Go, TypeOK
  <2>6. BootFacts'
    BY <1>t, <2>1, <2>3, <2>4, <2>5 DEF BootFacts, BootstrapIsUsers
  <2>7. NothingGivenUp'
    BY <1>t, <2>1 DEF NothingGivenUp
  <2> QED BY <1>3, <1>w, <1>c, <2>1, <2>2, <2>6, <2>7 DEF GetBootstrapDNS, Steps
<1>4. ASSUME NEW p \in Proc, Stat(p) PROVE IInv'
  <2>1. PICK s \in {"query", "listen"} : Go(p, s)
    BY <1>4 DEF Stat
  <2>2. gap \subseteq gap' /\ UNCHANGED <<user, dns, disk, boot>>
    BY <1>4 DEF Stat
  <2>3. s = "query" => HasEntry(saved) \subseteq gap'
    <3>1. file = "none" => HasEntry(saved) = {}
      BY <1>t DEF BackupCovers, HasEntry, NoBackup
    <3>2. s = "query" => file = "none" \/ gap' = gap \cup HasEntry(saved)
      BY <1>4, <1>g, <2>1 DEF Stat
    <3> QED BY <3>1, <3>2
  <2>4. StepFacts(p)'
    <3>1. pc'[p] = s /\ HasEntry(saved)' = HasEntry(saved)
      BY <1>g, <2>1, <2>2 DEF HasEntry
    <3> QED BY <2>1, <2>3, <3>1 DEF StepFacts
  <2>5. UserAllowed' /\ BackupCovers'
    BY <1>t, <2>2, CoversStutter
  <2>6. NothingGivenUp'
    BY <1>t, <1>4 DEF Stat, NothingGivenUp, Attentive
  <2>7. BootFacts'
    BY <1>t, <2>1, <2>2, BootStays DEF Steps
  <2> QED BY <1>4, <1>w, <2>1, <2>4, <2>5, <2>6, <2>7 DEF Stat, Steps
<1>5. ASSUME NEW p \in Proc, Query(p) PROVE IInv'
  <2>1. CASE Go(p, "create")
    <3>1. HasEntry(saved) \subseteq gap /\ \A i \in Iface \ gap : Intact(i)
      BY <1>t, <1>5 DEF Query, StepFacts, BackupCovers, HasEntry
    <3>2. PICK a \in Annotation : snap' = [snap EXCEPT ![p] = Snapshot(a)]
      <4>1. ~Go(p, "listen")
        BY <2>1, <1>g
      <4> QED BY <1>5, <4>1 DEF Query
    <3>3. Faithful(Snapshot(a))
      BY <1>t, <3>1, SnapshotFaithful DEF BackupCovers
    <3>4. Faithful(snap[p])'
      BY <1>t, <1>5, <3>2, <3>3 DEF Query, Faithful, Theirs, TypeOK
    <3>5. pc'[p] = "create"
      BY <2>1, <1>g
    <3>6. StepFacts(p)'
      BY <1>5, <3>1, <3>4, <3>5 DEF Query, StepFacts, HasEntry
    <3> QED BY <1>5, <1>m, <1>c, <2>1, <3>6 DEF Query, Steps
  <2>2. CASE Go(p, "listen")
    <3>1. pc'[p] = "listen"
      BY <2>2, <1>g
    <3>2. StepFacts(p)'
      BY <3>1 DEF StepFacts
    <3> QED BY <1>5, <1>m, <1>c, <2>2, <3>2 DEF Query, Steps
  <2> QED BY <1>5, <2>1, <2>2 DEF Query
<1>6. ASSUME NEW p \in Proc, Create(p) PROVE IInv'
  <2>1. \A i \in Iface \ gap : Intact(i)
    BY <1>t, <1>6 DEF Create, StepFacts, BackupCovers, HasEntry
  <2>2. CASE Go(p, "fill") /\ file' = "torn" /\ saved' = NoBackup
    <3>1. pc'[p] = "fill"
      BY <2>2, <1>g
    <3>2. StepFacts(p)'
      BY <1>t, <1>6, <2>2, <3>1 DEF Create, StepFacts, Faithful, Theirs
    <3>3. UserAllowed' /\ BackupCovers'
      BY <1>t, <1>6, <2>1, <2>2
         DEF Create, UserAllowed, BackupCovers, Faithful, Intact, Theirs, NoBackup
    <3> QED BY <1>6, <1>m, <2>2, <3>2, <3>3 DEF Create, Steps
  <2>3. CASE Go(p, "listen") /\ UNCHANGED disk
    <3>1. pc'[p] = "listen"
      BY <2>3, <1>g
    <3>2. StepFacts(p)'
      BY <3>1 DEF StepFacts
    <3> QED BY <1>6, <1>m, <1>c, <2>3, <3>2 DEF Create, Steps
  <2> QED BY <1>6, <2>2, <2>3 DEF Create
<1>7. ASSUME NEW p \in Proc, Fill(p) PROVE IInv'
  <2>1. /\ file = "torn" /\ saved = NoBackup /\ Faithful(snap[p])
        /\ \A i \in Iface \ gap : Intact(i)
    BY <1>t, <1>7 DEF Fill, StepFacts, BackupCovers, NoBackup
  <2>2. pc'[p] = "listen"
    BY <1>7, <1>g DEF Fill
  <2>3. StepFacts(p)'
    BY <2>2 DEF StepFacts
  <2>4. UserAllowed' /\ BackupCovers'
    BY <1>t, <1>7, <2>1 DEF Fill, UserAllowed, BackupCovers, Faithful, Intact, Theirs
  <2> QED BY <1>7, <1>m, <2>3, <2>4 DEF Fill, Steps
<1>8. ASSUME NEW p \in Proc, Listen(p) PROVE IInv'
  <2>1. PICK s \in {"flip", "cleanup"} : Go(p, s)
    BY <1>8 DEF Listen
  <2>2. StepFacts(p)'
    BY <2>1, <1>g DEF StepFacts
  <2> QED BY <1>8, <1>m, <1>c, <2>1, <2>2 DEF Listen, Steps
<1>9. ASSUME NEW p \in Proc, Flip(p) PROVE IInv'
  <2>1. CASE Go(p, "setting")
    <3>1. pc'[p] = "setting"
      BY <2>1, <1>g
    <3>2. todo'[p] = HasServers(saved)
      <4>1. ~Go(p, "serve")
        BY <3>1, <1>g
      <4> QED BY <1>t, <1>9, <4>1 DEF Flip, TypeOK
    <3>3. StepFacts(p)'
      BY <1>9, <3>1, <3>2 DEF Flip, StepFacts, HasServers, HasEntry
    <3> QED BY <1>9, <1>m, <1>c, <2>1, <3>3 DEF Flip, Steps
  <2>2. CASE Go(p, "serve")
    <3>1. pc'[p] = "serve"
      BY <2>2, <1>g
    <3>2. StepFacts(p)'
      BY <3>1 DEF StepFacts
    <3> QED BY <1>9, <1>m, <1>c, <2>2, <3>2 DEF Flip, Steps
  <2> QED BY <1>9, <2>1, <2>2 DEF Flip
<1>10. ASSUME NEW p \in Proc, SetOne(p) PROVE IInv'
  <2>1. pc[p] = "setting" /\ todo[p] \subseteq HasEntry(saved)
    BY <1>t, <1>10 DEF SetOne, StepFacts
  <2>2. PICK i \in todo[p] :
          /\ todo' = [todo EXCEPT ![p] = @ \ {i}]
          /\ dns' = [dns EXCEPT ![i] = Loopback] \/ UNCHANGED dns
    BY <1>10 DEF SetOne, Cmdlet
  <2>3. \A j \in Iface : dns'[j] = dns[j] \/ (dns'[j] = Loopback /\ saved[j] # NoEntry)
    BY <1>t, <2>1, <2>2 DEF TypeOK, HasEntry
  <2>4. UserAllowed' /\ BackupCovers'
    BY <1>t, <1>10, <2>3
       DEF SetOne, UserAllowed, BackupCovers, Faithful, Intact, Theirs
  <2>5. StepFacts(p)'
    BY <1>t, <1>10, <2>1, <2>2 DEF SetOne, StepFacts, HasEntry, TypeOK
  <2>6. Go(p, "setting")
    BY <1>t, <1>10, <2>1 DEF SetOne, Go, TypeOK
  <2> QED BY <1>10, <1>m, <2>1, <2>4, <2>5, <2>6 DEF SetOne, Steps
<1>11. ASSUME NEW p \in Proc, EndSet(p) PROVE IInv'
  <2>1. StepFacts(p)'
    BY <1>11, <1>g DEF EndSet, StepFacts
  <2> QED BY <1>11, <1>m, <1>c, <2>1 DEF EndSet, Steps
<1>12. ASSUME NEW p \in Proc, Stop(p) PROVE IInv'
  <2>1. StepFacts(p)'
    BY <1>12, <1>g DEF Stop, StepFacts
  <2> QED BY <1>12, <1>m, <1>c, <2>1 DEF Stop, Steps
<1>13. ASSUME NEW p \in Proc, Cleanup(p) PROVE IInv'
  <2>1. CASE Quit(p)
    BY <1>13, <1>q, <1>c, <2>1 DEF Cleanup
  <2>2. CASE ~Quit(p)
    <3>1. /\ file = "good" /\ pc'[p] = "restoring" /\ snap'[p] = saved
          /\ todo'[p] = HasEntry(saved) /\ failed'[p] = {}
      BY <1>t, <1>13, <2>2, <1>g DEF Cleanup, TypeOK
    <3>2. \A i \in Iface \ (HasEntry(saved) \cup gap) : Intact(i)
      BY <1>t DEF BackupCovers, HasEntry
    <3>3. StepFacts(p)'
      BY <1>13, <3>1, <3>2 DEF Cleanup, StepFacts, HasEntry, Intact
    <3> QED BY <1>13, <1>m, <1>c, <2>2, <3>3 DEF Cleanup, Steps
  <2> QED BY <2>1, <2>2
<1>14. ASSUME NEW p \in Proc, RestoreOne(p) PROVE IInv'
  <2>1. /\ pc[p] = "restoring" /\ file = "good" /\ snap[p] = saved
        /\ todo[p] \subseteq HasEntry(saved) /\ failed[p] \subseteq HasEntry(saved)
        /\ \A j \in Iface \ (todo[p] \cup failed[p] \cup gap) : Intact(j)
    BY <1>t, <1>14 DEF RestoreOne, StepFacts
  <2>2. PICK i \in todo[p] :
          /\ todo' = [todo EXCEPT ![p] = @ \ {i}]
          /\ \/ UNCHANGED failed /\ dns' = [dns EXCEPT ![i] = RestoreTo(snap[p][i])]
             \/ failed' = [failed EXCEPT ![p] = @ \cup {i}] /\ UNCHANGED dns
    BY <1>14 DEF RestoreOne, Cmdlet
  <2>3. /\ i \in Iface /\ saved[i] # NoEntry
        /\ i \notin gap => Same(i, RestoreTo(snap[p][i]), user[i])
        /\ Theirs(i, RestoreTo(snap[p][i]))
    BY <1>t, <2>1, <2>2 DEF BackupCovers, Faithful, HasEntry
  <2>4. UNCHANGED <<user, file, saved, snap, boot, gap>>
    BY <1>14 DEF RestoreOne
  <2>5. \A j \in Iface : \/ dns'[j] = dns[j]
                         \/ j = i /\ dns'[j] = RestoreTo(snap[p][i])
    BY <1>t, <2>2, <2>3 DEF TypeOK
  <2>6. \A j \in Iface \ gap : Intact(j) => Intact(j)'
    BY <2>3, <2>4, <2>5 DEF Intact, Same
  <2>7. \A j \in Iface : Theirs(j, dns[j]) => Theirs(j, dns[j])'
    BY <2>3, <2>4, <2>5 DEF Theirs
  <2>8. BackupCovers'
    <3>1. Faithful(saved)'
      BY <1>t, <2>4 DEF BackupCovers, Faithful, Theirs
    <3> QED BY <1>t, <2>4, <2>6, <2>7, <3>1 DEF BackupCovers
  <2>9. UserAllowed'
    BY <1>t, <2>4 DEF UserAllowed
  <2>10. todo'[p] = todo[p] \ {i} /\ failed'[p] \in {failed[p], failed[p] \cup {i}}
    BY <1>t, <2>2 DEF TypeOK
  <2>11. i \in failed'[p] \/ i \in gap \/ Intact(i)'
    BY <1>t, <2>2, <2>3, <2>4 DEF TypeOK, Intact, Same
  <2>12. \A j \in Iface \ (todo'[p] \cup failed'[p] \cup gap') : Intact(j)'
    BY <2>1, <2>4, <2>6, <2>10, <2>11
  <2>13. StepFacts(p)'
    <3>1. HasEntry(saved)' = HasEntry(saved)
      BY <2>4 DEF HasEntry
    <3>2. pc'[p] = "restoring"
      BY <1>14, <2>1 DEF RestoreOne
    <3>3. failed'[p] \subseteq HasEntry(saved)
      BY <2>1, <2>2, <2>10
    <3> QED BY <2>1, <2>4, <2>10, <2>12, <3>1, <3>2, <3>3 DEF StepFacts
  <2>14. Go(p, "restoring")
    BY <1>t, <1>14, <2>1 DEF RestoreOne, Go, TypeOK
  <2> QED BY <1>m, <2>1, <2>4, <2>8, <2>9, <2>13, <2>14 DEF Steps
<1>15. ASSUME NEW p \in Proc, EndRestore(p) PROVE IInv'
  <2>1. CASE Quit(p) /\ UNCHANGED gap
    BY <1>15, <1>q, <1>c, <2>1 DEF EndRestore
  <2>2. CASE Go(p, "remove") /\ UNCHANGED locals
    <3>1. /\ \A i \in Iface \ (failed[p] \cup gap) : Intact(i)
          /\ file = "good" /\ snap[p] = saved
      BY <1>t, <1>15, <1>g, <2>2 DEF EndRestore, StepFacts, Quit
    <3>2. /\ gap \subseteq gap' /\ failed[p] \subseteq gap'
          /\ Attentive => gap' = gap
      BY <1>15, <1>g, <2>2 DEF EndRestore, Quit, Attentive
    <3>3. UNCHANGED <<user, dns, file, saved, boot, snap>>
      BY <1>15, <2>2 DEF EndRestore
    <3>4. StepFacts(p)'
      <4>1. pc'[p] = "remove"
        BY <1>g, <2>2
      <4>2. \A i \in Iface \ gap' : Intact(i)'
        BY <3>1, <3>2, <3>3 DEF Intact
      <4> QED BY <3>1, <3>3, <4>1, <4>2 DEF StepFacts
    <3>5. UserAllowed' /\ BackupCovers'
      BY <1>t, <3>2, <3>3, CoversStutter
    <3>6. NothingGivenUp'
      BY <1>t, <3>2 DEF NothingGivenUp
    <3>7. BootFacts'
      BY <1>t, <2>2, <3>3, BootStays DEF Steps
    <3> QED BY <1>15, <1>w, <2>2, <3>4, <3>5, <3>6, <3>7 DEF EndRestore, Steps
  <2> QED BY <1>15, <2>1, <2>2 DEF EndRestore
<1>16. ASSUME NEW p \in Proc, Remove(p) PROVE IInv'
  <2>1. \A i \in Iface \ gap : Intact(i)
    BY <1>t, <1>16 DEF Remove, StepFacts
  <2>2. CASE file' = "none" /\ saved' = NoBackup
    <3>1. UserAllowed' /\ BackupCovers'
      BY <1>t, <1>16, <2>1, <2>2
         DEF Remove, UserAllowed, BackupCovers, Faithful, Intact, Theirs, NoBackup
    <3> QED BY <1>16, <1>q, <3>1 DEF Remove
  <2>3. CASE UNCHANGED disk
    BY <1>16, <1>q, <1>c, <2>3 DEF Remove
  <2> QED BY <1>16, <2>2, <2>3 DEF Remove
<1>17. ASSUME NEW p \in Proc, Crash(p) PROVE IInv'
  BY <1>17, <1>q, <1>c DEF Crash
<1>18. ASSUME NEW i \in Iface, NEW s \in UserSetting(i), UserEdit(i, s) PROVE IInv'
  <2>1. /\ file = "none" /\ saved = NoBackup
        /\ \A p \in Proc : pc[p] = "off" /\ pc'[p] = "off" /\ boot'[p] = {}
    BY <1>t, <1>18 DEF UserEdit, Undisturbed, BackupCovers, BootFacts
  <2>2. \A p \in Proc : StepFacts(p)'
    BY <2>1 DEF StepFacts
  <2>3. Solo' /\ BootFacts'
    BY <2>1 DEF Solo, BootFacts, BootstrapIsUsers
  <2>4. UserAllowed'
    BY <1>t, <1>18 DEF UserEdit, UserAllowed, TypeOK
  <2>5. /\ user'[i] = dns'[i] /\ gap' = gap \ {i} /\ UNCHANGED disk
        /\ \A j \in Iface \ {i} : user'[j] = user[j] /\ dns'[j] = dns[j]
    BY <1>t, <1>18 DEF UserEdit, TypeOK
  <2>6. BackupCovers'
    <3>1. \A j \in Iface \ gap' : Intact(j)'
      BY <1>t, <2>1, <2>5 DEF BackupCovers, Intact, Same, NoBackup
    <3>2. \A j \in Iface : Theirs(j, dns[j])'
      BY <1>t, <2>5 DEF BackupCovers, Theirs
    <3> QED BY <2>1, <2>5, <3>1, <3>2 DEF BackupCovers, Faithful, NoBackup
  <2>7. NothingGivenUp'
    BY <1>t, <2>5 DEF NothingGivenUp
  <2> QED BY <2>2, <2>3, <2>4, <2>6, <2>7 DEF IInv
<1>19. ASSUME NEW i \in Iface, Unplug(i) \/ Replug(i) PROVE IInv'
  <2>1. UNCHANGED <<user, dns, disk, pc, snap, todo, failed, ok, boot, gap>>
    BY <1>19 DEF Unplug, Replug
  <2>2. Solo' /\ \A p \in Proc : StepFacts(p)'
    BY <1>t, <2>1 DEF Solo, StepFacts, Faithful, Intact, Theirs, HasEntry
  <2>3. BootFacts' /\ NothingGivenUp'
    BY <1>t, <2>1 DEF BootFacts, BootstrapIsUsers, NothingGivenUp
  <2> QED BY <1>c, <2>1, <2>2, <2>3 DEF IInv
<1> QED
  BY <1>1, <1>2, <1>3, <1>4, <1>5, <1>6, <1>7, <1>8, <1>9, <1>10, <1>11, <1>12,
     <1>13, <1>14, <1>15, <1>16, <1>17, <1>18, <1>19
     DEF Next, Progress, Environment, Stop

(* The inductive invariant holds in every undisturbed behaviour.           *)
THEOREM Inductive ==
    ASSUME Undisturbed PROVE Spec => []IInv
<1>1. Init => IInv
  <2> SUFFICES ASSUME Init PROVE IInv
    OBVIOUS
  <2>1. TypeOK
    BY TakeoverAssumption DEF Init, TypeOK, Steps, NoBackup, Backup
  <2>2. Solo /\ UserAllowed /\ BootFacts /\ NothingGivenUp
    BY DEF Init, Solo, UserAllowed, BootFacts, BootstrapIsUsers, NothingGivenUp
  <2>3. BackupCovers
    BY DEF Init, BackupCovers, Faithful, Intact, Same, Theirs, NoBackup
  <2>4. \A p \in Proc : StepFacts(p)
    BY DEF Init, StepFacts
  <2> QED BY <2>1, <2>2, <2>3, <2>4 DEF IInv
<1>2. IInv /\ [Next]_vars /\ TypeOK' => IInv'
  <2>1. CASE Next
    BY <2>1, InvStep
  <2>2. ASSUME UNCHANGED vars, IInv PROVE IInv'
    <3>1. TypeOK' /\ Solo' /\ UserAllowed' /\ BackupCovers'
      BY <2>2 DEF IInv, TypeOK, Solo, UserAllowed, BackupCovers, Faithful, Intact, Theirs, vars
    <3>2. BootFacts' /\ NothingGivenUp'
      BY <2>2 DEF IInv, BootFacts, BootstrapIsUsers, NothingGivenUp, vars
    <3>3. \A p \in Proc : StepFacts(p)'
      BY <2>2 DEF IInv, StepFacts, Faithful, Intact, Theirs, HasEntry, vars
    <3> QED BY <3>1, <3>2, <3>3 DEF IInv
  <2> QED BY <2>1, <2>2
<1> QED BY <1>1, <1>2, Typing, PTL DEF Spec

(* NoLoss: whatever a crash, a failed script, an unplugged interface or a  *)
(* failed write does, each interface has its user's setting or             *)
(* prev_dns.json restores exactly that, but for those given up through a   *)
(* list of errors that did not parse or a backup that os.Stat failed on.   *)
THEOREM NothingLost ==
    ASSUME Undisturbed, Annotated PROVE Spec => []NoLoss
<1>1. IInv => NoLoss
  <2> SUFFICES ASSUME IInv, NEW i \in Iface \ gap, dns[i] # user[i]
               PROVE  CanRestore(i, user[i])
    BY DEF NoLoss
  <2>1. saved[i] # NoEntry
    BY DEF IInv, BackupCovers, Intact, Same, Annotated
  <2>2. file = "good"
    BY <2>1 DEF IInv, BackupCovers, NoBackup
  <2> QED BY <2>1, <2>2 DEF IInv, BackupCovers, Faithful, Same, Annotated, CanRestore
<1> QED BY <1>1, Inductive, PTL

(* Without these two faults there is no exception: no crash, script, write *)
(* or interface takes a setting away from its user.                        *)
THEOREM NothingLostAtAll ==
    ASSUME Undisturbed, Annotated, Attentive
    PROVE  Spec => [](NoLoss /\ \A i \in Iface : dns[i] = user[i] \/ CanRestore(i, user[i]))
<1>1. IInv /\ NoLoss => \A i \in Iface : dns[i] = user[i] \/ CanRestore(i, user[i])
  BY DEF IInv, NothingGivenUp, NoLoss
<1> QED BY <1>1, Inductive, NothingLost, PTL

(* NoResolverLoss: also with queries that lack the annotation, of which a  *)
(* restore makes static settings, each interface resolves with its user's  *)
(* servers or prev_dns.json gives it these, but for those given up.        *)
THEOREM ServersKept ==
    ASSUME Undisturbed PROVE Spec => []NoResolverLoss
<1>1. IInv => NoResolverLoss
  <2> SUFFICES ASSUME IInv, NEW i \in Iface \ gap, Addr(i, dns[i]) # Addr(i, user[i])
               PROVE  /\ file = "good" /\ saved[i] # NoEntry
                      /\ Addr(i, RestoreTo(saved[i])) = Addr(i, user[i])
    BY DEF NoResolverLoss
  <2>1. saved[i] # NoEntry
    BY DEF IInv, BackupCovers, Intact, Same
  <2>2. file = "good"
    BY <2>1 DEF IInv, BackupCovers, NoBackup
  <2> QED BY <2>1, <2>2 DEF IInv, BackupCovers, Faithful, Same
<1> QED BY <1>1, Inductive, PTL

(* BootstrapIsUsers: what a process resolves its upstreams with is its     *)
(* user's, whatever the settings have been through when it asks for them,  *)
(* those that were given up included.                                      *)
THEOREM BootstrapTrue ==
    ASSUME Undisturbed PROVE Spec => []BootstrapIsUsers
<1>1. IInv => BootstrapIsUsers
  BY DEF IInv, BootFacts
<1> QED BY <1>1, Inductive, PTL

-------------------------------------------------------------------------------
(* What a SetSystemDNS has done at the steps after it, unless it reported  *)
(* a failure, and so far at its own.                                       *)
Captured(p, left) ==
    /\ file = "good"
    /\ \A i \in HasServers(saved) \ (left \cup failed[p]) : dns[i] = Loopback

ServeFacts(p) ==
    /\ pc[p] = "setting" => Captured(p, todo[p])
    /\ pc[p] = "serve" /\ ok[p] =>
         Captured(p, {}) /\ ("mute" \notin Faults => failed[p] = {})
    /\ pc[p] \in {"off", "boot", "stat", "query", "create", "fill", "listen", "flip"} =>
         failed[p] = {} /\ ~ok[p]
    /\ pc[p] = "setting" => ~ok[p]

Serving == Solo /\ \A p \in Proc : ServeFacts(p)

(* No step of a single process lets it serve without what it has           *)
(* captured.                                                               *)
LEMMA ServingStep ==
    ASSUME Single, TypeOK, Serving, [Next]_vars
    PROVE  Serving'
<1> USE DEF machine, disk, locals
<1>m. ASSUME NEW p \in Proc, NEW s \in Steps, Go(p, s), pc[p] # "off" \/ MayStart(p),
             ServeFacts(p)', \A q \in Proc \ {p} : UNCHANGED <<failed[q], ok[q]>>
      PROVE  Serving'
  <2>1. \A q \in Proc \ {p} : pc[q] = "off"
    BY <1>m, Alone DEF Serving
  <2>2. \A q \in Proc \ {p} : pc'[q] = "off"
    BY <1>m, <2>1 DEF Go, TypeOK
  <2>3. ASSUME NEW q \in Proc \ {p} PROVE ServeFacts(q)'
    BY <1>m, <2>1, <2>2 DEF Serving, ServeFacts
  <2>4. Solo'
    BY <2>2 DEF Solo
  <2> QED BY <1>m, <2>3, <2>4 DEF Serving
<1>o. ASSUME NEW p \in Proc, NEW s \in Steps \ {"setting", "serve"}, Go(p, s),
             pc[p] # "off" \/ MayStart(p), UNCHANGED <<failed, ok>>,
             \/ s \in {"cleanup", "restoring", "remove"}
             \/ pc[p] \in {"off", "boot", "stat", "query", "create", "fill", "listen"}
      PROVE  Serving'
  <2>1. pc'[p] = s
    BY <1>o DEF Go, TypeOK
  <2>2. ServeFacts(p)'
    BY <1>o, <2>1 DEF Serving, ServeFacts
  <2> QED BY <1>m, <1>o, <2>2
<1>q. ASSUME NEW p \in Proc, Quit(p), pc[p] # "off" PROVE Serving'
  <2>1. pc'[p] = "off" /\ failed'[p] = {} /\ ~ok'[p] /\ Go(p, "off")
    BY <1>q DEF Quit, Go, TypeOK
  <2>2. ServeFacts(p)'
    BY <2>1 DEF ServeFacts
  <2>3. \A q \in Proc \ {p} : UNCHANGED <<failed[q], ok[q]>>
    BY <1>q DEF Quit, TypeOK
  <2> QED BY <1>m, <1>q, <2>1, <2>2, <2>3 DEF Steps
<1>1. ASSUME NEW p \in Proc, Start(p) \/ Uninstall(p) PROVE Serving'
  BY <1>o, <1>1 DEF Start, Uninstall, MayStart, Steps
<1>2. ASSUME NEW p \in Proc, GetBootstrapDNS(p) \/ Stat(p) \/ Query(p) \/ Create(p)
      PROVE  Serving'
  <2>1. PICK s \in {"stat", "query", "listen", "create", "fill"} : Go(p, s)
    BY <1>2 DEF GetBootstrapDNS, Stat, Query, Create
  <2> QED BY <1>o, <1>2, <2>1 DEF GetBootstrapDNS, Stat, Query, Create, Steps
<1>3. ASSUME NEW p \in Proc, Fill(p) \/ Listen(p) \/ Stop(p) PROVE Serving'
  <2>1. PICK s \in {"listen", "flip", "cleanup"} : Go(p, s)
    BY <1>3 DEF Fill, Listen, Stop
  <2> QED BY <1>o, <1>3, <2>1 DEF Fill, Listen, Stop, Steps
<1>4. ASSUME NEW p \in Proc, Flip(p) PROVE Serving'
  <2>1. failed'[p] = {} /\ ~ok[p] /\ UNCHANGED <<dns, file, saved>>
    BY <1>4 DEF Flip, Serving, ServeFacts
  <2>2. HasServers(saved)' = HasServers(saved)
    BY <2>1 DEF HasServers, HasEntry
  <2>3. \A q \in Proc \ {p} : UNCHANGED <<failed[q], ok[q]>>
    BY <1>4 DEF Flip, TypeOK
  <2>4. CASE Go(p, "setting") /\ file = "good" /\ UNCHANGED ok
             /\ todo' = [todo EXCEPT ![p] = HasServers(saved)]
    <3>1. pc'[p] = "setting" /\ todo'[p] = HasServers(saved)
      BY <2>4 DEF Go, TypeOK
    <3>2. ServeFacts(p)'
      BY <2>1, <2>2, <2>4, <3>1 DEF ServeFacts, Captured
    <3> QED BY <1>4, <1>m, <2>3, <2>4, <3>2 DEF Flip, Steps
  <2>5. CASE Go(p, "serve") /\ (ok'[p] => file = "good" /\ HasServers(saved) = {})
    <3>1. pc'[p] = "serve"
      BY <2>5 DEF Go, TypeOK
    <3>2. ServeFacts(p)'
      BY <2>1, <2>2, <2>5, <3>1 DEF ServeFacts, Captured
    <3> QED BY <1>4, <1>m, <2>3, <2>5, <3>2 DEF Flip, Steps
  <2> QED BY <1>4, <2>1, <2>4, <2>5 DEF Flip
<1>5. ASSUME NEW p \in Proc, SetOne(p) PROVE Serving'
  <2>1. /\ pc[p] = "setting" /\ pc' = pc /\ UNCHANGED <<file, saved, ok>>
        /\ Captured(p, todo[p]) /\ ~ok[p]
    BY <1>5 DEF SetOne, Serving, ServeFacts
  <2>2. PICK i \in todo[p] :
          /\ todo' = [todo EXCEPT ![p] = @ \ {i}]
          /\ \/ dns' = [dns EXCEPT ![i] = Loopback] /\ UNCHANGED failed
             \/ failed' = [failed EXCEPT ![p] = @ \cup {i}] /\ UNCHANGED dns
    BY <1>5 DEF SetOne, Cmdlet
  <2>3. i \in Iface /\ todo'[p] = todo[p] \ {i}
    BY <2>2 DEF TypeOK
  <2>4. \A j \in Iface : dns[j] = Loopback => dns'[j] = Loopback
    BY <2>2 DEF TypeOK
  <2>5. failed[p] \subseteq failed'[p] /\ (dns'[i] = Loopback \/ i \in failed'[p])
    BY <2>2, <2>3 DEF TypeOK
  <2>6. HasServers(saved)' = HasServers(saved) /\ HasServers(saved) \subseteq Iface
    BY <2>1 DEF HasServers, HasEntry
  <2>7. Captured(p, todo[p])'
    BY <2>1, <2>3, <2>4, <2>5, <2>6 DEF Captured
  <2>8. ServeFacts(p)'
    BY <2>1, <2>7 DEF ServeFacts
  <2>9. Go(p, "setting")
    BY <2>1 DEF Go, TypeOK
  <2>10. \A q \in Proc \ {p} : UNCHANGED <<failed[q], ok[q]>>
    BY <2>1, <2>2 DEF TypeOK
  <2> QED BY <1>m, <2>1, <2>8, <2>9, <2>10 DEF Steps
<1>6. ASSUME NEW p \in Proc, EndSet(p) PROVE Serving'
  <2>1. pc'[p] = "serve" /\ UNCHANGED <<dns, file, saved, failed>> /\ pc[p] = "setting"
    BY <1>6 DEF EndSet, Go, TypeOK
  <2>2. HasServers(saved)' = HasServers(saved)
    BY <2>1 DEF HasServers, HasEntry
  <2>3. ok'[p] => todo[p] = {} /\ ("mute" \notin Faults => failed[p] = {})
    BY <1>6, <2>1 DEF EndSet, TypeOK, Serving, ServeFacts
  <2>4. ServeFacts(p)'
    BY <2>1, <2>2, <2>3 DEF Serving, ServeFacts, Captured
  <2>5. \A q \in Proc \ {p} : UNCHANGED <<failed[q], ok[q]>>
    BY <1>6 DEF EndSet, TypeOK
  <2> QED BY <1>6, <1>m, <2>4, <2>5 DEF EndSet, Steps
<1>7. ASSUME NEW p \in Proc, Cleanup(p) PROVE Serving'
  <2>1. CASE Quit(p)
    BY <1>7, <1>q, <2>1 DEF Cleanup
  <2>2. CASE Go(p, "restoring") /\ failed' = [failed EXCEPT ![p] = {}] /\ UNCHANGED ok
    <3>1. pc'[p] = "restoring"
      BY <2>2 DEF Go, TypeOK
    <3>2. ServeFacts(p)'
      BY <3>1 DEF ServeFacts
    <3>3. \A q \in Proc \ {p} : UNCHANGED <<failed[q], ok[q]>>
      BY <2>2 DEF TypeOK
    <3> QED BY <1>7, <1>m, <2>2, <3>2, <3>3 DEF Cleanup, Steps
  <2> QED BY <1>7, <2>1, <2>2 DEF Cleanup
<1>8. ASSUME NEW p \in Proc, RestoreOne(p) PROVE Serving'
  <2>1. pc[p] = "restoring" /\ pc'[p] = "restoring" /\ Go(p, "restoring")
    BY <1>8 DEF RestoreOne, Go, TypeOK
  <2>2. ServeFacts(p)'
    BY <2>1 DEF ServeFacts
  <2>3. \A q \in Proc \ {p} : UNCHANGED <<failed[q], ok[q]>>
    BY <1>8 DEF RestoreOne, Cmdlet, TypeOK
  <2> QED BY <1>m, <2>1, <2>2, <2>3 DEF Steps
<1>9. ASSUME NEW p \in Proc, EndRestore(p) \/ Remove(p) \/ Crash(p) PROVE Serving'
  BY <1>o, <1>q, <1>9 DEF EndRestore, Remove, Crash, Steps
<1>10. ASSUME NEW i \in Iface, NEW s \in UserSetting(i), UserEdit(i, s) PROVE Serving'
  BY <1>10 DEF UserEdit, Serving, Solo, ServeFacts
<1>11. ASSUME NEW i \in Iface, Unplug(i) \/ Replug(i) PROVE Serving'
  BY <1>11 DEF Unplug, Replug, Serving, Solo, ServeFacts, Captured, HasServers, HasEntry
<1>12. CASE UNCHANGED vars
  BY <1>12 DEF vars, Serving, Solo, ServeFacts, Captured, HasServers, HasEntry
<1> QED
  BY <1>1, <1>2, <1>3, <1>4, <1>5, <1>6, <1>7, <1>8, <1>9, <1>10, <1>11, <1>12
     DEF Next, Progress, Environment

(* A server that serves after a SetSystemDNS that reported success has     *)
(* captured every interface of the backup that had servers, also when it   *)
(* resumes from the backup of a run that crashed, but for those named in a *)
(* list of errors that did not parse.                                      *)
THEOREM ServesCaptured ==
    ASSUME Single PROVE Spec => []CapturedWhileServing
<1>1. Init => Serving
  BY DEF Init, Serving, Solo, ServeFacts
<1>2. Serving => CapturedWhileServing
  BY DEF Serving, ServeFacts, Captured, CapturedWhileServing
<1> QED BY <1>1, <1>2, ServingStep, Typing, PTL DEF Spec

-------------------------------------------------------------------------------
(* A step that touches neither the settings nor the file nor gives         *)
(* anything up is invisible to DnsCustody.                                 *)
LEMMA Invisible ==
    ASSUME UNCHANGED <<user, dns, disk, gap>>
    PROVE  UNCHANGED Custody!custodyVars
BY DEF disk, Custody!custodyVars, Escrow

(* In the invariant, the escrow holds what the user wants, of what was not *)
(* given up.                                                               *)
LEMMA EscrowValue ==
    ASSUME IInv, Annotated
    PROVE  /\ \A i \in Iface : saved[i] # NoEntry =>
                /\ file = "good" /\ Escrow[i] = RestoreTo(saved[i]) /\ Escrow[i] # NoEntry
                /\ i \notin gap => Escrow[i] = user[i]
           /\ \A i \in Iface : saved[i] = NoEntry => Escrow[i] = NoEntry
<1>1. ASSUME NEW i \in Iface, saved[i] # NoEntry
      PROVE  /\ file = "good" /\ RestoreTo(saved[i]) # NoEntry
             /\ i \notin gap => RestoreTo(saved[i]) = user[i]
  <2>1. RestoreTo(saved[i]) # NoEntry
    BY <1>1, RestoreToType, NoEntryIsNoSetting DEF IInv, TypeOK, Backup
  <2> QED BY <1>1, <2>1 DEF IInv, BackupCovers, NoBackup, Faithful, Same, Annotated
<1> QED BY <1>1 DEF Escrow

(* Every step of the runner is a step of DnsCustody or leaves it alone.    *)
LEMMA StepSimulation ==
    ASSUME Undisturbed, Annotated, IInv, IInv', Next
    PROVE  [Custody!CustodyNext]_(Custody!custodyVars)
<1> USE DEF machine, disk, locals
<1>t. TypeOK /\ BackupCovers /\ \A p \in Proc : StepFacts(p)
  BY DEF IInv
<1>i. ASSUME UNCHANGED <<user, dns, disk, gap>>
      PROVE  [Custody!CustodyNext]_(Custody!custodyVars)
  BY <1>i, Invisible
<1>s. /\ \A i \in Iface : Intact(i) => dns[i] = user[i]
      /\ \A i, s, t : Same(i, s, t) => s = t
  BY DEF Annotated, Intact, Same
<1>n. file # "good" => Escrow = [i \in Iface |-> NoEntry]
  BY DEF Escrow
<1>f. ASSUME UNCHANGED <<user, dns, disk>>, NEW F \in SUBSET HasEntry(saved),
             gap' = gap \cup F, F = {} \/ ~Attentive
      PROVE  [Custody!CustodyNext]_(Custody!custodyVars)
  <2>1. CASE F = {}
    BY <1>f, <1>i, <2>1
  <2>2. CASE ~Attentive
    <3>1. \A i \in F : i \in Iface /\ Escrow[i] # NoEntry
      BY EscrowValue DEF HasEntry
    <3>2. Escrow' = Escrow
      BY <1>f DEF Escrow
    <3>3. Custody!Forfeit(F)
      BY <1>f, <2>2, <3>1, <3>2 DEF Custody!Forfeit
    <3>4. F \in SUBSET Iface
      BY <3>1
    <3> QED BY <3>3, <3>4 DEF Custody!CustodyNext
  <2> QED BY <1>f, <2>1, <2>2
<1>d. ASSUME UNCHANGED <<user, dns, gap>>, file' # "good",
             \A i \in Iface \ gap : saved[i] # NoEntry => dns[i] = user[i]
      PROVE  [Custody!CustodyNext]_(Custody!custodyVars)
  <2>1. Escrow' = [i \in Iface |-> NoEntry]
    BY <1>d DEF Escrow
  <2>2. \A i \in Iface \ gap : Escrow[i] # NoEntry => dns[i] = Escrow[i]
    BY <1>d, EscrowValue
  <2>3. Custody!Discard
    BY <1>d, <2>1, <2>2 DEF Custody!Discard, Custody!NoEscrow
  <2> QED BY <2>3 DEF Custody!CustodyNext
<1>1. ASSUME NEW p \in Proc, Create(p)
      PROVE  [Custody!CustodyNext]_(Custody!custodyVars)
  <2>1. HasEntry(saved) \subseteq gap
    BY <1>t, <1>1 DEF Create, StepFacts
  <2>2. CASE UNCHANGED disk
    BY <1>1, <1>i, <2>2 DEF Create
  <2>3. CASE file' = "torn"
    <3>1. \A i \in Iface \ gap : saved[i] = NoEntry
      BY <2>1 DEF HasEntry
    <3>2. UNCHANGED <<user, dns, gap>>
      BY <1>1 DEF Create
    <3> QED BY <1>d, <2>3, <3>1, <3>2
  <2> QED BY <1>1, <2>2, <2>3 DEF Create
<1>2. ASSUME NEW p \in Proc, Fill(p)
      PROVE  [Custody!CustodyNext]_(Custody!custodyVars)
  <2>1. file = "torn" /\ saved = NoBackup /\ Faithful(snap[p])
    BY <1>t, <1>2 DEF Fill, StepFacts, BackupCovers
  <2>2. \A i \in Iface \ gap : dns[i] = user[i]
    BY <1>t, <1>s, <2>1 DEF BackupCovers, NoBackup
  <2>3. CASE UNCHANGED disk
    BY <1>2, <1>i, <2>3 DEF Fill
  <2>4. CASE file' = "good" /\ saved' = snap[p]
    <3>1. \A i \in Iface \ gap : Escrow'[i] \in {dns[i], NoEntry}
      BY <1>s, <2>1, <2>2, <2>4 DEF Escrow, Faithful
    <3>2. Escrow' \in [Iface -> Setting \cup {Loopback, NoEntry}]
      <4>1. ASSUME NEW i \in Iface, saved'[i] # NoEntry
            PROVE  RestoreTo(saved'[i]) \in Setting \cup {Loopback}
        BY <1>t, <2>4, <4>1, RestoreToType DEF TypeOK, Backup
      <4> QED BY <4>1 DEF Escrow
    <3>3. UNCHANGED <<user, dns, gap>>
      BY <1>2 DEF Fill
    <3>4. Custody!Deposit
      BY <1>n, <2>1, <3>1, <3>2, <3>3 DEF Custody!Deposit, Custody!NoEscrow
    <3> QED BY <3>4 DEF Custody!CustodyNext
  <2> QED BY <1>2, <2>3, <2>4 DEF Fill
<1>3. ASSUME NEW p \in Proc, SetOne(p)
      PROVE  [Custody!CustodyNext]_(Custody!custodyVars)
  <2>1. PICK i \in todo[p] :
          dns' = [dns EXCEPT ![i] = Loopback] \/ UNCHANGED dns
    BY <1>3 DEF SetOne, Cmdlet
  <2>2. i \in Iface /\ Escrow[i] # NoEntry
    BY <1>t, <1>3, EscrowValue DEF SetOne, StepFacts, HasEntry
  <2>3. UNCHANGED <<user, disk, gap>> /\ Escrow' = Escrow
    BY <1>3 DEF SetOne, Escrow
  <2>4. CASE dns' = [dns EXCEPT ![i] = Loopback]
    BY <2>2, <2>3, <2>4 DEF Custody!CustodyNext, Custody!Capture
  <2>5. CASE UNCHANGED dns
    BY <1>i, <2>3, <2>5
  <2> QED BY <2>1, <2>4, <2>5
<1>4. ASSUME NEW p \in Proc, RestoreOne(p)
      PROVE  [Custody!CustodyNext]_(Custody!custodyVars)
  <2>1. PICK i \in todo[p] :
          dns' = [dns EXCEPT ![i] = RestoreTo(snap[p][i])] \/ UNCHANGED dns
    BY <1>4 DEF RestoreOne, Cmdlet
  <2>2. snap[p] = saved /\ i \in Iface /\ saved[i] # NoEntry
    BY <1>t, <1>4 DEF RestoreOne, StepFacts, HasEntry
  <2>3. Escrow[i] # NoEntry /\ Escrow[i] = RestoreTo(saved[i])
    BY <2>2, EscrowValue
  <2>4. UNCHANGED <<user, disk, gap>> /\ Escrow' = Escrow
    BY <1>4 DEF RestoreOne, Escrow
  <2>5. CASE dns' = [dns EXCEPT ![i] = RestoreTo(snap[p][i])]
    BY <2>2, <2>3, <2>4, <2>5 DEF Custody!CustodyNext, Custody!Release
  <2>6. CASE UNCHANGED dns
    BY <1>i, <2>4, <2>6
  <2> QED BY <2>1, <2>5, <2>6
<1>5. ASSUME NEW p \in Proc, Remove(p)
      PROVE  [Custody!CustodyNext]_(Custody!custodyVars)
  <2>1. \A i \in Iface \ gap : dns[i] = user[i]
    BY <1>t, <1>s, <1>5 DEF Remove, StepFacts
  <2>2. CASE UNCHANGED disk
    BY <1>5, <1>i, <2>2 DEF Remove
  <2>3. CASE file' = "none"
    BY <1>5, <1>d, <2>1, <2>3 DEF Remove
  <2> QED BY <1>5, <2>2, <2>3 DEF Remove
<1>6. ASSUME NEW i \in Iface, NEW s \in UserSetting(i), UserEdit(i, s)
      PROVE  [Custody!CustodyNext]_(Custody!custodyVars)
  <2>1. file = "none" /\ s \in Setting
    BY <1>6 DEF UserEdit, Undisturbed, UserSetting, Setting
  <2>2. Escrow' = Escrow
    BY <1>6 DEF UserEdit, Escrow
  <2>3. Custody!Edit(i, s)
    BY <1>6, <1>n, <2>1, <2>2 DEF UserEdit, Custody!Edit, Custody!NoEscrow
  <2> QED BY <2>1, <2>3 DEF Custody!CustodyNext
<1>7. ASSUME NEW p \in Proc,
             \/ Start(p) \/ Uninstall(p) \/ Stop(p) \/ Crash(p)
             \/ GetBootstrapDNS(p) \/ Query(p) \/ Listen(p)
             \/ Flip(p) \/ EndSet(p) \/ Cleanup(p)
      PROVE  UNCHANGED <<user, dns, disk, gap>>
  BY <1>7 DEF Start, Uninstall, Stop, Crash, GetBootstrapDNS, Query, Listen,
              Flip, EndSet, Cleanup
<1>8. ASSUME NEW i \in Iface, Unplug(i) \/ Replug(i)
      PROVE  UNCHANGED <<user, dns, disk, gap>>
  BY <1>8 DEF Unplug, Replug
<1>9. ASSUME NEW p \in Proc, Stat(p)
      PROVE  [Custody!CustodyNext]_(Custody!custodyVars)
  <2>1. UNCHANGED <<user, dns, disk>>
    BY <1>9 DEF Stat
  <2>2. gap' = gap \/ (gap' = gap \cup HasEntry(saved) /\ ~Attentive)
    BY <1>9 DEF Stat, Attentive
  <2> QED BY <1>f, <1>i, <2>1, <2>2
<1>10. ASSUME NEW p \in Proc, EndRestore(p)
       PROVE  [Custody!CustodyNext]_(Custody!custodyVars)
  <2>1. UNCHANGED <<user, dns, disk>>
    BY <1>10 DEF EndRestore
  <2>2. gap' = gap \/ (gap' = gap \cup failed[p] /\ ~Attentive)
    BY <1>10 DEF EndRestore, Attentive
  <2>3. failed[p] \subseteq HasEntry(saved)
    BY <1>t, <1>10 DEF EndRestore, StepFacts
  <2> QED BY <1>f, <1>i, <2>1, <2>2, <2>3
<1> QED
  BY <1>i, <1>1, <1>2, <1>3, <1>4, <1>5, <1>6, <1>7, <1>8, <1>9, <1>10
     DEF Next, Progress, Environment

(* The runner implements DnsCustody: a setting is taken over only from the *)
(* escrow prev_dns.json, released only from it, and the file is given up   *)
(* only when every interface has its setting back, or was forfeited        *)
(* through one of the two gaps in the code.                                *)
THEOREM Implementation ==
    ASSUME Undisturbed, Annotated PROVE Spec => ImplementsCustody
<1>1. Init => Custody!CustodyInit
  BY DEF Init, Custody!CustodyInit, Custody!NoEscrow, Escrow
<1>2. IInv /\ IInv' /\ [Next]_vars => [Custody!CustodyNext]_(Custody!custodyVars)
  <2>1. ASSUME UNCHANGED vars PROVE UNCHANGED Custody!custodyVars
    BY <2>1, Invisible DEF vars, disk
  <2> QED BY <2>1, StepSimulation
<1> QED BY <1>1, <1>2, Inductive, PTL DEF Spec, ImplementsCustody, Custody!CustodySpec

-------------------------------------------------------------------------------
(* The promise itself, argued at the level of the escrow.                  *)

(* Of what is not forfeited, what is not in the escrow has not been        *)
(* touched, and what is in it is what the user wants back.                 *)
CustodyInv ==
    /\ Custody!CustodyTypeOK
    /\ Custody!EscrowIsUser
    /\ \A i \in Iface \ gap : Escrow[i] = NoEntry => dns[i] = user[i]

(* Nothing the user chose is ever lost but what was forfeited, whatever is *)
(* deposited, captured, released or edited and in whatever order; and a    *)
(* custodian that may not forfeit loses nothing.                           *)
THEOREM CustodyKeepsPromise ==
    Custody!CustodySpec => [](Custody!CustodyNoLoss /\ (Attentive => gap = {}))
<1>1. Custody!CustodyInit => CustodyInv
  BY DEF Custody!CustodyInit, CustodyInv, Custody!CustodyTypeOK, Custody!EscrowIsUser,
         Custody!NoEscrow
<1>2. CustodyInv /\ [Custody!CustodyNext]_(Custody!custodyVars) => CustodyInv'
  <2> SUFFICES ASSUME CustodyInv, [Custody!CustodyNext]_(Custody!custodyVars)
               PROVE  CustodyInv'
    OBVIOUS
  <2> USE DEF CustodyInv, Custody!CustodyTypeOK, Custody!EscrowIsUser, Custody!NoEscrow
  <2>1. ASSUME NEW i \in Iface, NEW s \in Setting, Custody!Edit(i, s) PROVE CustodyInv'
    BY <2>1 DEF Custody!Edit
  <2>2. ASSUME Custody!Deposit PROVE CustodyInv'
    BY <2>2 DEF Custody!Deposit
  <2>3. ASSUME NEW i \in Iface, Custody!Capture(i) PROVE CustodyInv'
    BY <2>3 DEF Custody!Capture
  <2>4. ASSUME NEW i \in Iface, Custody!Release(i) PROVE CustodyInv'
    BY <2>4 DEF Custody!Release
  <2>5. ASSUME Custody!Discard PROVE CustodyInv'
    BY <2>5 DEF Custody!Discard
  <2>6. CASE UNCHANGED Custody!custodyVars
    BY <2>6 DEF Custody!custodyVars
  <2>7. ASSUME NEW F \in SUBSET Iface, Custody!Forfeit(F) PROVE CustodyInv'
    BY <2>7 DEF Custody!Forfeit
  <2> QED BY <2>1, <2>2, <2>3, <2>4, <2>5, <2>6, <2>7 DEF Custody!CustodyNext
<1>3. CustodyInv => Custody!CustodyNoLoss /\ (Attentive => gap = {})
  BY DEF CustodyInv, Custody!CustodyNoLoss, Custody!EscrowIsUser, Custody!CustodyTypeOK
<1> QED BY <1>1, <1>2, <1>3, PTL DEF Custody!CustodySpec

(* So the runner keeps it: at every moment an interface has its user's     *)
(* setting, or the backup on disk would restore exactly that one, or it    *)
(* went through one of the gaps, of which there is none as long as lists   *)
(* of errors parse and os.Stat works.                                      *)
THEOREM RunnerKeepsPromise ==
    ASSUME Undisturbed, Annotated
    PROVE  Spec => [](Custody!CustodyNoLoss /\ (Attentive => gap = {}))
BY Implementation, CustodyKeepsPromise, PTL DEF ImplementsCustody

===============================================================================
