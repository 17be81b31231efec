------------------------------- MODULE Takeover -------------------------------
(***************************************************************************)
(* How ZeusDNS takes over the system's DNS settings and gives them back:   *)
(* cmd/runner.go Run and cleanup, with windows/dns.go's SaveSystemDNS,     *)
(* GetBootstrapDNS, SetSystemDNS and RestoreSystemDNS, and the one file    *)
(* they share, prev_dns.json.                                              *)
(*                                                                         *)
(* Each step of a process is one call that the operating system sees: one  *)
(* PowerShell query, the creation of the file, the write that fills it,    *)
(* one Set-DnsClientServerAddress for one interface, the removal of the    *)
(* file.  Between two of them the process may be killed, an interface may  *)
(* disappear, and (fault "overlap") another process may take steps.        *)
(***************************************************************************)
EXTENDS Naturals, FiniteSets

CONSTANTS
    Iface,      \* network interfaces (an InterfaceAlias each)
    Server,     \* DNS server lists a user can configure, each one value
    Proc,       \* processes: the service, a foreground `run`, an `uninstall`
    Uninstaller,\* those of them that may be an `uninstall`
    Dhcp,       \* Dhcp[i]: interface i gets its IP configuration by DHCP
    Lease,      \* Lease[i]: the servers i gets when its setting is automatic
    Automatic,  \* the setting "obtain DNS server address automatically"
    Loopback,   \* the setting 127.0.0.1
    NoAddr,     \* an empty ServerAddresses list
    NoEntry,    \* no entry for an interface in prev_dns.json
    NoProc,     \* nobody holds port 53
    Faults,     \* what may go wrong in this instance, a subset of FaultKinds
    MaxCrashes  \* bound on the number of times a process is killed

FaultKinds ==
    { "crash",       \* a process is killed at any point
      "psfail",      \* a PowerShell launch or one of its cmdlets fails
      "unplug",      \* an interface disappears or comes back
      "io",          \* writing or removing prev_dns.json fails
      "dhcpq",       \* Get-NetIPInterface is unavailable
      "mute",        \* the list of errors of a script arrives unparsable
      "stat",        \* os.Stat of an existing prev_dns.json fails
      "bind",        \* another program has port 53, or NewServer fails
      "overlap",     \* a process starts while another one is running
      "edit_stale" } \* the user edits a setting while prev_dns.json dangles

Setting == {Automatic} \cup Server
Dhcps == {"Enabled", "Disabled", ""}
Entry == [addr : Server \cup {NoAddr, Loopback}, dhcp : Dhcps]
Backup == [Iface -> Entry \cup {NoEntry}]
NoBackup == [i \in Iface |-> NoEntry]

(* An interface without DHCP has no servers of its own to fall back on.    *)
ASSUME TakeoverAssumption ==
    /\ Dhcp \in [Iface -> BOOLEAN]
    /\ Lease \in [Iface -> Server \cup {NoAddr}]
    /\ \A i \in Iface : ~Dhcp[i] => Lease[i] = NoAddr
    /\ Uninstaller \subseteq Proc
    /\ Faults \subseteq FaultKinds
    /\ MaxCrashes \in Nat
    /\ Loopback \notin Setting
    /\ NoAddr \notin Setting \cup {Loopback}
    /\ Automatic \notin Server
    /\ NoEntry \notin Entry
    /\ NoProc \notin Proc

(* The file system's NoEntry also stands for an empty escrow place.        *)
ASSUME NoEntryIsNoSetting == NoEntry \notin Setting \cup {Loopback}

VARIABLES
    user,       \* ghost: the setting the user wants on each interface
    dns,        \* the setting each interface has
    present,    \* the interfaces Windows can see and change now
    file,       \* prev_dns.json: "none", "torn" (unparsable) or "good"
    saved,      \* the entries in prev_dns.json when it is good
    port,       \* the process that has port 53 bound
    crashes,    \* how many times a process was killed
    pc,         \* where each process is
    snap,       \* the entries a process holds (SaveSystemDNS, RestoreSystemDNS)
    todo,       \* the interfaces its running PowerShell script has left
    failed,     \* the interfaces in $errors of its last script
    ok,         \* its SetSystemDNS has reported no error
    boot,       \* its bootstrap resolvers; the empty set: publicBootstrap
    gap         \* ghost: interfaces of a backup given up before its time

machine == <<user, dns, present>>
disk == <<file, saved>>
locals == <<snap, todo, failed, ok, boot>>
vars == <<user, dns, present, file, saved, port, crashes, pc, snap, todo, failed,
          ok, boot, gap>>

Steps == { "off", "boot", "stat", "query", "create", "fill", "listen",
           "flip", "setting", "serve", "cleanup", "restoring", "remove" }

-------------------------------------------------------------------------------
(* What the operating system and the code's helpers compute.               *)

RawAddr(i, s) == s
(* The addresses Get-DnsClientServerAddress reports under setting s.       *)
Addr(i, s) == IF s = Automatic THEN Lease[i] ELSE s

(* dhcpString, or no annotation when Get-NetIPInterface is unavailable.    *)
DhcpMark(i, annotated) ==
    IF ~annotated THEN "" ELSE IF Dhcp[i] THEN "Enabled" ELSE "Disabled"

(* getSystemDNSAndDhcp: an entry for every interface Windows can see.      *)
Snapshot(annotated) ==
    [i \in Iface |-> IF i \in present
                       THEN [addr |-> Addr(i, dns[i]), dhcp |-> DhcpMark(i, annotated)]
                       ELSE NoEntry]

(* Whether this query may come back without, or with, the annotation.      *)
Annotation == {TRUE} \cup (IF "dhcpq" \in Faults THEN {FALSE} ELSE {})

(* The setting RestoreSystemDNS gives the interface of entry e.            *)
RestoreTo(e) == IF e.dhcp = "Enabled" \/ e.addr = NoAddr THEN Automatic ELSE e.addr

UnfilteredBootstrap == {Addr(i, dns[i]) : i \in present} \ {NoAddr}
(* GetBootstrapDNS: the servers in force, without loopback and the like.   *)
Bootstrap == {Addr(i, dns[i]) : i \in present} \ {NoAddr, Loopback}

(* The interfaces SetSystemDNS writes to, and RestoreSystemDNS.            *)
HasEntry(b) == {i \in Iface : b[i] # NoEntry}
HasServers(b) == {i \in HasEntry(b) : b[i].addr # NoAddr}

(* A process may start: alone, unless the instance allows an overlap.      *)
MayStart(p) ==
    /\ pc[p] = "off"
    /\ "overlap" \in Faults \/ \A q \in Proc : pc[q] = "off"

Go(p, s) == pc' = [pc EXCEPT ![p] = s]
-------------------------------------------------------------------------------
(* What a user may have on an interface: automatic, or on one without DHCP *)
(* a list of servers (the documented blind spot of RestoreSystemDNS, a     *)
(* manual override on a DHCP interface, is left out).                      *)
UserSetting(i) == IF Dhcp[i] THEN {Automatic} ELSE Setting

Init ==
    /\ user \in {u \in [Iface -> Setting] : \A i \in Iface : u[i] \in UserSetting(i)}
    /\ dns = user
    /\ present = Iface
    /\ file = "none" /\ saved = NoBackup
    /\ port = NoProc /\ crashes = 0
    /\ pc = [p \in Proc |-> "off"]
    /\ snap = [p \in Proc |-> NoBackup]
    /\ todo = [p \in Proc |-> {}]
    /\ failed = [p \in Proc |-> {}]
    /\ ok = [p \in Proc |-> FALSE]
    /\ boot = [p \in Proc |-> {}]
    /\ gap = {}

(* Run is entered: the service starts, or `zeusdns run`.                   *)
Start(p) ==
    /\ MayStart(p) /\ Go(p, "boot")
    /\ UNCHANGED <<machine, disk, port, crashes, locals, gap>>

(* `zeusdns uninstall`, which calls RestoreSystemDNS itself.               *)
Uninstall(p) ==
    /\ p \in Uninstaller /\ MayStart(p) /\ Go(p, "cleanup")
    /\ UNCHANGED <<machine, disk, port, crashes, locals, gap>>

(* GetBootstrapDNS; a failed query leaves publicBootstrap.                 *)
GetBootstrapDNS(p) ==
    /\ pc[p] = "boot" /\ Go(p, "stat")
    /\ \/ boot' = [boot EXCEPT ![p] = Bootstrap]
       \/ "psfail" \in Faults /\ boot' = [boot EXCEPT ![p] = {}]
    /\ UNCHANGED <<machine, disk, port, crashes, snap, todo, failed, ok, gap>>

StatIgnored(p) ==
    /\ pc[p] = "stat" /\ Go(p, "query")
    /\ UNCHANGED <<machine, disk, port, crashes, locals, gap>>
(* os.Stat: an existing prev_dns.json is kept, whatever is in it.  But any *)
(* error is taken for "no such file": then the backup may be overwritten.  *)
Stat(p) ==
    /\ pc[p] = "stat"
    /\ \/ /\ Go(p, IF file = "none" THEN "query" ELSE "listen")
          /\ UNCHANGED gap
       \/ /\ "stat" \in Faults /\ file # "none" /\ Go(p, "query")
          /\ gap' = gap \cup HasEntry(saved)
    /\ UNCHANGED <<machine, disk, port, crashes, locals>>

(* SaveSystemDNS's query.  Its failure is only a warning in Run.           *)
Query(p) ==
    /\ pc[p] = "query"
    /\ \/ /\ \E a \in Annotation : snap' = [snap EXCEPT ![p] = Snapshot(a)]
          /\ Go(p, "create")
       \/ "psfail" \in Faults /\ Go(p, "listen") /\ UNCHANGED snap
    /\ UNCHANGED <<machine, disk, port, crashes, todo, failed, ok, boot, gap>>

(* os.WriteFile first creates or truncates the file...                     *)
Create(p) ==
    /\ pc[p] = "create"
    /\ \/ file' = "torn" /\ saved' = NoBackup /\ Go(p, "fill")
       \/ "io" \in Faults /\ Go(p, "listen") /\ UNCHANGED disk
    /\ UNCHANGED <<machine, port, crashes, locals, gap>>

(* ... and then writes the entries into it.                                *)
Fill(p) ==
    /\ pc[p] = "fill" /\ Go(p, "listen")
    /\ \/ file' = "good" /\ saved' = snap[p]
       \/ "io" \in Faults /\ UNCHANGED disk
    /\ snap' = [snap EXCEPT ![p] = NoBackup]
    /\ UNCHANGED <<machine, port, crashes, todo, failed, ok, boot, gap>>

(* NewServer, Listen and PreWarm.  Listen fails when the port is taken, by *)
(* another process of ZeusDNS or by any other program.                     *)
Listen(p) ==
    /\ pc[p] = "listen"
    /\ \/ port = NoProc /\ port' = p /\ Go(p, "flip")
       \/ port # NoProc /\ Go(p, "cleanup") /\ UNCHANGED port
       \/ "bind" \in Faults /\ Go(p, "cleanup") /\ UNCHANGED port
    /\ UNCHANGED <<machine, disk, crashes, locals, gap>>

(* SetSystemDNS loads prev_dns.json and has nothing to run without an entry*)
(* that had servers.  If it cannot load it, Run only warns, and the server *)
(* serves without having taken the system over.                            *)
Flip(p) ==
    /\ pc[p] = "flip"
    /\ \/ /\ file = "good" /\ HasServers(saved) # {} /\ Go(p, "setting")
          /\ todo' = [todo EXCEPT ![p] = HasServers(saved)]
          /\ UNCHANGED ok
       \/ /\ file = "good" /\ HasServers(saved) = {} /\ Go(p, "serve")
          /\ ok' = [ok EXCEPT ![p] = TRUE]
          /\ UNCHANGED todo
       \/ /\ file # "good" \/ "io" \in Faults
          /\ Go(p, "serve")
          /\ UNCHANGED <<todo, ok>>
    /\ UNCHANGED <<machine, disk, port, crashes, snap, failed, boot, gap>>

(* A cmdlet of the script of p is through with interface i: it has set it  *)
(* to s, or has thrown, which the script records in $errors.               *)
Cmdlet(p, i, s) ==
    /\ todo' = [todo EXCEPT ![p] = @ \ {i}]
    /\ \/ i \in present /\ dns' = [dns EXCEPT ![i] = s] /\ UNCHANGED failed
       \/ /\ i \notin present \/ "psfail" \in Faults
          /\ failed' = [failed EXCEPT ![p] = @ \cup {i}] /\ UNCHANGED dns

SetOneSilently(p) ==
    /\ pc[p] = "setting"
    /\ \E i \in todo[p] :
         /\ todo' = [todo EXCEPT ![p] = @ \ {i}]
         /\ \/ i \in present /\ dns' = [dns EXCEPT ![i] = Loopback]
            \/ (i \notin present \/ "psfail" \in Faults) /\ UNCHANGED dns
    /\ UNCHANGED <<user, present, disk, port, crashes, pc, snap, failed, ok, boot, gap>>
(* One Set-DnsClientServerAddress -ServerAddresses '127.0.0.1'.            *)
SetOne(p) ==
    /\ pc[p] = "setting"
    /\ \E i \in todo[p] : Cmdlet(p, i, Loopback)
    /\ UNCHANGED <<user, present, disk, port, crashes, pc, snap, ok, boot, gap>>

(* The script ends, and its list of errors is read, or does not parse,     *)
(* which counts as success; or the PowerShell process dies with work left. *)
EndSet(p) ==
    /\ pc[p] = "setting" /\ Go(p, "serve")
    /\ \/ todo[p] = {} /\ ok' = [ok EXCEPT ![p] = failed[p] = {}]
       \/ todo[p] = {} /\ "mute" \in Faults /\ ok' = [ok EXCEPT ![p] = TRUE]
       \/ "psfail" \in Faults /\ UNCHANGED ok
    /\ todo' = [todo EXCEPT ![p] = {}]
    /\ UNCHANGED <<machine, disk, port, crashes, snap, failed, boot, gap>>

(* Serve returns: the context is cancelled, or the server failed.          *)
Stop(p) ==
    /\ pc[p] = "serve" /\ Go(p, "cleanup")
    /\ port' = NoProc
    /\ UNCHANGED <<machine, disk, crashes, locals, gap>>

(* A process that ends, by itself or not, leaves nothing of its memory.    *)
Quit(p) ==
    /\ Go(p, "off")
    /\ snap' = [snap EXCEPT ![p] = NoBackup]
    /\ todo' = [todo EXCEPT ![p] = {}]
    /\ failed' = [failed EXCEPT ![p] = {}]
    /\ ok' = [ok EXCEPT ![p] = FALSE]
    /\ boot' = [boot EXCEPT ![p] = {}]

(* RestoreSystemDNS: no file, nothing to do; an unreadable one, an error.  *)
Cleanup(p) ==
    /\ pc[p] = "cleanup"
    /\ \/ /\ file = "good" /\ Go(p, "restoring")
          /\ snap' = [snap EXCEPT ![p] = saved]
          /\ todo' = [todo EXCEPT ![p] = HasEntry(saved)]
          /\ failed' = [failed EXCEPT ![p] = {}]
          /\ UNCHANGED <<ok, boot>>
       \/ /\ file # "good" \/ "io" \in Faults
          /\ Quit(p)
    /\ UNCHANGED <<machine, disk, port, crashes, gap>>

(* One cmdlet of the restore script.                                       *)
RestoreOne(p) ==
    /\ pc[p] = "restoring"
    /\ \E i \in todo[p] : Cmdlet(p, i, RestoreTo(snap[p][i]))
    /\ UNCHANGED <<user, present, disk, port, crashes, pc, snap, ok, boot, gap>>

EndRestoreAnyway(p) ==
    /\ pc[p] = "restoring" /\ todo[p] = {} /\ Go(p, "remove")
    /\ UNCHANGED <<machine, disk, port, crashes, locals, gap>>
(* An error, of one interface or of the whole script, keeps the file.  But *)
(* a list of errors that does not parse counts as success: the file goes   *)
(* although these interfaces have not got their settings back.             *)
EndRestore(p) ==
    /\ pc[p] = "restoring"
    /\ \/ todo[p] = {} /\ failed[p] = {} /\ Go(p, "remove") /\ UNCHANGED <<locals, gap>>
       \/ /\ todo[p] = {} /\ "mute" \in Faults /\ Go(p, "remove")
          /\ gap' = gap \cup failed[p]
          /\ UNCHANGED locals
       \/ todo[p] = {} /\ failed[p] # {} /\ Quit(p) /\ UNCHANGED gap
       \/ "psfail" \in Faults /\ Quit(p) /\ UNCHANGED gap
    /\ UNCHANGED <<machine, disk, port, crashes>>

RemoveNothing(p) ==
    /\ pc[p] = "remove" /\ Quit(p)
    /\ UNCHANGED <<machine, disk, port, crashes, gap>>
(* os.Remove, its error ignored; Windows refuses it while a writer has the *)
(* file open.                                                              *)
Remove(p) ==
    /\ pc[p] = "remove" /\ Quit(p)
    /\ LET open == \E q \in Proc : pc[q] = "fill"
       IN \/ ~open /\ file' = "none" /\ saved' = NoBackup
          \/ ("io" \in Faults \/ open) /\ UNCHANGED disk
    /\ UNCHANGED <<machine, port, crashes, gap>>

(* The process is killed, or the machine restarts: Run's cleanup is not    *)
(* deferred, so nothing of it runs.                                        *)
Crash(p) ==
    /\ "crash" \in Faults /\ crashes < MaxCrashes
    /\ pc[p] # "off" /\ Quit(p)
    /\ crashes' = crashes + 1
    /\ port' = IF port = p THEN NoProc ELSE port
    /\ UNCHANGED <<machine, disk, gap>>

(* The user changes a setting while no ZeusDNS process runs.               *)
UserEdit(i, s) ==
    /\ \A p \in Proc : pc[p] = "off"
    /\ file = "none" \/ "edit_stale" \in Faults
    /\ i \in present
    /\ user' = [user EXCEPT ![i] = s]
    /\ dns' = [dns EXCEPT ![i] = s]
    /\ gap' = gap \ {i}
    /\ UNCHANGED <<present, disk, port, crashes, pc, locals>>

Unplug(i) ==
    /\ "unplug" \in Faults /\ i \in present
    /\ present' = present \ {i}
    /\ UNCHANGED <<user, dns, disk, port, crashes, pc, locals, gap>>

Replug(i) ==
    /\ i \in Iface \ present
    /\ present' = present \cup {i}
    /\ UNCHANGED <<user, dns, disk, port, crashes, pc, locals, gap>>

(* What a process does without being asked, once it is started or stopped. *)
Progress(p) ==
    \/ GetBootstrapDNS(p) \/ Stat(p) \/ Query(p) \/ Create(p) \/ Fill(p)
    \/ Listen(p) \/ Flip(p) \/ SetOne(p) \/ EndSet(p)
    \/ Cleanup(p) \/ RestoreOne(p) \/ EndRestore(p) \/ Remove(p)

Environment ==
    \/ \E p \in Proc : Start(p) \/ Uninstall(p) \/ Stop(p) \/ Crash(p)
    \/ \E i \in Iface : Unplug(i) \/ Replug(i)
    \/ \E i \in Iface : \E s \in UserSetting(i) : UserEdit(i, s)

Next == (\E p \in Proc : Progress(p)) \/ Environment

Spec == Init /\ [][Next]_vars

(* The operating system runs every process; no one is obliged to start,    *)
(* stop or kill one.                                                       *)
FairSpec == Spec /\ \A p \in Proc : WF_vars(Progress(p))
-------------------------------------------------------------------------------
(* Properties                                                              *)

(* Type invariant. *)
TypeOK ==
    /\ user \in [Iface -> Setting]
    /\ dns \in [Iface -> Setting \cup {Loopback}]
    /\ present \subseteq Iface
    /\ file \in {"none", "torn", "good"}
    /\ saved \in Backup
    /\ port \in Proc \cup {NoProc}
    /\ crashes \in 0..MaxCrashes
    /\ pc \in [Proc -> Steps]
    /\ snap \in [Proc -> Backup]
    /\ todo \in [Proc -> SUBSET Iface]
    /\ failed \in [Proc -> SUBSET Iface]
    /\ ok \in [Proc -> BOOLEAN]
    /\ boot \in [Proc -> SUBSET (Server \cup {Loopback})]
    /\ gap \subseteq Iface

(* The setting RestoreSystemDNS can still give interface i back.           *)
CanRestore(i, s) ==
    /\ file = "good" /\ saved[i] # NoEntry
    /\ RestoreTo(saved[i]) = s

(* Whatever fails or is killed, an interface has the setting its user      *)
(* wants or prev_dns.json restores exactly that setting, but for those     *)
(* the code gives up itself: which a restore failed on that could not read *)
(* its errors, or a start found in a backup that it could not stat.        *)
NoLoss == \A i \in Iface \ gap : dns[i] = user[i] \/ CanRestore(i, user[i])

(* The same of the servers an interface resolves with, which also holds    *)
(* when the DHCP annotation is missing and an automatic setting comes back *)
(* as the static list of its lease.                                        *)
NoResolverLoss ==
    \A i \in Iface \ gap :
        \/ Addr(i, dns[i]) = Addr(i, user[i])
        \/ /\ file = "good" /\ saved[i] # NoEntry
           /\ Addr(i, RestoreTo(saved[i])) = Addr(i, user[i])

(* Neither of the two ways in which the code gives a backup up.            *)
Attentive == Faults \cap {"mute", "stat"} = {}

(* A server that serves after SetSystemDNS reported success has captured   *)
(* every interface of prev_dns.json that had servers, also after           *)
(* crash-resume, but for those whose failure was in a list of errors that  *)
(* did not parse; and without such lists there are none.                   *)
CapturedWhileServing ==
    \A p \in Proc : pc[p] = "serve" /\ ok[p] =>
        /\ file = "good"
        /\ \A i \in HasServers(saved) \ failed[p] : dns[i] = Loopback
        /\ "mute" \notin Faults => failed[p] = {}

(* The servers of interface i that are not ZeusDNS are its user's.         *)
Theirs(i, s) == s = Loopback \/ Addr(i, s) = Addr(i, user[i])

(* The bootstrap resolvers are servers the user has on some interface:     *)
(* never ZeusDNS itself, nor what a restore has made of it, also when the  *)
(* process starts on settings that a crash or a failed script left half    *)
(* taken over or half restored.                                            *)
BootstrapIsUsers ==
    \A p \in Proc : boot[p] \subseteq {Addr(i, user[i]) : i \in Iface}

(* Once the crashes are over, a stop or an uninstall gives every interface *)
(* its servers back and leaves no backup that a later run restores from.   *)
StopRestores ==
    (\E p \in Proc : pc[p] = "cleanup" /\ crashes = MaxCrashes)
        ~> (file # "good" /\ \A i \in Iface : Addr(i, dns[i]) = Addr(i, user[i]))

(* The README's "sets 127.0.0.1 as your system DNS while running": while a *)
(* server serves whose SetSystemDNS has reported success, every interface  *)
(* that has servers is pointed at it.                                      *)
ServingCaptures ==
    \A p \in Proc : pc[p] = "serve" /\ ok[p] =>
        \A i \in present : Addr(i, user[i]) # NoAddr => dns[i] = Loopback

(* The parts of the inductive invariant behind NoLoss, NoResolverLoss and  *)
(* BootstrapIsUsers, for an instance without the faults that let two       *)
(* processes or the user interfere.                                        *)
Solo == \A p, q \in Proc : pc[p] # "off" /\ pc[q] # "off" => p = q

UserAllowed == \A i \in Iface : user[i] \in UserSetting(i)

(* Settings of interface i that are as good as each other: the same one    *)
(* or, where a query may lack the DHCP annotation, the same servers.       *)
Same(i, s, t) == s = t \/ ("dhcpq" \in Faults /\ Addr(i, s) = Addr(i, t))

Intact(i) == Same(i, dns[i], user[i])

(* A table of entries that gives every interface it names what its user    *)
(* wants, and those given up this or ZeusDNS.                              *)
Faithful(b) ==
    \A i \in Iface : b[i] # NoEntry =>
        /\ i \notin gap => Same(i, RestoreTo(b[i]), user[i])
        /\ Theirs(i, RestoreTo(b[i]))

(* Without a good backup nothing has been touched; with one, only what it  *)
(* names, and it restores what the user wants.                             *)
BackupCovers ==
    /\ file # "good" => saved = NoBackup
    /\ \A i \in Iface \ gap : saved[i] = NoEntry => Intact(i)
    /\ \A i \in Iface : Theirs(i, dns[i])
    /\ Faithful(saved)

(* What each process relies on at the step it is at.                       *)
StepFacts(p) ==
    /\ pc[p] \in {"query", "create"} => HasEntry(saved) \subseteq gap
    /\ pc[p] = "fill" => file = "torn"
    /\ pc[p] \in {"create", "fill"} => Faithful(snap[p])
    /\ pc[p] = "setting" => todo[p] \subseteq HasEntry(saved)
    /\ pc[p] \in {"restoring", "remove"} => file = "good" /\ snap[p] = saved
    /\ pc[p] = "restoring" =>
         /\ todo[p] \subseteq HasEntry(saved)
         /\ \A i \in Iface \ (todo[p] \cup failed[p] \cup gap) : Intact(i)
         /\ failed[p] \subseteq HasEntry(saved)
    /\ pc[p] = "remove" => \A i \in Iface \ gap : Intact(i)

(* A process that has ended has no bootstrap resolvers.                    *)
BootFacts == BootstrapIsUsers /\ \A p \in Proc : pc[p] = "off" => boot[p] = {}

(* Nothing is given up where lists of errors and os.Stat do not fail.      *)
NothingGivenUp == Attentive => gap = {}

(* Why NoLoss holds: prev_dns.json is written from untouched settings by   *)
(* the only process there is, and only a restore that reports no failure   *)
(* removes it.                                                             *)
IInv ==
    /\ TypeOK /\ Solo /\ UserAllowed /\ BackupCovers /\ BootFacts
    /\ \A p \in Proc : StepFacts(p)
    /\ NothingGivenUp

(* The escrow of DnsCustody is what prev_dns.json would restore.           *)
Escrow == [i \in Iface |-> IF file = "good" /\ saved[i] # NoEntry
                             THEN RestoreTo(saved[i]) ELSE NoEntry]

Custody == INSTANCE DnsCustody
           WITH escrow <- Escrow, forfeit <- gap, Nothing <- NoEntry,
                MayForfeit <- ~Attentive

(* Without overlapping processes the runner keeps DnsCustody's promise,    *)
(* step by step; it forfeits an interface only where its list of errors or *)
(* its os.Stat fails.                                                      *)
ImplementsCustody == Custody!CustodySpec

===============================================================================
