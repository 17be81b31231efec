---------------------------- MODULE ServiceLifecycle ----------------------------
(***************************************************************************)
(* The Windows service and the commands that manage it: service/windows.go *)
(* (the handler that runs Run, stopAndWait, Install, Uninstall), the       *)
(* commands of cmd/lifecycle.go and cmd/wizard.go, and the swap of the     *)
(* installed binary in updater/update.go.                                  *)
(*                                                                         *)
(* One command runs at a time, as a sequence of operations of which each   *)
(* is one call to the Service Control Manager (SCM), the file system or    *)
(* the registry; the service process and the SCM take steps in between.    *)
(* What Run does to the DNS settings (module Takeover) is one step each    *)
(* way here.                                                               *)
(***************************************************************************)
EXTENDS Naturals, Sequences

CONSTANTS
    Commands,   \* the commands a user may give, a subset of DOMAIN Program
    Faults,     \* what may go wrong, a subset of FaultKinds
    Shipped,    \* the version of a binary outside of the install directory
    Latest,     \* the version of the latest release
    NoFile,     \* no file
    Torn,       \* a file that is a part of a binary
    MaxCommands,\* bound on the number of commands given
    MaxKills    \* bound on the number of times the service is killed

FaultKinds ==
    { "kill",       \* the service process dies
      "runfail",    \* Run fails before it has taken the system over
      "startfail",  \* the SCM cannot launch the service
      "scm",        \* CreateService, SetRecoveryActions or DeleteService fails
      "restorefail",\* RestoreSystemDNS fails
      "slowstop",   \* a stop takes longer than stopAndWait waits
      "io",         \* a file operation of a command fails
      "leak",       \* a temporary file of update cannot be closed or removed
      "abort" }     \* a command is interrupted

Version == {Shipped, Latest}

(* The operations of each command, in order.  A failure is ignored unless  *)
(* the operation is one of Fatal or Undone.                                *)
Program ==
    [ install   |-> << "stop", "unregister", "preflight", "copy", "fill",
                       "unregister", "create", "path", "start" >>,
      wizard    |-> << "preflight", "copy", "fill", "unregister", "create", "path",
                       "launch" >>,
      uninstall |-> << "stop", "restore", "unregister!", "remove", "unpath" >>,
      start     |-> << "launch" >>,
      stop      |-> << "stop!" >>,
      restart   |-> << "stop~", "launch" >>,
      update    |-> << "fetch", "download", "signature", "extract", "digest", "stat",
                       "halt", "aside", "swap", "clear", "resume" >> ]

Stops == {"stop", "stop!", "stop~", "unregister", "unregister!"}

Fatal == {"stop!", "unregister!", "delete!", "preflight", "copy", "fill", "launch",
          "fetch", "download", "signature", "extract", "digest", "stat", "aside", "swap"}

Undone == {"create", "start"}

ASSUME ServiceLifecycleAssumption ==
    /\ Commands \subseteq DOMAIN Program /\ Faults \subseteq FaultKinds
    /\ Shipped # Latest /\ NoFile # Torn /\ {NoFile, Torn} \cap Version = {}
    /\ MaxCommands \in Nat /\ MaxKills \in Nat

VARIABLES
    registered, \* the SCM has an entry for the service
    watched,    \* the entry has the actions that restart a service that died
    binary,     \* the file at InstallPath: a version, Torn or NoFile
    aside,      \* the file beside it with the suffix .old
    path,       \* the install directory is on the machine's PATH
    state,      \* the state of the service the SCM reports
    stopreq,    \* the SCM has a stop request for the handler
    due,        \* the SCM will restart a service that died
    run,        \* the goroutine that executes cmd.Run
    dns,        \* who the system's DNS settings point at: "user" or "zeus", or
                \* "left": at ZeusDNS since RestoreSystemDNS failed
    cmd,        \* the command that runs, or ran last
    todo,       \* its operations left
    waiting,    \* it has asked the SCM to stop the service
    was,        \* update: the service was running
    temps,      \* update: the temporary files it has made, the zip and the program
    stuck,      \* those of them that could not be closed or removed
    self,       \* where the command's executable is: "binary", "aside", "elsewhere"
    image,      \* where the service process's executable is, or "none"
    outcome,    \* "ok" unless an operation of the command failed or interrupted it
    given,      \* commands given so far
    kills       \* services killed so far

files == <<binary, aside, path>>
entry == <<registered, watched>>
scm == <<entry, state, stopreq, due, run, dns, image>>
command == <<cmd, todo, waiting, was, temps, stuck, self, outcome>>
counts == <<given, kills>>
vars == <<registered, watched, binary, aside, path, state, stopreq, due, run, dns, cmd, todo,
          waiting, was, temps, stuck, self, image, outcome, given, kills>>
-------------------------------------------------------------------------------
Init ==
    /\ registered = FALSE /\ watched = FALSE
    /\ binary = NoFile /\ aside = NoFile /\ path = FALSE
    /\ state = "stopped" /\ stopreq = FALSE /\ due = FALSE /\ run = "none" /\ dns = "user"
    /\ cmd = "none" /\ todo = <<>> /\ waiting = FALSE /\ was = FALSE
    /\ temps = {} /\ stuck = {}
    /\ self = "elsewhere" /\ image = "none" /\ outcome = "ok"
    /\ given = 0 /\ kills = 0

(* The user gives a command, to the installed binary or to another copy.   *)
Give(c) ==
    /\ todo = <<>> /\ given < MaxCommands
    /\ given' = given + 1
    /\ cmd' = c /\ todo' = Program[c] /\ outcome' = "ok"
    /\ waiting' = FALSE /\ was' = FALSE /\ temps' = {} /\ stuck' = {}
    /\ self' \in {"elsewhere"} \cup (IF binary \in Version THEN {"binary"} ELSE {})
    /\ UNCHANGED <<files, scm, kills>>

At(op) == todo # <<>> /\ Head(todo) = op

Proceed == todo' = Tail(todo) /\ UNCHANGED <<cmd, waiting, was, temps, stuck, self, outcome>>

Abandon(result) ==
    /\ todo' = <<>> /\ outcome' = result /\ waiting' = FALSE
    /\ UNCHANGED <<cmd, was, temps, stuck, self>>

(* The removals an update had deferred are done, their errors ignored.     *)
RemoveTemps ==
    \E left \in SUBSET temps :
        /\ left = {} \/ "leak" \in Faults
        /\ temps' = left /\ stuck' = stuck \cup left

FailKeepingExe ==
    LET op == Head(todo) IN
    /\ waiting' = FALSE
    /\ todo' = IF op \in Undone THEN <<"undo">>
               ELSE IF op \in Fatal \/ (op = "stop~" /\ registered) THEN <<>>
               ELSE Tail(todo)
    /\ outcome' = IF op \in Undone \cup Fatal \/ (op = "stop~" /\ registered)
                    THEN "error" ELSE outcome
    /\ temps' = temps \cap {"exe"}
    /\ UNCHANGED <<cmd, was, stuck, self>>
(* The operation at the head of todo returns an error.                     *)
Fail ==
    LET op == Head(todo) IN
    /\ waiting' = FALSE
    /\ todo' = IF op \in Undone THEN <<"undo">>
               ELSE IF op \in Fatal \/ (op = "stop~" /\ registered) THEN <<>>
               ELSE Tail(todo)
    /\ outcome' = IF op \in Undone \cup Fatal \/ (op = "stop~" /\ registered)
                    THEN "error" ELSE outcome
    /\ RemoveTemps
    /\ UNCHANGED <<cmd, was, self>>
-------------------------------------------------------------------------------
(* stopAndWait, as a part of Stop, Restart and Uninstall.                  *)

RequestStop ==
    /\ todo # <<>> /\ Head(todo) \in Stops /\ ~waiting
    /\ registered /\ state = "running"
    /\ stopreq' = TRUE /\ waiting' = TRUE
    /\ UNCHANGED <<files, entry, state, due, run, dns, image, cmd, todo, was,
                   temps, stuck, self, outcome, counts>>

(* Uninstall deletes the service once it is stopped.                       *)
Deletion(op) == IF op = "unregister!" THEN "delete!" ELSE "delete"

(* The service is found stopped, at once or by a poll.                     *)
FindStopped ==
    /\ todo # <<>> /\ Head(todo) \in Stops
    /\ registered /\ state = "stopped"
    /\ waiting' = FALSE
    /\ todo' = IF Head(todo) \in {"unregister", "unregister!"}
                 THEN <<Deletion(Head(todo))>> \o Tail(todo) ELSE Tail(todo)
    /\ UNCHANGED <<files, scm, cmd, was, temps, stuck, self, outcome, counts>>

StopFailsTolerantly ==
    /\ todo # <<>> /\ Head(todo) \in Stops
    /\ \/ ~registered /\ Fail
       \/ /\ registered /\ state # "stopped" /\ (waiting \/ state # "running")
          /\ todo' = IF Head(todo) \in {"unregister", "unregister!"}
                       THEN <<Deletion(Head(todo))>> \o Tail(todo) ELSE Tail(todo)
          /\ waiting' = FALSE /\ UNCHANGED <<cmd, was, temps, stuck, self, outcome>>
    /\ UNCHANGED <<files, scm, counts>>
(* There is no such service, it takes no stop request in the state it is   *)
(* in, or 40 polls have not found it stopped.                              *)
StopFails ==
    /\ todo # <<>> /\ Head(todo) \in Stops
    /\ \/ ~registered
       \/ /\ state # "stopped"
          /\ IF waiting THEN "slowstop" \in Faults ELSE state # "running"
    /\ Fail
    /\ UNCHANGED <<files, scm, counts>>

(* s.Delete *)
Delete ==
    /\ At("delete") \/ At("delete!")
    /\ \/ Proceed /\ registered' = FALSE /\ watched' = FALSE
       \/ "scm" \in Faults /\ Fail /\ UNCHANGED <<entry>>
    /\ UNCHANGED <<files, state, stopreq, due, run, dns, image, counts>>
-------------------------------------------------------------------------------
(* The other operations of install, wizard and uninstall.                  *)

(* Preflight fails when somebody, such as our own service, has the port;   *)
(* loading and validating the configuration before it may fail as well.    *)
Preflight ==
    /\ At("preflight")
    /\ \/ run # "serving" /\ Proceed
       \/ (run = "serving" \/ "io" \in Faults) /\ Fail
    /\ UNCHANGED <<files, scm, counts>>

CopyIfMissing ==
    /\ At("copy")
    /\ IF binary = NoFile
         THEN Proceed /\ binary' = Torn
         ELSE /\ todo' = Tail(Tail(todo)) /\ UNCHANGED binary
              /\ UNCHANGED <<cmd, waiting, was, temps, stuck, self, outcome>>
    /\ UNCHANGED <<aside, path, scm, counts>>
(* promoteBinary: the installed file is truncated, unless the command runs *)
(* from it; a file that a process executes cannot be opened for that...    *)
Copy ==
    /\ At("copy")
    /\ \/ self = "binary" /\ Proceed /\ UNCHANGED binary
       \/ self # "binary" /\ image # "binary" /\ Proceed /\ binary' = Torn
       \/ self # "binary" /\ (image = "binary" \/ "io" \in Faults) /\ Fail /\ UNCHANGED binary
    /\ UNCHANGED <<aside, path, scm, counts>>

(* ... and written, or left as far as that came.                           *)
Fill ==
    /\ At("fill")
    /\ \/ Proceed /\ binary' = IF self = "binary" THEN binary ELSE Shipped
       \/ self # "binary" /\ "io" \in Faults /\ Fail /\ UNCHANGED binary
    /\ UNCHANGED <<aside, path, scm, counts>>

(* service.Install; SetRecoveryActions may fail after CreateService.       *)
Create ==
    /\ At("create")
    /\ \/ ~registered /\ Proceed /\ registered' = TRUE /\ watched' = TRUE
       \/ registered /\ Fail /\ UNCHANGED <<entry>>
       \/ "scm" \in Faults /\ ~registered /\ Fail
          /\ registered' \in BOOLEAN /\ UNCHANGED watched
    /\ UNCHANGED <<files, state, stopreq, due, run, dns, image, counts>>

(* What becomes of the PATH entry: an error is printed and ignored.        *)
SetPath(on) == path' \in {on} \cup (IF "io" \in Faults THEN {path} ELSE {})

AddPath ==
    /\ At("path") /\ Proceed /\ SetPath(TRUE)
    /\ UNCHANGED <<binary, aside, scm, counts>>

(* A file that no process executes can be removed, unless a scanner or the *)
(* file system prevents it.                                                *)
Removable(place) == image # place /\ self # place

Removed(place, file) ==
    (IF Removable(place) THEN {NoFile} ELSE {file}) \cup
    (IF "io" \in Faults THEN {file} ELSE {})

(* rollbackInstall: the binary and the PATH entry.                         *)
Undo ==
    /\ At("undo") /\ Abandon("error")
    /\ binary' \in Removed("binary", binary)
    /\ SetPath(FALSE)
    /\ UNCHANGED <<aside, scm, counts>>

(* What RestoreSystemDNS makes of settings that point at ZeusDNS.  No      *)
(* caller does more than warn when it fails.                               *)
Restored ==
    {"user"} \cup (IF "restorefail" \in Faults /\ dns # "user" THEN {"left"} ELSE {})

(* It is called by uninstall.                                              *)
Restore ==
    /\ At("restore") /\ Proceed /\ dns' \in Restored
    /\ UNCHANGED <<files, entry, state, stopreq, due, run, image, counts>>

RemoveBinary ==
    /\ At("remove") /\ Proceed
    /\ binary' \in Removed("binary", binary)
    /\ UNCHANGED <<aside, path, scm, counts>>

RemovePath ==
    /\ At("unpath") /\ Proceed /\ SetPath(FALSE)
    /\ UNCHANGED <<binary, aside, scm, counts>>

(* StartService launches the process when it can.                          *)
CanLaunch == registered /\ state = "stopped" /\ binary \in Version
Launched ==
    /\ state' = "startpending" /\ run' = "starting" /\ image' = "binary" /\ stopreq' = FALSE

Launch ==
    /\ At("start") \/ At("launch")
    /\ \/ CanLaunch /\ Launched /\ Proceed
       \/ (~CanLaunch \/ "startfail" \in Faults) /\ Fail
          /\ UNCHANGED <<state, run, image, stopreq>>
    /\ UNCHANGED <<files, entry, due, dns, counts>>
-------------------------------------------------------------------------------
(* update                                                                  *)

OwnVersion == IF self = "binary" THEN binary ELSE Shipped

(* The latest release is the program's own version; or it is newer and has *)
(* an asset for this machine; or there is none, it is older, or the request*)
(* fails.                                                                  *)
FetchRelease ==
    /\ At("fetch")
    /\ \/ OwnVersion = Latest /\ Abandon("ok")
       \/ OwnVersion # Latest /\ Proceed
       \/ Fail
    /\ UNCHANGED <<files, scm, counts>>

(* An operation that writes a temporary file.  A file that cannot be closed*)
(* is returned with the error, before its removal is deferred, and on      *)
(* other errors the file may not be removed.                               *)
Writes(file) ==
    \/ /\ temps' = temps \cup {file} /\ todo' = Tail(todo)
       /\ UNCHANGED <<cmd, waiting, was, stuck, self, outcome>>
    \/ Fail
    \/ /\ "leak" \in Faults
       /\ \E left \in SUBSET temps :
            temps' = left \cup {file} /\ stuck' = stuck \cup left \cup {file}
       /\ todo' = <<>> /\ outcome' = "error"
       /\ UNCHANGED <<cmd, waiting, was, self>>

(* downloadToTemp *)
Download ==
    /\ At("download") /\ Writes("zip") /\ UNCHANGED <<files, scm, counts>>

(* The signature of the zip is fetched and verified, or not.               *)
CheckSignature ==
    /\ At("signature") /\ (Proceed \/ Fail) /\ UNCHANGED <<files, scm, counts>>

(* extractExe *)
Extract ==
    /\ At("extract") /\ Writes("exe") /\ UNCHANGED <<files, scm, counts>>

(* verifyCandidate: the release lists the digest of the program, or not.   *)
CheckDigest ==
    /\ At("digest") /\ (Proceed \/ Fail) /\ UNCHANGED <<files, scm, counts>>

(* Only an installed binary is updated.                                    *)
Stat ==
    /\ At("stat") /\ IF binary # NoFile THEN Proceed ELSE Fail
    /\ UNCHANGED <<files, scm, counts>>

(* sc query and, when the service runs, sc stop, which does not wait.      *)
Halt ==
    /\ At("halt")
    /\ todo' = Tail(todo)
    /\ was' = (registered /\ state = "running")
    /\ stopreq' = (stopreq \/ was')
    /\ UNCHANGED <<files, entry, state, due, run, dns, image, cmd, waiting, temps,
                   stuck, self, outcome, counts>>

Moved(place, from, to) == IF place = from THEN to ELSE place

(* The previous .old file is removed and the binary renamed to .old, which *)
(* also works while it is executed.                                        *)
SetAside ==
    /\ At("aside")
    /\ \/ /\ aside = NoFile \/ Removable("aside")
          /\ aside' = binary /\ binary' = NoFile
          /\ image' = Moved(image, "binary", "aside")
          /\ self' = Moved(self, "binary", "aside")
          /\ todo' = Tail(todo) /\ UNCHANGED <<cmd, waiting, was, temps, stuck, outcome>>
       \/ /\ (aside # NoFile /\ ~Removable("aside")) \/ "io" \in Faults
          /\ Fail /\ UNCHANGED <<binary, aside, image>>
    /\ UNCHANGED <<path, entry, state, stopreq, due, run, dns, counts>>

SwapWithoutRollback ==
    /\ At("swap")
    /\ \/ /\ binary' = Latest /\ temps' = temps \ {"exe"} /\ todo' = Tail(todo)
          /\ UNCHANGED <<aside, outcome, stuck>>
       \/ /\ "io" \in Faults /\ binary' = NoFile /\ aside' = NoFile
          /\ todo' = <<>> /\ outcome' = "error" /\ RemoveTemps
    /\ UNCHANGED <<path, entry, state, stopreq, due, run, dns, cmd, waiting, was,
                   image, self, counts>>
(* The new binary takes the place, or the old one comes back, if it can.   *)
Swap ==
    /\ At("swap")
    /\ \/ /\ binary' = Latest /\ temps' = temps \ {"exe"} /\ todo' = Tail(todo)
          /\ UNCHANGED <<aside, image, self, outcome, stuck>>
       \/ /\ "io" \in Faults
          /\ \/ /\ binary' = aside /\ aside' = NoFile
                /\ image' = Moved(image, "aside", "binary")
                /\ self' = Moved(self, "aside", "binary")
             \/ UNCHANGED <<binary, aside, image, self>>
          /\ todo' = <<>> /\ outcome' = "error" /\ RemoveTemps
    /\ UNCHANGED <<path, entry, state, stopreq, due, run, dns, cmd, waiting, was,
                   counts>>

(* The .old file is removed, or left to the next start of the machine.     *)
Clear ==
    /\ At("clear") /\ Proceed
    /\ aside' \in Removed("aside", aside)
    /\ UNCHANGED <<binary, path, scm, counts>>

(* sc start, its error discarded, and the deferred removals.               *)
Resume ==
    /\ At("resume") /\ todo' = Tail(todo) /\ RemoveTemps
    /\ UNCHANGED <<cmd, waiting, was, self, outcome>>
    /\ \/ (was /\ CanLaunch) /\ Launched
       \/ /\ ~(was /\ CanLaunch) \/ "startfail" \in Faults
          /\ UNCHANGED <<state, run, image, stopreq>>
    /\ UNCHANGED <<files, entry, due, dns, counts>>

(* The command is interrupted.                                             *)
Abort ==
    /\ "abort" \in Faults /\ todo # <<>> /\ Abandon("aborted")
    /\ UNCHANGED <<files, scm, counts>>
-------------------------------------------------------------------------------
(* The service process: Execute and the goroutine of Run.                  *)

RunServes ==
    /\ run = "starting" /\ run' = "serving" /\ dns' = "zeus"
    /\ UNCHANGED <<files, entry, state, stopreq, due, image, command, counts>>

(* Before it has a server, Run returns without a cleanup; later, also when *)
(* Serve ends with an error, it returns with one.                          *)
RunFails ==
    /\ "runfail" \in Faults
    /\ \/ run = "starting" /\ run' \in {"exited", "cleanup"}
       \/ run = "serving" /\ run' = "cleanup"
    /\ UNCHANGED <<files, entry, state, stopreq, due, dns, image, command, counts>>

RunDeaf ==
    /\ run = "serving" /\ state = "stoppending" /\ stopreq /\ run' = "cleanup"
    /\ UNCHANGED <<files, entry, state, stopreq, due, dns, image, command, counts>>
(* Run looks at its context when it serves, not while it starts.           *)
RunCancelled ==
    /\ run = "serving" /\ state = "stoppending" /\ run' = "cleanup"
    /\ UNCHANGED <<files, entry, state, stopreq, due, dns, image, command, counts>>

RunCleansUp ==
    /\ run = "cleanup" /\ run' = "exited" /\ dns' \in Restored
    /\ UNCHANGED <<files, entry, state, stopreq, due, image, command, counts>>

ReportRunning ==
    /\ state = "startpending" /\ state' = "running"
    /\ UNCHANGED <<files, entry, stopreq, due, run, dns, image, command, counts>>

(* The handler takes the stop request: StopPending and cancel().           *)
TakeStop ==
    /\ state = "running" /\ stopreq
    /\ state' = "stoppending" /\ stopreq' = FALSE
    /\ UNCHANGED <<files, entry, due, run, dns, image, command, counts>>

ReportStoppedEarly ==
    /\ state = "stoppending" \/ (state = "running" /\ run = "exited")
    /\ state' = "stopped" /\ stopreq' = FALSE
    /\ run' = IF run = "exited" THEN "none" ELSE run
    /\ UNCHANGED <<files, entry, due, dns, image, command, counts>>
(* Stopped is reported when Run has returned: asked to, or by itself.      *)
ReportStopped ==
    /\ state \in {"stoppending", "running"} /\ run = "exited"
    /\ state' = "stopped" /\ run' = "none" /\ stopreq' = FALSE
    /\ UNCHANGED <<files, entry, due, dns, image, command, counts>>

(* The process ends, after it has reported Stopped.                        *)
ProcessExit ==
    /\ state = "stopped" /\ run = "none" /\ image # "none" /\ image' = "none"
    /\ UNCHANGED <<files, entry, state, stopreq, due, run, dns, command, counts>>

KillUnwatched ==
    /\ "kill" \in Faults /\ kills < MaxKills /\ state # "stopped"
    /\ kills' = kills + 1
    /\ state' = "stopped" /\ run' = "none" /\ image' = "none" /\ stopreq' = FALSE
    /\ UNCHANGED <<files, entry, due, dns, command, given>>
(* The SCM has recovery actions for a service that dies, if install got to *)
(* set them.                                                               *)
Kill ==
    /\ "kill" \in Faults /\ kills < MaxKills /\ state # "stopped"
    /\ kills' = kills + 1
    /\ state' = "stopped" /\ run' = "none" /\ image' = "none" /\ stopreq' = FALSE
    /\ due' = watched
    /\ UNCHANGED <<files, entry, dns, command, given>>

(* The recovery action: the SCM restarts the service, if it still can.     *)
Recover ==
    /\ due /\ due' = FALSE
    /\ IF CanLaunch THEN Launched ELSE UNCHANGED <<state, run, image, stopreq>>
    /\ UNCHANGED <<files, entry, dns, command, counts>>

Service ==
    \/ RunServes \/ RunFails \/ RunCancelled \/ RunCleansUp
    \/ ReportRunning \/ TakeStop \/ ReportStopped \/ ProcessExit

Operate ==
    \/ RequestStop \/ FindStopped \/ StopFails \/ Delete
    \/ Preflight \/ Copy \/ Fill \/ Create \/ AddPath \/ Undo
    \/ Restore \/ RemoveBinary \/ RemovePath \/ Launch
    \/ FetchRelease \/ Download \/ CheckSignature \/ Extract \/ CheckDigest \/ Stat
    \/ Halt \/ SetAside \/ Swap \/ Clear \/ Resume

Next ==
    \/ \E c \in Commands : Give(c)
    \/ Operate \/ Abort
    \/ Service \/ Kill \/ Recover

Spec == Init /\ [][Next]_vars

(* The service process, the SCM and a command that was given run on;       *)
(* nobody has to give one, and Run does not have to fail.                  *)
FairSpec ==
    /\ Spec
    /\ WF_vars(Operate)
    /\ WF_vars(RunServes \/ RunCancelled \/ RunCleansUp)
    /\ WF_vars(ReportRunning \/ TakeStop \/ ReportStopped \/ ProcessExit)
    /\ WF_vars(Recover)
-------------------------------------------------------------------------------
(* Properties                                                              *)

(* Type invariant; a file that is executed is there, and whole.            *)
TypeOK ==
    /\ registered \in BOOLEAN /\ watched \in BOOLEAN /\ path \in BOOLEAN
    /\ binary \in Version \cup {NoFile, Torn} /\ aside \in Version \cup {NoFile, Torn}
    /\ state \in {"stopped", "startpending", "running", "stoppending"}
    /\ stopreq \in BOOLEAN /\ due \in BOOLEAN
    /\ run \in {"none", "starting", "serving", "cleanup", "exited"}
    /\ dns \in {"user", "zeus", "left"}
    /\ cmd \in Commands \cup {"none"} /\ (waiting => todo # <<>>)
    /\ waiting \in BOOLEAN /\ was \in BOOLEAN
    /\ self \in {"elsewhere", "binary", "aside"} /\ image \in {"none", "binary", "aside"}
    /\ temps \subseteq {"zip", "exe"} /\ stuck \subseteq {"zip", "exe"}
    /\ outcome \in {"ok", "error", "aborted"}
    /\ binary \notin Version => "binary" \notin {self, image}
    /\ aside \notin Version => "aside" \notin {self, image}
    /\ given \in 0..MaxCommands /\ kills \in 0..MaxKills

(* Unless it was killed, a service the SCM reports as stopped has given    *)
(* the DNS settings back, or tried to: Stopped is not reported before Run's*)
(* cleanup, and only a RestoreSystemDNS that failed leaves them captured.  *)
StoppedMeansRestored == state = "stopped" /\ kills = 0 => dns # "zeus" /\ run = "none"

(* "refusing to delete a running service": the entry of a service goes     *)
(* only when its process has nothing left to do (a killed one may be       *)
(* restarted by the SCM after stopAndWait has found it stopped).           *)
NeverDeletesRunning ==
    [][registered /\ ~registered' /\ kills = 0 => run = "none"]_vars

(* The program is whole in its place, or it is set aside.                  *)
HasBinary == binary \in Version \/ (binary = NoFile /\ aside \in Version)

(* No failure of an update, of its rollback or of the service it stops     *)
(* loses the program: as long as it runs there is a whole binary, in its   *)
(* place or set aside from it.                                             *)
UpdateKeepsBinary == [][cmd = "update" /\ HasBinary => HasBinary']_vars

(* Whatever commands were given, failed or interrupted before, an install  *)
(* that reports success has registered the service and put the program that*)
(* was run in its place, not an earlier one or a part of one.              *)
InstallIsComplete ==
    cmd \in {"install", "wizard"} /\ todo = <<>> /\ outcome = "ok" =>
        registered /\ (self = "elsewhere" => binary = Shipped)

(* An update that runs to its end leaves no temporary file behind, however *)
(* far it came, save one it could not close or remove.                     *)
UpdateCleansUp ==
    cmd = "update" /\ todo = <<>> /\ outcome \in {"ok", "error"} => temps \subseteq stuck

(* An uninstall that reports "service uninstalled; system DNS restored"    *)
(* leaves no entry, no running service and no DNS settings that point at   *)
(* it, whatever the service was doing when it was asked to stop, unless    *)
(* RestoreSystemDNS failed, which it does not look at.                     *)
UninstallIsComplete ==
    cmd = "uninstall" /\ todo = <<>> /\ outcome = "ok" /\ kills = 0 =>
        ~registered /\ run = "none" /\ dns # "zeus"

(* Every stop the handler takes is carried out.                            *)
StopIsCarriedOut == (state = "stoppending") ~> (state = "stopped")

(* A crash that leaves the DNS settings at a dead server is repaired: the  *)
(* service comes back, or a command restores the settings, whatever        *)
(* commands come between.  Three things may prevent it: install could not  *)
(* set the recovery actions; the service is deleted or its binary is not in*)
(* its place, or not whole, when the SCM is to restart it; or the new Run  *)
(* fails before it has a server.                                           *)
CrashIsRepaired ==
    \/ <>(registered /\ ~watched)
    \/ <>(due /\ (~registered \/ binary \notin Version))
    \/ <>(run = "exited" /\ dns = "zeus")
    \/ (registered /\ run = "none" /\ dns = "zeus") ~> (run = "serving" \/ dns # "zeus")

(* Update "stops and restarts the service around the swap if it was        *)
(* running".                                                               *)
UpdateRestarts == (At("resume") /\ was) ~> (state = "running" /\ image = "binary")

===============================================================================
