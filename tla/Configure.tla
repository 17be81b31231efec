------------------------------- MODULE Configure -------------------------------
(***************************************************************************)
(* `zeusdns configure` and the first setup from end to end: the menu of    *)
(* ConfigureMenu or the form of tui/wizard.go, then Validate and Save of   *)
(* config/config.go, then the restart of cmd/configure.go, and beside them *)
(* the service that loads the file and other processes that save it.       *)
(*                                                                         *)
(* Of the configuration only the list of resolvers is followed.  While the *)
(* menu is open nothing else is: where the file and the service have got   *)
(* to by its end is chosen when it closes.                                 *)
(***************************************************************************)
EXTENDS ConfigureMenu

CONSTANTS
    Refused,    \* resolvers NewServer refuses: loopback, link-local, itself...
    OtherList,  \* a list somebody else may save
    NoList, Torn

ASSUME ConfigureAssumption ==
    /\ Refused \subseteq Resolver /\ Limit > 1
    /\ OtherList \in Seq(Resolver) /\ Len(OtherList) > 0

VARIABLES
    at,       \* where configure or the setup is
    file,     \* the list in config.yaml, NoList without the file
    temp,     \* Save's temporary file: "none", "empty", "whole", or "left" for good
    status,   \* what the SCM says of the service: "stopped", "pending", "running"
    served,   \* the list Run has loaded, NoList before
    others    \* somebody else has saved since the rename

world == <<file, status, served, others>>
allvars == <<menu, tests, timers, rounds, responded, at, file, temp, status, served, others>>

(* Config.Validate looks at the scheme of each resolver, NewServer at what *)
(* it parses to.                                                           *)
Valid(l) == Len(l) > 0 /\ \A i \in DOMAIN l : l[i] \notin Malformed
Usable(l) == Valid(l) /\ \A i \in DOMAIN l : l[i] \notin Refused

(* configure was started, with what Load gave it (ZEUSDNS_UPSTREAMS before *)
(* the file), or the setup, without a file.                                *)
ConfigureInit ==
    /\ Init /\ at \in {"menu", "form"} /\ (at = "form" => configured = <<>>)
    /\ file = NoList /\ temp = "none"
    /\ status = "stopped" /\ served = NoList /\ others = FALSE

MenuStep == at = "menu" /\ Next /\ UNCHANGED <<at, file, temp, status, served, others>>

(* The menu has closed; unless it was left with `s` and the list is valid, *)
(* nothing is saved.                                                       *)
MenuEnds ==
    /\ at = "menu" /\ mode = "quit"
    /\ at' = IF saved /\ Valid(upstreams) THEN "create" ELSE "end"
    /\ file' \in {NoList, configured, OtherList}
    /\ \/ status' = "stopped" /\ served' = NoList
       \/ /\ status' \in {"pending", "running"}
          /\ served' \in {NoList} \cup {l \in {configured, OtherList} : Usable(l)}
    /\ UNCHANGED <<menu, tests, timers, rounds, responded, temp, others>>

(* The form of the setup is cancelled, or takes a primary and a fallback   *)
(* that have responded; the list is not validated again.                   *)
FormEnds ==
    /\ at = "form"
    /\ \/ at' = "end" /\ UNCHANGED <<menu, responded>>
       \/ /\ at' = "create"
          /\ \E primary \in Resolver \ Malformed, fallback \in Resolver \ Malformed :
               /\ upstreams' \in {<<primary>>, <<primary, fallback>>}
               /\ responded' = {primary, fallback}
          /\ UNCHANGED <<configured, results, pendingTest, cursor, deletePending, mode, raw, saved>>
    /\ UNCHANGED <<tests, timers, rounds, file, temp, status, served, others>>
-------------------------------------------------------------------------------
(* Save                                                                    *)

session == <<menu, tests, timers, rounds, responded>>

(* An error of Save ends the command; the deferred function takes the      *)
(* temporary file away, and ignores it when that fails, as it does when the*)
(* file cannot be closed.                                                  *)
SaveFails ==
    /\ at' = "end" /\ UNCHANGED file
    /\ temp' \in {"none"} \cup (IF temp = "none" THEN {} ELSE {"left"})

CreateInPlace ==
    /\ at = "create" /\ at' = "write" /\ temp' = "empty" /\ file' = Torn
    /\ UNCHANGED <<session, status, served, others>>
(* os.CreateTemp                                                           *)
Create ==
    /\ at = "create"
    /\ \/ at' = "write" /\ temp' = "empty" /\ UNCHANGED file
       \/ SaveFails
    /\ UNCHANGED <<session, status, served, others>>

(* tmp.Write, tmp.Close and Chmod                                          *)
Write ==
    /\ at = "write"
    /\ \/ at' = "rename" /\ temp' = "whole" /\ UNCHANGED file
       \/ SaveFails
    /\ UNCHANGED <<session, status, served, others>>

RenameKeepingTemp ==
    /\ at = "rename"
    /\ \/ at' = "status" /\ file' = upstreams /\ temp' = "none" /\ others' = FALSE
       \/ at' = "end" /\ UNCHANGED <<file, temp, others>>
    /\ UNCHANGED <<session, status, served>>
(* os.Rename, which fails while somebody reads the file.                   *)
Rename ==
    /\ at = "rename"
    /\ \/ at' = "status" /\ file' = upstreams /\ temp' = "none" /\ others' = FALSE
       \/ SaveFails /\ UNCHANGED others
    /\ UNCHANGED <<session, status, served>>
-------------------------------------------------------------------------------
(* The restart                                                             *)

(* configure restarts a service that runs; the setup, whose menu never     *)
(* opened, starts one.                                                     *)
Status ==
    /\ at = "status"
    /\ at' = IF mode # "quit" THEN "start" ELSE IF status = "running" THEN "stop" ELSE "end"
    /\ UNCHANGED <<session, world, temp>>

(* stopAndWait comes back when the service has stopped, or gives up.       *)
Stop ==
    /\ at = "stop"
    /\ \/ at' = "start" /\ status' = "stopped" /\ served' = NoList
       \/ at' = "end" /\ \/ status' = "stopped" /\ served' = NoList
                         \/ UNCHANGED <<status, served>>
    /\ UNCHANGED <<session, file, others, temp>>

StartTolerant ==
    /\ at = "start"
    /\ \/ at' = "restarted" /\ status' = IF status = "stopped" THEN "pending" ELSE status
       \/ at' = "end" /\ UNCHANGED status
    /\ UNCHANGED <<session, file, served, others, temp>>
(* s.Start is refused when the service has been started by then.           *)
Start ==
    /\ at = "start"
    /\ \/ status = "stopped" /\ at' = "restarted" /\ status' = "pending"
       \/ at' = "end" /\ UNCHANGED status
    /\ UNCHANGED <<session, file, served, others, temp>>
-------------------------------------------------------------------------------
(* The others, once the menu or the form has closed.                       *)

Open == at \in {"menu", "form"}

(* Run loads the file and goes on, or ends because the list is refused.    *)
Load ==
    /\ ~Open /\ status # "stopped" /\ served = NoList
    /\ IF file # NoList /\ file # Torn /\ Usable(file)
         THEN served' = file /\ UNCHANGED status
         ELSE status' = "stopped" /\ UNCHANGED served
    /\ UNCHANGED <<session, at, temp, file, others>>

(* Execute reports Running, before or after Run has loaded the file.       *)
Report ==
    /\ ~Open /\ status = "pending" /\ status' = "running"
    /\ UNCHANGED <<session, at, temp, file, served, others>>

(* The service is started by the SCM or the user, or it dies.              *)
Restarted ==
    /\ ~Open
    /\ \/ status = "stopped" /\ status' = "pending" /\ UNCHANGED served
       \/ status # "stopped" /\ status' = "stopped" /\ served' = NoList
    /\ UNCHANGED <<session, at, temp, file, others>>

(* Another configure saves its list.                                       *)
OtherSave ==
    /\ ~Open /\ file' = OtherList /\ others' = TRUE
    /\ UNCHANGED <<session, at, temp, status, served>>

(* The process is killed.                                                  *)
Killed ==
    /\ at \in {"create", "write", "rename", "status", "stop", "start"} /\ at' = "end"
    /\ temp' = IF temp = "none" THEN "none" ELSE "left"
    /\ UNCHANGED <<session, world>>

ConfigureNext ==
    \/ MenuStep \/ MenuEnds \/ FormEnds
    \/ Create \/ Write \/ Rename \/ Status \/ Stop \/ Start
    \/ Load \/ Report \/ Restarted \/ OtherSave \/ Killed

ConfigureSpec == ConfigureInit /\ [][ConfigureNext]_allvars
-------------------------------------------------------------------------------
(* Properties                                                              *)

(* Whoever reads the file, and whoever is killed while writing it, finds a *)
(* whole list: one that was there, somebody else's, or one of resolvers    *)
(* each of which was configured or has responded to its validation.        *)
FileIsVetted ==
    \/ file \in {NoList, configured, OtherList}
    \/ /\ file = upstreams
       /\ \A i \in DOMAIN file :
            file[i] \in responded \cup {configured[j] : j \in DOMAIN configured}

(* A save that succeeds or fails leaves no temporary file behind: only a   *)
(* crash does, or a file that cannot be removed.                           *)
NoTempLeft == at \in {"status", "stop", "start", "restarted", "end"} => temp \in {"none", "left"}

(* "service restarted with new upstreams": after a restart that succeeded  *)
(* the service serves nothing but the list that was saved, until somebody  *)
(* else saves another.                                                     *)
SavedIsServed == at = "restarted" /\ ~others => served \in {NoList, upstreams}

===============================================================================
