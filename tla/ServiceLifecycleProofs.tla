------------------------- MODULE ServiceLifecycleProofs -------------------------
(***************************************************************************)
(* Proofs about ServiceLifecycle, for any commands and faults and any      *)
(* number of commands given and services killed.                           *)
(***************************************************************************)
EXTENDS ServiceLifecycle, TLAPS

USE DEF entry

(* The operations of the programs.                                         *)
Operation == Stops \cup Fatal \cup Undone \cup
    {"path", "restore", "remove", "unpath", "halt", "clear", "resume"}

(* What is left of a command from its i-th operation on.                   *)
Rest(c, i) == SubSeq(Program[c], i, Len(Program[c]))

(* What a command that has got to its i-th operation relies on: what the   *)
(* operations before it have done, nothing has undone since.               *)
Reached(c, i) ==
    /\ c = "install" =>
         /\ i > 5 /\ self = "elsewhere" => binary = Shipped
         /\ i > 7 => registered
    /\ c = "wizard" =>
         /\ i > 3 /\ self = "elsewhere" => binary = Shipped
         /\ i > 5 => registered
    /\ c = "uninstall" /\ i > 3 => ~registered /\ (kills = 0 => state = "stopped")
    /\ c = "update" =>
         /\ i = 1 \/ i = 12 => temps \subseteq stuck
         /\ i \in {7, 8, 10} => binary # NoFile
         /\ i = 9 => aside # NoFile /\ binary = NoFile

(* A command that runs is at one of its operations, or in the second half  *)
(* of an unregister, or rolls back.                                        *)
AtOperation ==
    /\ cmd \in Commands /\ outcome = "ok"
    /\ \E i \in 1..(Len(Program[cmd]) + 1) : todo = Rest(cmd, i) /\ Reached(cmd, i)
AtDelete ==
    /\ cmd \in Commands /\ outcome = "ok" /\ registered
    /\ kills = 0 => state = "stopped"
    /\ \E i \in 1..Len(Program[cmd]) :
         /\ Program[cmd][i] \in {"unregister", "unregister!"}
         /\ todo = <<Deletion(Program[cmd][i])>> \o Rest(cmd, i + 1) /\ Reached(cmd, i)
AtUndo == cmd \in {"install", "wizard"} /\ outcome = "error" /\ todo = <<"undo">>
Ended ==
    /\ todo = <<>>
    /\ cmd = "none" \/ outcome # "ok" \/ cmd = "update"
    /\ cmd = "update" /\ outcome \in {"ok", "error"} => temps \subseteq stuck

Place == AtOperation \/ AtDelete \/ AtUndo \/ Ended

(* The service process against the state the SCM reports.                  *)
RunFacts ==
    /\ state = "stopped" => run = "none"
    /\ kills = 0 => ~due
    /\ kills = 0 /\ run \in {"none", "starting", "exited"} => dns # "zeus"

IInv ==
    /\ TypeOK /\ RunFacts
    /\ waiting => Head(todo) \in Stops
    /\ Place
-------------------------------------------------------------------------------
(* The programs                                                            *)

(* Each command is a sequence of operations.                               *)
LEMMA ProgramType ==
    ASSUME NEW c \in DOMAIN Program
    PROVE  Program[c] \in Seq(Operation)
<1>1. c \in {"install", "wizard", "uninstall", "start", "stop", "restart", "update"}
  BY DEF Program
<1>2. CASE c = "install"
  BY <1>2 DEF Program, Operation, Stops, Fatal, Undone
<1>3. CASE c = "wizard"
  BY <1>3 DEF Program, Operation, Stops, Fatal, Undone
<1>4. CASE c = "uninstall"
  BY <1>4 DEF Program, Operation, Stops, Fatal, Undone
<1>5. CASE c = "start"
  BY <1>5 DEF Program, Operation, Stops, Fatal, Undone
<1>6. CASE c = "stop"
  BY <1>6 DEF Program, Operation, Stops, Fatal, Undone
<1>7. CASE c = "restart"
  BY <1>7 DEF Program, Operation, Stops, Fatal, Undone
<1>8. CASE c = "update"
  BY <1>8 DEF Program, Operation, Stops, Fatal, Undone
<1> QED BY <1>1, <1>2, <1>3, <1>4, <1>5, <1>6, <1>7, <1>8

(* The rest of a command is its next operation and the rest after it.      *)
LEMMA RestStep ==
    ASSUME NEW c \in DOMAIN Program, NEW i \in 1..Len(Program[c])
    PROVE  /\ Rest(c, i) # <<>> /\ Head(Rest(c, i)) = Program[c][i]
           /\ Tail(Rest(c, i)) = Rest(c, i + 1)
<1> DEFINE s == Program[c]
<1>1. s \in Seq(Operation) /\ i \in 1..Len(s)
  BY ProgramType
<1> HIDE DEF s
<1>2. /\ SubSeq(s, i, Len(s)) # <<>> /\ Head(SubSeq(s, i, Len(s))) = s[i]
      /\ Tail(SubSeq(s, i, Len(s))) = SubSeq(s, i + 1, Len(s))
  BY <1>1
<1> QED BY <1>2 DEF s, Rest

(* Nothing is left after the last operation, and everything before the     *)
(* first.                                                                  *)
LEMMA RestEnd ==
    ASSUME NEW c \in DOMAIN Program
    PROVE  Rest(c, Len(Program[c]) + 1) = <<>> /\ Rest(c, 1) = Program[c]
<1> DEFINE s == Program[c]
<1>1. s \in Seq(Operation)
  BY ProgramType
<1> HIDE DEF s
<1>2. SubSeq(s, Len(s) + 1, Len(s)) = <<>> /\ SubSeq(s, 1, Len(s)) = s
  BY <1>1
<1> QED BY <1>2 DEF s, Rest

(* What is left of a command is a sequence of operations.                  *)
LEMMA RestType ==
    ASSUME NEW c \in DOMAIN Program, NEW i \in 1..(Len(Program[c]) + 1)
    PROVE  Rest(c, i) \in Seq(Operation)
<1> DEFINE s == Program[c]
<1>1. s \in Seq(Operation) /\ i \in 1..(Len(s) + 1)
  BY ProgramType
<1> HIDE DEF s
<1>2. SubSeq(s, i, Len(s)) \in Seq(Operation)
  BY <1>1
<1> QED BY <1>2 DEF s, Rest

(* Where in the programs an operation is.                                  *)
LEMMA Places ==
    ASSUME NEW c \in DOMAIN Program, NEW i \in 1..Len(Program[c])
    PROVE  LET at(d, j) == c = d /\ i = j
               op == Program[c][i]
           IN  /\ op \notin {"delete", "delete!", "undo"}
               /\ op = "stop" => at("install", 1) \/ at("uninstall", 1)
               /\ op = "stop!" => c = "stop"
               /\ op = "stop~" => c = "restart"
               /\ op = "unregister" =>
                    at("install", 2) \/ at("install", 6) \/ at("wizard", 4)
               /\ op = "unregister!" => at("uninstall", 3)
               /\ op = "preflight" => at("install", 3) \/ at("wizard", 1)
               /\ op = "copy" => at("install", 4) \/ at("wizard", 2)
               /\ op = "fill" => at("install", 5) \/ at("wizard", 3)
               /\ op = "create" => at("install", 7) \/ at("wizard", 5)
               /\ op = "path" => at("install", 8) \/ at("wizard", 6)
               /\ op = "start" => at("install", 9)
               /\ op = "launch" => at("wizard", 7) \/ c \in {"start", "restart"}
               /\ op = "restore" => at("uninstall", 2)
               /\ op = "remove" => at("uninstall", 4)
               /\ op = "unpath" => at("uninstall", 5)
               /\ op = "fetch" => at("update", 1)
               /\ op = "download" => at("update", 2)
               /\ op = "signature" => at("update", 3)
               /\ op = "extract" => at("update", 4)
               /\ op = "digest" => at("update", 5)
               /\ op = "stat" => at("update", 6)
               /\ op = "halt" => at("update", 7)
               /\ op = "aside" => at("update", 8)
               /\ op = "swap" => at("update", 9)
               /\ op = "clear" => at("update", 10)
               /\ op = "resume" => at("update", 11)
<1>1. c \in {"install", "wizard", "uninstall", "start", "stop", "restart", "update"}
  BY DEF Program
<1>2. CASE c = "install"
  <2>1. i \in 1..9
    BY <1>2 DEF Program
  <2> QED BY <1>2, <2>1 DEF Program
<1>3. CASE c = "wizard"
  <2>1. i \in 1..7
    BY <1>3 DEF Program
  <2> QED BY <1>3, <2>1 DEF Program
<1>4. CASE c = "uninstall"
  <2>1. i \in 1..5
    BY <1>4 DEF Program
  <2> QED BY <1>4, <2>1 DEF Program
<1>5. CASE c = "start"
  BY <1>5 DEF Program
<1>6. CASE c = "stop"
  BY <1>6 DEF Program
<1>7. CASE c = "restart"
  <2>1. i \in 1..2
    BY <1>7 DEF Program
  <2> QED BY <1>7, <2>1 DEF Program
<1>8. CASE c = "update"
  <2>1. i \in 1..11
    BY <1>8 DEF Program
  <2> QED BY <1>8, <2>1 DEF Program
<1> QED BY <1>1, <1>2, <1>3, <1>4, <1>5, <1>6, <1>7, <1>8

-------------------------------------------------------------------------------
(* Where a command is                                                      *)

(* Every command that may be given is one of the programs.                 *)
LEMMA CommandType == Commands \subseteq DOMAIN Program
BY ServiceLifecycleAssumption

(* A program has a number of operations.                                   *)
LEMMA LenType == ASSUME NEW c \in DOMAIN Program PROVE Len(Program[c]) \in Nat
BY ProgramType

(* The operation a command in disjunct AtOperation is at.                  *)
LEMMA Current ==
    ASSUME AtOperation, todo # <<>>
    PROVE  \E i \in 1..Len(Program[cmd]) :
             /\ Head(todo) = Program[cmd][i] /\ Reached(cmd, i)
             /\ Tail(todo) = Rest(cmd, i + 1) /\ i + 1 \in 1..(Len(Program[cmd]) + 1)
<1>1. PICK i \in 1..(Len(Program[cmd]) + 1) : todo = Rest(cmd, i) /\ Reached(cmd, i)
  BY DEF AtOperation
<1>2. cmd \in DOMAIN Program /\ Len(Program[cmd]) \in Nat
  BY CommandType, LenType DEF AtOperation
<1>3. i # Len(Program[cmd]) + 1
  BY <1>1, <1>2, RestEnd
<1>4. i \in 1..Len(Program[cmd]) /\ i + 1 \in 1..(Len(Program[cmd]) + 1)
  BY <1>2, <1>3
<1> QED BY <1>1, <1>2, <1>4, RestStep

(* Where Delete is about to run, the command has just got to its           *)
(* unregistering.                                                          *)
LEMMA Deleting ==
    ASSUME AtDelete
    PROVE  /\ todo # <<>> /\ Head(todo) \in {"delete", "delete!"}
           /\ \E i \in 1..Len(Program[cmd]) :
                /\ Head(todo) = Deletion(Program[cmd][i])
                /\ Program[cmd][i] \in {"unregister", "unregister!"} /\ Reached(cmd, i)
                /\ Tail(todo) = Rest(cmd, i + 1) /\ i + 1 \in 1..(Len(Program[cmd]) + 1)
<1>1. PICK i \in 1..Len(Program[cmd]) :
        /\ Program[cmd][i] \in {"unregister", "unregister!"} /\ Reached(cmd, i)
        /\ todo = <<Deletion(Program[cmd][i])>> \o Rest(cmd, i + 1)
  BY DEF AtDelete
<1>2. cmd \in DOMAIN Program /\ Len(Program[cmd]) \in Nat
  BY CommandType, LenType DEF AtDelete
<1>3. i + 1 \in 1..(Len(Program[cmd]) + 1)
  BY <1>2
<1>4. Rest(cmd, i + 1) \in Seq(Operation)
  BY <1>2, <1>3, RestType
<1>5. /\ todo # <<>> /\ Head(todo) = Deletion(Program[cmd][i])
      /\ Tail(todo) = Rest(cmd, i + 1)
  BY <1>1, <1>4
<1> QED BY <1>1, <1>3, <1>5 DEF Deletion

(* A command about to do op is at a place of op in its program...          *)
LEMMA Where ==
    ASSUME IInv, NEW op, At(op), op \notin {"delete", "delete!", "undo"}
    PROVE  /\ cmd \in Commands /\ outcome = "ok"
           /\ \E i \in 1..Len(Program[cmd]) :
                /\ Program[cmd][i] = op /\ Reached(cmd, i)
                /\ Tail(todo) = Rest(cmd, i + 1) /\ i + 1 \in 1..(Len(Program[cmd]) + 1)
<1>1. AtOperation
  BY Deleting DEF IInv, Place, AtUndo, Ended, At
<1> QED BY <1>1, Current DEF At, AtOperation

(* ... or in the second half of an unregister, or rolls back.              *)
LEMMA WhereElse ==
    ASSUME IInv
    PROVE  (At("delete") \/ At("delete!") => AtDelete) /\ (At("undo") => AtUndo)
<1>1. AtOperation /\ todo # <<>> => Head(todo) \notin {"delete", "delete!", "undo"}
  BY Current, CommandType, Places DEF AtOperation
<1>2. AtDelete => Head(todo) \in {"delete", "delete!"}
  BY Deleting
<1> QED BY <1>1, <1>2 DEF IInv, Place, AtUndo, Ended, At

-------------------------------------------------------------------------------
(* How a command moves on                                                  *)

(* The operation is done, and the command relies on what it has done.      *)
LEMMA Advance ==
    ASSUME IInv, NEW op, At(op), op \notin {"delete", "delete!", "undo"},
           todo' = Tail(todo), UNCHANGED <<cmd, outcome>>,
           cmd \in DOMAIN Program =>
             \A i \in 1..Len(Program[cmd]) :
               Program[cmd][i] = op /\ Reached(cmd, i) => Reached(cmd, i + 1)'
    PROVE  Place'
<1>1. cmd \in Commands /\ outcome = "ok"
  BY Where
<1>2. PICK i \in 1..Len(Program[cmd]) :
        /\ Program[cmd][i] = op /\ Reached(cmd, i)
        /\ Tail(todo) = Rest(cmd, i + 1) /\ i + 1 \in 1..(Len(Program[cmd]) + 1)
  BY Where
<1>3. Reached(cmd, i + 1)'
  BY <1>1, <1>2, CommandType
<1> QED BY <1>1, <1>2, <1>3 DEF Place, AtOperation

(* The files that the deferred removals leave are those that are stuck.    *)
LEMMA LeavesStuck == Fail \/ RemoveTemps => temps' \subseteq stuck'
BY DEF Fail, RemoveTemps

(* NoFile and Torn are no whole binary.                                    *)
LEMMA NotWhole == NoFile \notin Version /\ Torn \notin Version
BY ServiceLifecycleAssumption

(* The operation fails, and the command with it.                           *)
LEMMA FailEnds ==
    ASSUME IInv, NEW op \in Fatal, At(op), Fail
    PROVE  Place'
<1>1. todo' = <<>> /\ outcome' = "error"
  BY DEF At, Fail, Fatal, Undone
<1> QED BY <1>1, LeavesStuck DEF Place, Ended

(* An operation fails that install and the wizard undo: that is left.      *)
LEMMA FailUndoes ==
    ASSUME IInv, NEW op \in Undone, At(op), Fail
    PROVE  Place'
<1>1. cmd \in {"install", "wizard"}
  BY Where, Places, CommandType DEF Undone
<1> QED BY <1>1 DEF At, Fail, Undone, Place, AtUndo

(* The steps of the service process and the SCM.                           *)
LEMMA PlaceStays ==
    ASSUME IInv,
           UNCHANGED <<cmd, todo, temps, stuck, self, outcome, binary, aside, registered>>,
           kills' = 0 => kills = 0,
           kills' = 0 /\ state = "stopped" => state' = "stopped"
    PROVE  Place'
<1>1. \A i \in Nat : Reached(cmd, i) => Reached(cmd, i)'
  BY DEF Reached
<1>2. CASE AtOperation
  BY <1>1, <1>2, CommandType, LenType DEF AtOperation, Place
<1>3. CASE AtDelete
  <2>1. PICK i \in 1..Len(Program[cmd]) :
          /\ Program[cmd][i] \in {"unregister", "unregister!"}
          /\ todo = <<Deletion(Program[cmd][i])>> \o Rest(cmd, i + 1) /\ Reached(cmd, i)
    BY <1>3 DEF AtDelete
  <2>2. i \in Nat
    BY <1>3, CommandType, LenType DEF AtDelete
  <2>3. Reached(cmd, i)'
    BY <1>1, <2>1, <2>2
  <2>4. todo' = <<Deletion(Program[cmd][i])>>' \o Rest(cmd, i + 1)'
    BY <2>1 DEF Deletion, Rest
  <2> QED BY <1>3, <2>1, <2>3, <2>4 DEF AtDelete, Place
<1>4. CASE AtUndo
  BY <1>4 DEF AtUndo, Place
<1>5. CASE Ended
  <2>1. Ended'
    BY <1>5 DEF Ended
  <2> QED BY <2>1 DEF Place
<1> QED BY <1>2, <1>3, <1>4, <1>5 DEF IInv, Place

(* Every step keeps a command in one place of its program.                 *)
LEMMA PlaceStep ==
    ASSUME IInv, [Next]_vars
    PROVE  Place'
<1> USE DEF files, scm, counts
<1>t. TypeOK
  BY DEF IInv
<1>1. ASSUME NEW c \in Commands, Give(c) PROVE Place'
  <2>1. c \in DOMAIN Program /\ todo' = Rest(c, 1) /\ 1 \in 1..(Len(Program[c]) + 1)
    BY <1>1, CommandType, LenType, RestEnd DEF Give
  <2>2. Reached(c, 1)'
    BY <1>1 DEF Give, Reached
  <2> QED BY <1>1, <2>1, <2>2 DEF Give, Place, AtOperation
<1>2. ASSUME RequestStop PROVE Place'
  BY <1>2, PlaceStays DEF RequestStop
<1>3. ASSUME FindStopped PROVE Place'
  <2>1. CASE Head(todo) \in {"unregister", "unregister!"}
    <3>1. cmd \in Commands /\ outcome = "ok"
      BY <1>3, <2>1, Where DEF FindStopped, At
    <3>2. PICK i \in 1..Len(Program[cmd]) :
            /\ Program[cmd][i] = Head(todo) /\ Reached(cmd, i)
            /\ Tail(todo) = Rest(cmd, i + 1)
      BY <1>3, <2>1, Where DEF FindStopped, At
    <3>3. /\ todo' = <<Deletion(Program[cmd][i])>> \o Rest(cmd, i + 1)
          /\ Reached(cmd, i)'
      BY <1>3, <2>1, <3>2 DEF FindStopped, Reached
    <3> QED BY <1>3, <2>1, <3>1, <3>2, <3>3 DEF FindStopped, Place, AtDelete
  <2>2. CASE Head(todo) \in {"stop", "stop!", "stop~"}
    BY <1>3, <2>2, Advance, Places DEF FindStopped, At, Reached
  <2> QED BY <1>3, <2>1, <2>2 DEF FindStopped, Stops
<1>4. ASSUME StopFails PROVE Place'
  <2>1. CASE Head(todo) \in {"stop!", "unregister!"}
    BY <1>4, <2>1, FailEnds DEF StopFails, At, Fatal
  <2>2. CASE Head(todo) = "stop~" /\ registered
    <3>1. Fail
      BY <1>4 DEF StopFails
    <3>2. todo' = <<>> /\ outcome' = "error"
      BY <2>2, <3>1 DEF Fail, Undone
    <3> QED BY <3>1, <3>2, LeavesStuck DEF Place, Ended
  <2>3. CASE Head(todo) \in {"stop", "unregister"} \/ (Head(todo) = "stop~" /\ ~registered)
    <3>1. todo' = Tail(todo) /\ UNCHANGED <<cmd, outcome>>
      BY <1>4, <2>3 DEF StopFails, Fail, Undone, Fatal
    <3>2. UNCHANGED <<binary, aside, registered, self, state, kills>>
      BY <1>4 DEF StopFails, Fail
    <3>3. \A i \in 1..Len(Program[cmd]) :
            cmd \in DOMAIN Program /\ Program[cmd][i] = Head(todo) /\ Reached(cmd, i)
              => Reached(cmd, i + 1)'
      BY <2>3, <3>1, <3>2, Places DEF Reached
    <3> QED BY <1>4, <2>3, <3>1, <3>3, Advance DEF StopFails, At
  <2> QED BY <1>4, <2>1, <2>2, <2>3 DEF StopFails, Stops
<1>5. ASSUME Delete PROVE Place'
  <2>1. AtDelete
    BY <1>5, WhereElse DEF Delete
  <2>2. PICK i \in 1..Len(Program[cmd]) :
          /\ Head(todo) = Deletion(Program[cmd][i])
          /\ Program[cmd][i] \in {"unregister", "unregister!"} /\ Reached(cmd, i)
          /\ Tail(todo) = Rest(cmd, i + 1) /\ i + 1 \in 1..(Len(Program[cmd]) + 1)
    BY <2>1, Deleting
  <2>3. CASE Proceed /\ ~registered'
    <3>1. Reached(cmd, i + 1)'
      BY <1>5, <2>1, <2>2, <2>3, Places, CommandType DEF Delete, Proceed, Reached, AtDelete
    <3> QED BY <2>1, <2>2, <2>3, <3>1 DEF Proceed, Place, AtOperation, AtDelete
  <2>4. CASE Fail /\ UNCHANGED registered /\ Program[cmd][i] = "unregister!"
    <3>1. todo' = <<>> /\ outcome' = "error"
      BY <2>2, <2>4 DEF Fail, Deletion, Fatal, Undone
    <3> QED BY <2>4, <3>1, LeavesStuck DEF Place, Ended
  <2>5. CASE Fail /\ UNCHANGED registered /\ Program[cmd][i] = "unregister"
    <3>1. todo' = Tail(todo) /\ UNCHANGED <<cmd, outcome, self>>
      BY <2>2, <2>5 DEF Fail, Deletion, Fatal, Undone
    <3>2. Reached(cmd, i + 1)'
      BY <1>5, <2>1, <2>2, <2>5, <3>1, Places, CommandType DEF Delete, Reached, AtDelete
    <3> QED BY <2>1, <2>2, <3>1, <3>2 DEF Place, AtOperation, AtDelete
  <2> QED BY <1>5, <2>2, <2>3, <2>4, <2>5 DEF Delete
<1>6. ASSUME Preflight \/ Copy \/ Fill PROVE Place'
  <2>1. PICK op \in {"preflight", "copy", "fill"} : At(op)
    BY <1>6 DEF Preflight, Copy, Fill
  <2>2. CASE Fail
    BY <2>1, <2>2, FailEnds DEF Fatal
  <2>3. CASE Preflight /\ Proceed
    BY <2>3, Advance, Places DEF Preflight, Proceed, Reached
  <2>4. CASE Copy /\ Proceed
    BY <2>4, Advance, Places DEF Copy, Proceed, Reached
  <2>5. CASE Fill /\ Proceed /\ (self = "elsewhere" => binary' = Shipped)
    BY <2>5, Advance, Places DEF Fill, Proceed, Reached
  <2> QED BY <1>6, <2>2, <2>3, <2>4, <2>5 DEF Preflight, Copy, Fill
<1>7. ASSUME Create PROVE Place'
  <2>1. CASE Fail
    BY <1>7, <2>1, FailUndoes DEF Create, Undone
  <2>2. CASE Proceed /\ registered'
    BY <1>7, <2>2, Advance, Places DEF Create, Proceed, Reached
  <2> QED BY <1>7, <2>1, <2>2 DEF Create
<1>8. ASSUME AddPath \/ Restore \/ RemoveBinary \/ RemovePath PROVE Place'
  <2>1. CASE AddPath
    BY <2>1, Advance, Places DEF AddPath, Proceed, Reached
  <2>2. CASE Restore
    BY <2>2, Advance, Places DEF Restore, Proceed, Reached
  <2>3. CASE RemoveBinary
    BY <2>3, Advance, Places DEF RemoveBinary, Proceed, Reached
  <2>4. CASE RemovePath
    BY <2>4, Advance, Places DEF RemovePath, Proceed, Reached
  <2> QED BY <1>8, <2>1, <2>2, <2>3, <2>4
<1>9. ASSUME Undo PROVE Place'
  BY <1>9, WhereElse DEF Undo, Abandon, AtUndo, Place, Ended
<1>10. ASSUME Launch PROVE Place'
  <2>1. CASE Fail
    BY <1>10, <2>1, FailEnds, FailUndoes DEF Launch, Fatal, Undone
  <2>2. CASE At("start") /\ Proceed
    BY <1>10, <2>2, Advance, Places DEF Launch, Proceed, Reached
  <2>3. CASE At("launch") /\ Proceed
    BY <1>10, <2>3, Advance, Places DEF Launch, Proceed, Reached
  <2> QED BY <1>10, <2>1, <2>2, <2>3 DEF Launch
<1>11. ASSUME FetchRelease PROVE Place'
  <2>1. cmd = "update" /\ temps \subseteq stuck
    BY <1>11, Where, Places, CommandType DEF FetchRelease, Reached
  <2>2. CASE Abandon("ok")
    BY <2>1, <2>2 DEF Abandon, Place, Ended
  <2>3. CASE Proceed
    BY <1>11, <2>3, Advance, Places DEF FetchRelease, Proceed, Reached
  <2>4. CASE Fail
    BY <1>11, <2>4, FailEnds DEF FetchRelease, Fatal
  <2> QED BY <1>11, <2>2, <2>3, <2>4 DEF FetchRelease
<1>12. ASSUME Download \/ Extract PROVE Place'
  <2>1. PICK op \in {"download", "extract"} : At(op)
    BY <1>12 DEF Download, Extract
  <2>2. CASE Fail
    BY <2>1, <2>2, FailEnds DEF Fatal
  <2>3. CASE todo' = <<>> /\ outcome' = "error" /\ temps' \subseteq stuck'
    BY <2>3 DEF Place, Ended
  <2>4. CASE todo' = Tail(todo) /\ UNCHANGED <<cmd, outcome>>
    BY <2>1, <2>4, Advance, Places DEF Reached
  <2>5. ASSUME NEW file,
               \E left \in SUBSET temps :
                 temps' = left \cup {file} /\ stuck' = stuck \cup left \cup {file}
        PROVE  temps' \subseteq stuck'
    BY <2>5
  <2> QED BY <1>12, <2>2, <2>3, <2>4, <2>5 DEF Download, Extract, Writes
<1>13. ASSUME CheckSignature \/ CheckDigest \/ Stat PROVE Place'
  <2>1. PICK op \in {"signature", "digest", "stat"} : At(op)
    BY <1>13 DEF CheckSignature, CheckDigest, Stat
  <2>2. CASE Fail
    BY <2>1, <2>2, FailEnds DEF Fatal
  <2>3. CASE (CheckSignature \/ CheckDigest) /\ Proceed
    BY <2>3, Advance, Places DEF CheckSignature, CheckDigest, Proceed, Reached
  <2>4. CASE Stat /\ Proceed /\ binary # NoFile
    BY <2>4, Advance, Places DEF Stat, Proceed, Reached
  <2> QED BY <1>13, <2>2, <2>3, <2>4 DEF CheckSignature, CheckDigest, Stat
<1>14. ASSUME Halt \/ Clear \/ Resume PROVE Place'
  <2>1. CASE Halt
    BY <2>1, Advance, Places DEF Halt, Reached
  <2>2. CASE Clear
    BY <2>2, Advance, Places DEF Clear, Proceed, Reached
  <2>3. CASE Resume
    <3>1. temps' \subseteq stuck'
      BY <2>3 DEF Resume, RemoveTemps
    <3> QED BY <2>3, <3>1, Advance, Places DEF Resume, Reached
  <2> QED BY <1>14, <2>1, <2>2, <2>3
<1>15. ASSUME SetAside PROVE Place'
  <2>1. CASE Fail
    BY <1>15, <2>1, FailEnds DEF SetAside, Fatal
  <2>2. CASE aside' = binary /\ binary' = NoFile /\ todo' = Tail(todo) /\ UNCHANGED <<cmd, outcome>>
    BY <1>15, <2>2, Advance, Places DEF SetAside, Reached
  <2> QED BY <1>15, <2>1, <2>2 DEF SetAside
<1>16. ASSUME Swap PROVE Place'
  <2>1. CASE todo' = <<>> /\ outcome' = "error" /\ RemoveTemps
    BY <2>1 DEF RemoveTemps, Place, Ended
  <2>2. CASE binary' = Latest /\ todo' = Tail(todo) /\ UNCHANGED <<cmd, outcome>>
    <3>1. binary' # NoFile
      BY <2>2, ServiceLifecycleAssumption DEF Version
    <3> QED BY <1>16, <2>2, <3>1, Advance, Places DEF Swap, Reached
  <2> QED BY <1>16, <2>1, <2>2 DEF Swap
<1>17. ASSUME Abort PROVE Place'
  BY <1>17 DEF Abort, Abandon, Place, Ended
<1>18. ASSUME Service PROVE Place'
  BY <1>18, PlaceStays
     DEF Service, RunServes, RunFails, RunCancelled, RunCleansUp, ReportRunning, TakeStop,
         ReportStopped, ProcessExit, command
<1>19. ASSUME Kill \/ Recover PROVE Place'
  <2>1. kills \in Nat
    BY <1>t, ServiceLifecycleAssumption DEF TypeOK
  <2> QED BY <1>19, <2>1, PlaceStays DEF IInv, RunFacts, Kill, Recover, command
<1>20. CASE UNCHANGED vars
  BY <1>20, PlaceStays DEF vars
<1> QED
  BY <1>1, <1>2, <1>3, <1>4, <1>5, <1>6, <1>7, <1>8, <1>9, <1>10, <1>11, <1>12, <1>13,
     <1>14, <1>15, <1>16, <1>17, <1>18, <1>19, <1>20 DEF Next, Operate

(* A wait for the service to stop is a part of an operation that stops it. *)
LEMMA WaitStep ==
    ASSUME IInv, [Next]_vars
    PROVE  waiting' => todo' # <<>> /\ Head(todo') \in Stops
<1> USE DEF files, scm, counts
<1>w. waiting => todo # <<>> /\ Head(todo) \in Stops
  BY DEF IInv, TypeOK
<1>1. ASSUME UNCHANGED <<waiting, todo>> PROVE waiting' => todo' # <<>> /\ Head(todo') \in Stops
  BY <1>w, <1>1
<1>2. ASSUME NEW op, At(op), op \notin Stops, Proceed \/ waiting' = waiting PROVE ~waiting'
  BY <1>w, <1>2 DEF At, Proceed
<1>3. ASSUME Fail PROVE ~waiting'
  BY <1>3 DEF Fail
<1>4. ASSUME NEW c \in Commands, Give(c) PROVE ~waiting'
  BY <1>4 DEF Give
<1>5. CASE RequestStop
  BY <1>5 DEF RequestStop
<1>6. CASE FindStopped \/ StopFails
  BY <1>3, <1>6 DEF FindStopped, StopFails
<1>7. CASE AddPath \/ Restore \/ RemoveBinary \/ RemovePath \/ Clear
  BY <1>2, <1>7 DEF AddPath, Restore, RemoveBinary, RemovePath, Clear, Stops
<1>8. CASE Delete \/ Preflight \/ Copy \/ Fill \/ Create \/ Launch \/ CheckSignature \/ CheckDigest \/ Stat
  BY <1>2, <1>3, <1>8
     DEF Delete, Preflight, Copy, Fill, Create, Launch, CheckSignature, CheckDigest, Stat,
         Stops
<1>9. CASE Undo \/ FetchRelease \/ Abort
  BY <1>2, <1>3, <1>9 DEF Undo, FetchRelease, Abort, Abandon, Stops
<1>10. CASE Download \/ Extract
  BY <1>2, <1>3, <1>10 DEF Download, Extract, Writes, Stops
<1>11. CASE Halt \/ SetAside \/ Swap \/ Resume
  BY <1>2, <1>3, <1>11 DEF Halt, SetAside, Swap, Resume, Stops
<1>12. CASE Service \/ Kill \/ Recover \/ UNCHANGED vars
  BY <1>1, <1>12
     DEF Service, RunServes, RunFails, RunCancelled, RunCleansUp, ReportRunning, TakeStop,
         ReportStopped, ProcessExit, Kill, Recover, command, vars
<1> QED
  BY <1>4, <1>5, <1>6, <1>7, <1>8, <1>9, <1>10, <1>11, <1>12 DEF Next, Operate

(* What the service does, what starts it and what restores for it.         *)
LEMMA RunStep ==
    ASSUME IInv, [Next]_vars
    PROVE  RunFacts'
<1> USE DEF files, scm, counts
<1>t. RunFacts /\ kills \in Nat
  BY ServiceLifecycleAssumption DEF IInv, TypeOK
<1>1. ASSUME UNCHANGED <<state, run, due, dns, kills>> PROVE RunFacts'
  BY <1>t, <1>1 DEF RunFacts
<1>2. ASSUME Launched, state = "stopped", UNCHANGED <<dns, kills>>, due' = due \/ due' = FALSE
      PROVE  RunFacts'
  BY <1>t, <1>2 DEF RunFacts, Launched
<1>3. ASSUME NEW c \in Commands, Give(c) PROVE RunFacts'
  BY <1>1, <1>3 DEF Give
<1>4. CASE RequestStop \/ FindStopped \/ StopFails \/ Delete
  BY <1>1, <1>4 DEF RequestStop, FindStopped, StopFails, Delete
<1>5. CASE \/ Preflight \/ Copy \/ Fill \/ Create \/ AddPath \/ Undo
           \/ RemoveBinary \/ RemovePath
  BY <1>1, <1>5 DEF Preflight, Copy, Fill, Create, AddPath, Undo, RemoveBinary, RemovePath
<1>6. CASE Restore
  BY <1>t, <1>6 DEF RunFacts, Restore, Restored
<1>7. CASE Launch \/ Resume \/ Recover
  <2>1. UNCHANGED <<dns, kills>> /\ (due' = due \/ due' = FALSE)
    BY <1>7 DEF Launch, Resume, Recover
  <2>2. UNCHANGED <<state, run>> \/ (Launched /\ state = "stopped")
    BY <1>7 DEF Launch, Resume, Recover, CanLaunch
  <2>3. CASE UNCHANGED <<state, run>>
    BY <1>t, <2>1, <2>3 DEF RunFacts
  <2>4. CASE Launched /\ state = "stopped"
    BY <1>2, <2>1, <2>4
  <2> QED BY <2>2, <2>3, <2>4
<1>8. CASE FetchRelease \/ Download \/ CheckSignature \/ Extract \/ CheckDigest \/ Stat
  BY <1>1, <1>8 DEF FetchRelease, Download, CheckSignature, Extract, CheckDigest, Stat
<1>9. CASE Halt \/ SetAside \/ Swap \/ Clear \/ Abort
  BY <1>1, <1>9 DEF Halt, SetAside, Swap, Clear, Abort
<1>10. CASE Service
  BY <1>t, <1>10
     DEF RunFacts, Restored, Service, RunServes, RunFails, RunCancelled, RunCleansUp, ReportRunning,
         TakeStop, ReportStopped, ProcessExit
<1>11. CASE Kill
  BY <1>t, <1>11 DEF RunFacts, Kill
<1>12. CASE UNCHANGED vars
  BY <1>1, <1>12 DEF vars
<1> QED
  BY <1>3, <1>4, <1>5, <1>6, <1>7, <1>8, <1>9, <1>10, <1>11, <1>12 DEF Next, Operate

-------------------------------------------------------------------------------
(* The types, a part at a time                                             *)

(* The entry, the state and the process the SCM knows of.                  *)
ScmTypes ==
    /\ registered \in BOOLEAN /\ watched \in BOOLEAN /\ stopreq \in BOOLEAN /\ due \in BOOLEAN
    /\ state \in {"stopped", "startpending", "running", "stoppending"}
    /\ run \in {"none", "starting", "serving", "cleanup", "exited"}
    /\ dns \in {"user", "zeus", "left"}

(* The command that runs.                                                  *)
CommandTypes ==
    /\ cmd \in Commands \cup {"none"} /\ (waiting => todo # <<>>)
    /\ waiting \in BOOLEAN /\ was \in BOOLEAN
    /\ temps \subseteq {"zip", "exe"} /\ stuck \subseteq {"zip", "exe"}
    /\ outcome \in {"ok", "error", "aborted"}

(* The files, and the processes that execute them.                         *)
FileTypes ==
    /\ path \in BOOLEAN
    /\ binary \in Version \cup {NoFile, Torn} /\ aside \in Version \cup {NoFile, Torn}
    /\ self \in {"elsewhere", "binary", "aside"} /\ image \in {"none", "binary", "aside"}
    /\ binary \notin Version => "binary" \notin {self, image}
    /\ aside \notin Version => "aside" \notin {self, image}

CountTypes == given \in 0..MaxCommands /\ kills \in 0..MaxKills

(* The type invariant, by the part of the state it is about.               *)
LEMMA TypeParts == TypeOK <=> ScmTypes /\ CommandTypes /\ FileTypes /\ CountTypes
<1>1. TypeOK => ScmTypes
  BY DEF TypeOK, ScmTypes
<1>2. TypeOK => CommandTypes
  BY DEF TypeOK, CommandTypes
<1>3. TypeOK => FileTypes
  BY DEF TypeOK, FileTypes
<1>4. TypeOK => CountTypes
  BY DEF TypeOK, CountTypes
<1>5. ScmTypes /\ CommandTypes /\ FileTypes /\ CountTypes => TypeOK
  BY DEF TypeOK, ScmTypes, CommandTypes, FileTypes, CountTypes
<1> QED BY <1>1, <1>2, <1>3, <1>4, <1>5

(* Every step keeps the types of the service manager's state.              *)
LEMMA ScmStep ==
    ASSUME IInv, [Next]_vars
    PROVE  ScmTypes'
<1>t. ScmTypes
  BY TypeParts DEF IInv
<1>1. ASSUME UNCHANGED scm PROVE ScmTypes'
  BY <1>t, <1>1 DEF ScmTypes, scm
<1>2. ASSUME NEW c \in Commands, Give(c) PROVE ScmTypes'
  BY <1>1, <1>2 DEF Give
<1>3. CASE \/ FindStopped \/ StopFails \/ Preflight \/ Copy \/ Fill \/ AddPath
           \/ Undo \/ RemoveBinary
  BY <1>1, <1>3
     DEF FindStopped, StopFails, Preflight, Copy, Fill, AddPath, Undo, RemoveBinary
<1>4. CASE RemovePath \/ FetchRelease \/ Download \/ CheckSignature \/ Extract \/ CheckDigest
  BY <1>1, <1>4 DEF RemovePath, FetchRelease, Download, CheckSignature, Extract, CheckDigest
<1>5. CASE Stat \/ Clear \/ Abort \/ UNCHANGED vars
  BY <1>1, <1>5 DEF Stat, Clear, Abort, vars, scm
<1>6. CASE RequestStop \/ Delete \/ Create \/ Restore
  BY <1>t, <1>6 DEF ScmTypes, RequestStop, Delete, Create, Restore, Restored
<1>7. CASE Launch \/ Resume \/ Recover
  BY <1>t, <1>7 DEF ScmTypes, Launch, Resume, Recover, Launched
<1>8. CASE Halt
  BY <1>t, <1>8 DEF ScmTypes, Halt
<1>9. CASE SetAside \/ Swap
  BY <1>t, <1>9 DEF ScmTypes, SetAside, Swap
<1>10. CASE Service
  BY <1>t, <1>10
     DEF ScmTypes, Restored, Service, RunServes, RunFails, RunCancelled, RunCleansUp, ReportRunning,
         TakeStop, ReportStopped, ProcessExit
<1>11. CASE Kill
  BY <1>t, <1>11 DEF ScmTypes, Kill
<1> QED
  BY <1>2, <1>3, <1>4, <1>5, <1>6, <1>7, <1>8, <1>9, <1>10, <1>11 DEF Next, Operate

(* Every step keeps the types of the command that runs.                    *)
LEMMA CommandStep ==
    ASSUME IInv, [Next]_vars
    PROVE  CommandTypes'
<1>t. CommandTypes
  BY TypeParts DEF IInv
<1>w. waiting' => todo' # <<>>
  BY WaitStep
<1>1. ASSUME UNCHANGED <<cmd, waiting, was, temps, stuck, outcome>> PROVE CommandTypes'
  BY <1>t, <1>w, <1>1 DEF CommandTypes
<1>2. ASSUME NEW c \in Commands, Give(c) PROVE CommandTypes'
  BY <1>w, <1>2 DEF CommandTypes, Give
<1>r. ASSUME RemoveTemps
      PROVE  temps' \subseteq {"zip", "exe"} /\ stuck' \subseteq {"zip", "exe"}
  BY <1>t, <1>r DEF CommandTypes, RemoveTemps
<1>3. ASSUME Fail PROVE CommandTypes'
  BY <1>t, <1>w, <1>r, <1>3 DEF CommandTypes, Fail
<1>4. ASSUME Proceed PROVE CommandTypes'
  BY <1>1, <1>4 DEF Proceed
<1>5. ASSUME NEW result \in {"ok", "error", "aborted"}, Abandon(result) PROVE CommandTypes'
  BY <1>t, <1>w, <1>5 DEF CommandTypes, Abandon
<1>6. CASE RequestStop \/ FindStopped
  BY <1>t, <1>w, <1>6 DEF CommandTypes, RequestStop, FindStopped
<1>7. CASE StopFails \/ Delete \/ Preflight \/ Copy \/ Fill \/ Create \/ AddPath \/ Restore
  BY <1>3, <1>4, <1>7 DEF StopFails, Delete, Preflight, Copy, Fill, Create, AddPath, Restore
<1>8. CASE RemoveBinary \/ RemovePath \/ Launch \/ CheckSignature \/ CheckDigest \/ Stat \/ Clear
  BY <1>3, <1>4, <1>8
     DEF RemoveBinary, RemovePath, Launch, CheckSignature, CheckDigest, Stat, Clear
<1>9. CASE Undo \/ FetchRelease \/ Abort
  BY <1>3, <1>4, <1>5, <1>9 DEF Undo, FetchRelease, Abort
<1>10. CASE Download \/ Extract
  BY <1>t, <1>w, <1>3, <1>10 DEF CommandTypes, Download, Extract, Writes
<1>11. CASE Halt
  BY <1>t, <1>w, <1>11 DEF CommandTypes, Halt
<1>12. CASE SetAside
  BY <1>1, <1>3, <1>12 DEF SetAside
<1>13. CASE Swap \/ Resume
  BY <1>t, <1>w, <1>r, <1>13 DEF CommandTypes, Swap, Resume
<1>14. CASE Service \/ Kill \/ Recover \/ UNCHANGED vars
  BY <1>1, <1>14
     DEF Service, RunServes, RunFails, RunCancelled, RunCleansUp, ReportRunning, TakeStop,
         ReportStopped, ProcessExit, Kill, Recover, command, vars
<1> QED
  BY <1>2, <1>6, <1>7, <1>8, <1>9, <1>10, <1>11, <1>12, <1>13, <1>14 DEF Next, Operate

(* Every step keeps the types of the files.                                *)
LEMMA FileStep ==
    ASSUME IInv, [Next]_vars
    PROVE  FileTypes'
<1>t. FileTypes
  BY TypeParts DEF IInv
<1>1. ASSUME UNCHANGED <<files, image, self>> PROVE FileTypes'
  BY <1>t, <1>1 DEF FileTypes, files
<1>2. ASSUME UNCHANGED <<binary, aside, self, image>>, path' \in BOOLEAN PROVE FileTypes'
  BY <1>t, <1>2 DEF FileTypes
<1>3. ASSUME UNCHANGED <<files, self>>,
             image' = image \/ (binary \in Version /\ image' = "binary")
      PROVE  FileTypes'
  BY <1>t, <1>3 DEF FileTypes, files
<1>4. ASSUME UNCHANGED <<aside, image, self>>, path' \in BOOLEAN,
             binary' \in Removed("binary", binary)
      PROVE  FileTypes'
  BY <1>t, <1>4 DEF FileTypes, Removed, Removable
<1>p. ASSUME NEW on \in BOOLEAN, SetPath(on) PROVE path' \in BOOLEAN
  BY <1>t, <1>p DEF FileTypes, SetPath
<1>5. ASSUME NEW c \in Commands, Give(c) PROVE FileTypes'
  BY <1>t, <1>5 DEF FileTypes, Give, files, scm
<1>6. CASE RequestStop \/ FindStopped \/ StopFails \/ Delete \/ Preflight \/ Create \/ Restore
  BY <1>1, <1>6
     DEF RequestStop, FindStopped, StopFails, Delete, Preflight, Create, Restore, Proceed,
         Fail, scm
<1>7. CASE Copy
  BY <1>t, <1>7, ServiceLifecycleAssumption DEF FileTypes, Copy, Proceed, Fail, scm
<1>f. CASE Fill
  BY <1>t, <1>f, ServiceLifecycleAssumption DEF FileTypes, Fill, Proceed, Fail, Version, scm
<1>8. CASE AddPath \/ RemovePath
  BY <1>2, <1>p, <1>8 DEF AddPath, RemovePath, Proceed, scm
<1>9. CASE Undo \/ RemoveBinary
  <2>1. path' \in BOOLEAN
    BY <1>t, <1>p, <1>9 DEF Undo, RemoveBinary, FileTypes
  <2> QED BY <1>4, <1>9, <2>1 DEF Undo, RemoveBinary, Abandon, Proceed, scm
<1>10. CASE Launch \/ Resume \/ Recover
  BY <1>3, <1>10
     DEF Launch, Resume, Recover, CanLaunch, Launched, Proceed, Fail, command
<1>11. CASE FetchRelease \/ Download \/ CheckSignature \/ Extract \/ CheckDigest \/ Stat
  BY <1>1, <1>11
     DEF FetchRelease, Download, CheckSignature, Extract, CheckDigest, Stat, Writes,
         Abandon, Proceed, Fail, scm
<1>12. CASE Halt \/ Abort
  BY <1>1, <1>12 DEF Halt, Abort, Abandon, scm
<1>13. CASE SetAside
  <2>1. CASE UNCHANGED <<binary, aside, image>> /\ Fail
    BY <1>1, <1>13, <2>1 DEF SetAside, Fail, files
  <2>2. CASE /\ aside' = binary /\ binary' = NoFile /\ (aside = NoFile \/ Removable("aside"))
             /\ image' = Moved(image, "binary", "aside")
             /\ self' = Moved(self, "binary", "aside")
    <3>1. path' \in BOOLEAN
      BY <1>t, <1>13 DEF FileTypes, SetAside
    <3>2. image # "aside" /\ self # "aside"
      BY <1>t, <2>2, NotWhole DEF FileTypes, Removable
    <3> QED BY <1>t, <2>2, <3>1, <3>2, NotWhole DEF FileTypes, Moved
  <2> QED BY <1>13, <2>1, <2>2 DEF SetAside
<1>14. CASE Swap
  <2>1. aside # NoFile /\ binary = NoFile
    BY <1>14, Where, Places, CommandType DEF Swap, Reached
  <2>2. CASE binary' = Latest /\ UNCHANGED <<aside, image, self>>
    BY <1>t, <1>14, <2>2, ServiceLifecycleAssumption DEF FileTypes, Swap, Version
  <2>3. CASE /\ binary' = aside /\ aside' = NoFile
             /\ image' = Moved(image, "aside", "binary")
             /\ self' = Moved(self, "aside", "binary")
    <3>1. path' \in BOOLEAN
      BY <1>t, <1>14 DEF FileTypes, Swap
    <3>2. image # "binary" /\ self # "binary"
      BY <1>t, <2>1, NotWhole DEF FileTypes
    <3> QED BY <1>t, <2>3, <3>1, <3>2, NotWhole DEF FileTypes, Moved
  <2>4. CASE UNCHANGED <<binary, aside, image, self>>
    BY <1>1, <1>14, <2>4 DEF Swap, files
  <2> QED BY <1>14, <2>2, <2>3, <2>4 DEF Swap
<1>15. CASE Clear
  <2>1. aside' = aside \/ (aside' = NoFile /\ self # "aside" /\ image # "aside")
    BY <1>15 DEF Clear, Removed, Removable
  <2> QED BY <1>t, <1>15, <2>1 DEF FileTypes, Clear, Proceed, scm
<1>16. CASE Service \/ Kill
  BY <1>t, <1>16
     DEF FileTypes, files, command, Service, RunServes, RunFails, RunCancelled, RunCleansUp,
         ReportRunning, TakeStop, ReportStopped, ProcessExit, Kill
<1>17. CASE UNCHANGED vars
  BY <1>1, <1>17 DEF vars, files
<1> QED
  BY <1>5, <1>6, <1>7, <1>f, <1>8, <1>9, <1>10, <1>11, <1>12, <1>13, <1>14, <1>15, <1>16,
     <1>17 DEF Next, Operate

(* Every step keeps the bounds on commands and crashes.                    *)
LEMMA CountStep ==
    ASSUME IInv, [Next]_vars
    PROVE  CountTypes'
<1>t. CountTypes
  BY TypeParts DEF IInv
<1>1. ASSUME UNCHANGED counts PROVE CountTypes'
  BY <1>t, <1>1 DEF CountTypes, counts
<1>2. ASSUME NEW c \in Commands, Give(c) PROVE CountTypes'
  BY <1>t, <1>2, ServiceLifecycleAssumption DEF CountTypes, Give
<1>3. CASE Kill
  BY <1>t, <1>3, ServiceLifecycleAssumption DEF CountTypes, Kill
<1>4. CASE Operate
  BY <1>1, <1>4
     DEF Operate, RequestStop, FindStopped, StopFails, Delete, Preflight, Copy, Fill, Create,
         AddPath, Undo, Restore, RemoveBinary, RemovePath, Launch, FetchRelease, Download,
         CheckSignature, Extract, CheckDigest, Stat, Halt, SetAside, Swap, Clear, Resume
<1>5. CASE Abort \/ Recover \/ Service \/ UNCHANGED vars
  BY <1>1, <1>5
     DEF Abort, Recover, Service, RunServes, RunFails, RunCancelled, RunCleansUp,
         ReportRunning, TakeStop, ReportStopped, ProcessExit, counts, vars
<1> QED BY <1>2, <1>3, <1>4, <1>5 DEF Next

-------------------------------------------------------------------------------
(* The inductive invariant                                                 *)

(* A machine starts without the service, its files or a command.           *)
LEMMA Initially == Init => IInv
<1> SUFFICES ASSUME Init PROVE IInv
  OBVIOUS
<1>1. ScmTypes
  BY DEF Init, ScmTypes
<1>2. CommandTypes
  BY DEF Init, CommandTypes
<1>3. FileTypes
  BY DEF Init, FileTypes
<1>4. CountTypes
  BY ServiceLifecycleAssumption DEF Init, CountTypes
<1>5. RunFacts /\ ~waiting /\ Place
  BY DEF Init, RunFacts, Place, Ended
<1> QED BY <1>1, <1>2, <1>3, <1>4, <1>5, TypeParts DEF IInv

(* Every step keeps the inductive invariant.                               *)
LEMMA Step == IInv /\ [Next]_vars => IInv'
<1> SUFFICES ASSUME IInv, [Next]_vars PROVE IInv'
  OBVIOUS
<1>1. ScmTypes' /\ CommandTypes' /\ FileTypes' /\ CountTypes'
  BY ScmStep, CommandStep, FileStep, CountStep
<1>2. TypeOK'
  BY <1>1 DEF TypeOK, ScmTypes, CommandTypes, FileTypes, CountTypes
<1> QED BY <1>2, RunStep, WaitStep, PlaceStep DEF IInv

(* The inductive invariant of the service, its commands and its files.     *)
THEOREM Invariance == Spec => []IInv
BY Initially, Step, PTL DEF Spec

(* Every variable keeps its type, and a file that is executed is there.    *)
THEOREM Typing == Spec => []TypeOK
<1>1. IInv => TypeOK
  BY DEF IInv
<1> QED BY <1>1, Invariance, PTL

(* The service never reports Stopped before Run has given the DNS settings *)
(* back or has failed to, whatever commands it is stopped by.              *)
THEOREM StoppedIsRestored == Spec => []StoppedMeansRestored
<1>1. IInv => StoppedMeansRestored
  BY DEF IInv, RunFacts, StoppedMeansRestored
<1> QED BY <1>1, Invariance, PTL

(* A command whose operations are all done has got past the last.          *)
LEMMA Finished ==
    ASSUME IInv, todo = <<>>, cmd \in Commands, outcome = "ok", cmd # "update"
    PROVE  Reached(cmd, Len(Program[cmd]) + 1)
<1>1. AtOperation
  <2>1. cmd # "none"
    BY CommandType DEF Program
  <2> QED BY <2>1, Deleting DEF IInv, Place, AtUndo, Ended
<1>2. PICK i \in 1..(Len(Program[cmd]) + 1) : todo = Rest(cmd, i) /\ Reached(cmd, i)
  BY <1>1 DEF AtOperation
<1>3. cmd \in DOMAIN Program /\ Len(Program[cmd]) \in Nat
  BY CommandType, LenType
<1>4. i = Len(Program[cmd]) + 1
  BY <1>2, <1>3, RestStep
<1> QED BY <1>2, <1>4

(* An install or a wizard that succeeds leaves the service registered and  *)
(* the program that was run in its place, whatever was there before.       *)
THEOREM InstallCompletes == Spec => []InstallIsComplete
<1>1. IInv => InstallIsComplete
  <2> SUFFICES ASSUME IInv, cmd \in {"install", "wizard"}, todo = <<>>, outcome = "ok"
               PROVE  registered /\ (self = "elsewhere" => binary = Shipped)
    BY DEF InstallIsComplete
  <2>1. cmd \in Commands
    BY DEF IInv, TypeOK
  <2>2. Reached(cmd, Len(Program[cmd]) + 1)
    BY <2>1, Finished
  <2>3. CASE cmd = "install"
    <3>1. Len(Program[cmd]) = 9
      BY <2>3 DEF Program
    <3> QED BY <2>2, <2>3, <3>1 DEF Reached
  <2>4. CASE cmd = "wizard"
    <3>1. Len(Program[cmd]) = 7
      BY <2>4 DEF Program
    <3> QED BY <2>2, <2>4, <3>1 DEF Reached
  <2> QED BY <2>3, <2>4
<1> QED BY <1>1, Invariance, PTL

(* An uninstall that succeeds leaves no entry, no process that serves and, *)
(* unless RestoreSystemDNS failed, no settings that point at it.           *)
THEOREM UninstallCompletes == Spec => []UninstallIsComplete
<1>1. IInv => UninstallIsComplete
  <2> SUFFICES ASSUME IInv, cmd = "uninstall", todo = <<>>, outcome = "ok", kills = 0
               PROVE  ~registered /\ run = "none" /\ dns # "zeus"
    BY DEF UninstallIsComplete
  <2>1. cmd \in Commands
    BY DEF IInv, TypeOK
  <2>2. Len(Program["uninstall"]) = 5
    BY DEF Program
  <2>3. ~registered /\ state = "stopped"
    BY <2>1, <2>2, Finished DEF Reached
  <2> QED BY <2>3 DEF IInv, RunFacts
<1> QED BY <1>1, Invariance, PTL

(* An update that ends by itself leaves no temporary file it could close   *)
(* and remove.                                                             *)
THEOREM UpdateLeavesNothing == Spec => []UpdateCleansUp
<1>1. IInv => UpdateCleansUp
  <2> SUFFICES ASSUME IInv, cmd = "update", todo = <<>>, outcome \in {"ok", "error"}
               PROVE  temps \subseteq stuck
    BY DEF UpdateCleansUp
  <2>1. CASE AtOperation
    <3>1. PICK i \in 1..(Len(Program[cmd]) + 1) : todo = Rest(cmd, i) /\ Reached(cmd, i)
      BY <2>1 DEF AtOperation
    <3>2. cmd \in DOMAIN Program /\ Len(Program[cmd]) = 11
      BY DEF Program
    <3>3. i \in 1..Len(Program[cmd]) => Rest(cmd, i) # <<>>
      BY <3>2, RestStep
    <3>4. i = 12
      BY <3>1, <3>2, <3>3
    <3> QED BY <3>1, <3>4 DEF Reached
  <2>2. CASE Ended
    BY <2>2 DEF Ended
  <2> QED BY <2>1, <2>2, Deleting DEF IInv, Place, AtUndo
<1> QED BY <1>1, Invariance, PTL

(* The entry of a service is deleted only when its process has nothing left*)
(* to do.                                                                  *)
THEOREM DeletedWhenStopped == Spec => NeverDeletesRunning
<1>1. IInv /\ [Next]_vars => [registered /\ ~registered' /\ kills = 0 => run = "none"]_vars
  <2> SUFFICES ASSUME IInv, Next, registered, ~registered', kills = 0
               PROVE  run = "none"
    BY DEF vars
  <2>1. Delete
    BY DEF Next, Operate, Service, Give, scm, RequestStop, FindStopped, StopFails,
           Preflight, Copy, Fill, Create, AddPath, Undo, Restore, RemoveBinary, RemovePath,
           Launch, FetchRelease, Download, CheckSignature, Extract, CheckDigest, Stat,
           Halt, SetAside, Swap, Clear, Resume, Abort, RunServes, RunFails, RunCancelled,
           RunCleansUp, ReportRunning, TakeStop, ReportStopped, ProcessExit, Kill, Recover
  <2> QED BY <2>1, WhereElse DEF Delete, AtDelete, IInv, RunFacts
<1> QED BY <1>1, Invariance, PTL DEF Spec, NeverDeletesRunning

(* No step of an update, of its rollback or of the service loses the last  *)
(* whole copy of the program.                                              *)
THEOREM UpdateIsSafe == Spec => UpdateKeepsBinary
<1>1. IInv /\ [Next]_vars => [cmd = "update" /\ HasBinary => HasBinary']_vars
  <2> SUFFICES ASSUME IInv, Next, cmd = "update", HasBinary
               PROVE  HasBinary'
    BY DEF vars
  <2> USE DEF HasBinary
  <2>1. ASSUME UNCHANGED <<binary, aside>> PROVE HasBinary'
    BY <2>1
  <2>2. CASE SetAside
    <3>1. binary \in Version
      BY <2>2, Where, Places, CommandType DEF SetAside, Reached
    <3> QED BY <2>2, <3>1 DEF SetAside
  <2>3. CASE Swap
    <3>1. binary = NoFile
      BY <2>3, Where, Places, CommandType DEF Swap, Reached
    <3>2. aside \in Version
      BY <3>1, NotWhole
    <3>3. Latest \in Version
      BY DEF Version
    <3> QED BY <2>3, <3>1, <3>2, <3>3 DEF Swap
  <2>4. CASE Clear
    <3>1. binary \in Version
      BY <2>4, Where, Places, CommandType DEF Clear, Reached
    <3> QED BY <2>4, <3>1 DEF Clear
  <2>5. ~Copy /\ ~Fill /\ ~RemoveBinary /\ ~Undo
    <3>1. ~At("copy") /\ ~At("fill") /\ ~At("remove")
      BY Where, Places, CommandType
    <3>2. ~At("undo")
      BY WhereElse DEF AtUndo
    <3> QED BY <3>1, <3>2 DEF Copy, Fill, RemoveBinary, Undo
  <2>6. CASE (\E c \in Commands : Give(c)) \/ Abort \/ Service \/ Kill \/ Recover
    BY <2>1, <2>6
       DEF files, Service, Give, Abort, RunServes, RunFails, RunCancelled, RunCleansUp,
           ReportRunning, TakeStop, ReportStopped, ProcessExit, Kill, Recover
  <2>7. CASE Operate /\ ~SetAside /\ ~Swap /\ ~Clear
    BY <2>1, <2>5, <2>7
       DEF files, Operate, RequestStop, FindStopped, StopFails, Delete, Preflight, Create,
           AddPath, Restore, RemovePath, Launch, FetchRelease, Download, CheckSignature,
           Extract, CheckDigest, Stat, Halt, Resume
  <2> QED BY <2>2, <2>3, <2>4, <2>6, <2>7 DEF Next
<1> QED BY <1>1, Invariance, PTL DEF Spec, UpdateKeepsBinary

===============================================================================
