----------------------------- MODULE ConfigureMenu -----------------------------
(***************************************************************************)
(* The menu of `zeusdns configure`: tui/configure.go.  One goroutine of    *)
(* bubbletea handles one message at a time: a key, the result of a test    *)
(* or of a validation that ran beside it, the timer that takes back a      *)
(* first `d`.  The messages of what was started arrive at any later time,  *)
(* tests in any order.                                                     *)
(*                                                                         *)
(* Positions count from 1 here, from 0 in the code; position 0 stands for  *)
(* its -1.                                                                 *)
(***************************************************************************)
EXTENDS Naturals, Sequences, SequencesExt, FiniteSets

CONSTANTS
    Resolver,   \* what a user may type or have configured
    Loadable,   \* the lists Load may return, <<>> without a file
    Limit,      \* the length from which on nothing is added (16)
    Longest,    \* bound on the length of a list
    Malformed,  \* those without https://, tls:// or dot://
    NoResolver, \* nothing is being validated
    NoResult,   \* a position without a result
    MaxTests    \* bound on how often tests or the timer are started

ASSUME ConfigureMenuAssumption ==
    /\ Loadable \subseteq Seq(Resolver) /\ <<>> \in Loadable
    /\ \A l \in Loadable : Len(l) <= Longest
    /\ Limit \in Nat \ {0} /\ Longest \in Nat /\ Limit <= Longest /\ MaxTests \in Nat
    /\ NoResolver \notin Resolver /\ Malformed \subseteq Resolver

VARIABLES
    configured,     \* the list Load returned
    upstreams,      \* the list, the primary first
    results,        \* results[i]: the result shown at position i
    pendingTest,    \* how many results "testing..." still waits for
    cursor,         \* the selected position
    deletePending,  \* the position a second `d` deletes
    mode,           \* modeList, modeAdd, modeValidating, or that the menu quit
    raw,            \* what is being validated
    saved,          \* the user chose to save
    tests,          \* tests that run: [at, of, round], the round numbering them
    timers,         \* number of timers that run; they end in order
    rounds,         \* ghost: how often tests or the timer were started
    responded       \* ghost: the resolvers that were validated

menu == <<configured, upstreams, results, pendingTest, cursor, deletePending, mode, raw, saved>>
vars == <<configured, upstreams, results, pendingTest, cursor, deletePending, mode, raw, saved,
          tests, timers, rounds, responded>>

Position == 1..Longest
Result == [ok : BOOLEAN, of : Resolver]
NoResults == [i \in Position |-> NoResult]

Init ==
    /\ configured \in Loadable /\ upstreams = configured /\ results = NoResults /\ pendingTest = 0
    /\ cursor = 1 /\ deletePending = 0
    /\ mode = "list" /\ raw = NoResolver /\ saved = FALSE
    /\ tests = {} /\ timers = 0 /\ rounds = 0 /\ responded = {}
-------------------------------------------------------------------------------
(* Keys of the list.                                                       *)

(* checkUpstreamCmd for the resolvers at the positions of S in list l.     *)
StartTests(S, l) ==
    /\ rounds < MaxTests /\ rounds' = rounds + 1
    /\ tests' = tests \cup {[at |-> i, of |-> l[i], round |-> rounds] : i \in S}

Quiet == UNCHANGED <<configured, tests, timers, rounds, responded>>

(* Any key but `d` takes a first `d` back.                                 *)
Key == mode = "list" /\ deletePending' = 0

Move(by) ==
    /\ Key /\ by # cursor /\ by \in {cursor - 1, cursor + 1} \cap DOMAIN upstreams
    /\ cursor' = by
    /\ UNCHANGED <<upstreams, results, pendingTest, mode, raw, saved>> /\ Quiet

(* A key that does nothing else, such as `up` at the top of the list.      *)
OtherKey ==
    /\ Key /\ deletePending # 0
    /\ UNCHANGED <<upstreams, results, pendingTest, cursor, mode, raw, saved>> /\ Quiet

(* bubbletea returns the model: what still runs reaches nobody.            *)
Quit ==
    /\ mode' = "quit" /\ results' = NoResults /\ pendingTest' = 0 /\ cursor' = 1
    /\ deletePending' = 0 /\ raw' = NoResolver /\ tests' = {} /\ timers' = 0 /\ rounds' = 0
    /\ UNCHANGED <<configured, upstreams, responded>>

(* `q` and the like, or `s`, which saves.                                  *)
Leave(keep) == mode = "list" /\ Quit /\ saved' = keep

(* `a`: a line is opened, unless the list is full.                         *)
BeginAdd ==
    /\ Key /\ Len(upstreams) < Limit /\ mode' = "add"
    /\ UNCHANGED <<upstreams, results, pendingTest, cursor, raw, saved>> /\ Quiet

(* The first `d` marks the selected resolver and starts a timer.           *)
MarkDelete ==
    /\ mode = "list" /\ deletePending = 0 /\ Len(upstreams) > 1
    /\ rounds < MaxTests /\ rounds' = rounds + 1
    /\ deletePending' = cursor /\ timers' = timers + 1
    /\ UNCHANGED <<configured, upstreams, results, pendingTest, cursor, mode, raw, saved, tests,
                   responded>>

DeleteUnclamped ==
    /\ mode = "list" /\ deletePending = cursor /\ Len(upstreams) > 1
    /\ upstreams' = RemoveAt(upstreams, cursor)
    /\ results' = NoResults /\ deletePending' = 0
    /\ UNCHANGED <<cursor, pendingTest, mode, raw, saved>> /\ Quiet
(* The second one deletes it; the cursor stays in the list.                *)
Delete ==
    /\ mode = "list" /\ deletePending = cursor /\ Len(upstreams) > 1
    /\ upstreams' = RemoveAt(upstreams, cursor)
    /\ results' = NoResults /\ deletePending' = 0
    /\ cursor' = IF cursor > Len(upstreams') THEN Len(upstreams') ELSE cursor
    /\ UNCHANGED <<pendingTest, mode, raw, saved>> /\ Quiet

Swapped(l, i, j) == [l EXCEPT ![i] = l[j], ![j] = l[i]]

(* `[` and `]`: the results are cleared and the primary is tested again.   *)
Reorder(to) ==
    /\ Key /\ to \in {cursor - 1, cursor + 1} \cap DOMAIN upstreams
    /\ upstreams' = Swapped(upstreams, cursor, to) /\ cursor' = to
    /\ results' = NoResults
    /\ StartTests({1}, upstreams')
    /\ UNCHANGED <<configured, pendingTest, mode, raw, saved, timers, responded>>

TestAll ==
    /\ Key /\ upstreams # <<>> /\ results' = NoResults /\ pendingTest' = Len(upstreams)
    /\ StartTests(DOMAIN upstreams, upstreams)
    /\ UNCHANGED <<configured, upstreams, cursor, mode, raw, saved, timers, responded>>
-------------------------------------------------------------------------------
(* The line a resolver is added with.                                      *)

CancelAdd ==
    /\ mode = "add" /\ mode' = "list"
    /\ UNCHANGED <<upstreams, results, pendingTest, cursor, deletePending, raw, saved>> /\ Quiet

Enter(r) ==
    /\ mode = "add" /\ mode' = "validating" /\ raw' = r
    /\ UNCHANGED <<upstreams, results, pendingTest, cursor, deletePending, saved>> /\ Quiet

QuitValidating == mode = "validating" /\ Quit /\ UNCHANGED saved

(* validateAddMsg: the resolver could be parsed and has responded, and is  *)
(* appended; or the line comes back.                                       *)
Validated ==
    /\ mode = "validating" /\ raw' = NoResolver
    /\ \/ /\ raw \notin Malformed
          /\ upstreams' = Append(upstreams, raw) /\ cursor' = Len(upstreams')
          /\ mode' = "list" /\ responded' = responded \cup {raw}
       \/ mode' = "add" /\ UNCHANGED <<upstreams, cursor, responded>>
    /\ UNCHANGED <<configured, results, pendingTest, deletePending, saved, tests, timers, rounds>>
-------------------------------------------------------------------------------
(* What was started ends.                                                  *)

TestedUncounted(t) ==
    /\ mode # "quit" /\ t \in tests /\ tests' = tests \ {t}
    /\ \E ok \in BOOLEAN :
         /\ results' = [results EXCEPT ![t.at] = [ok |-> ok, of |-> t.of]]
         /\ pendingTest' = IF pendingTest > 0 /\ ok THEN pendingTest - 1 ELSE pendingTest
    /\ UNCHANGED <<configured, upstreams, cursor, deletePending, mode, raw, saved, timers, rounds,
                   responded>>
(* testResultMsg: the result is shown at the position the test was begun   *)
(* for.                                                                    *)
Tested(t) ==
    /\ mode # "quit" /\ t \in tests /\ tests' = tests \ {t}
    /\ \E ok \in BOOLEAN : results' = [results EXCEPT ![t.at] = [ok |-> ok, of |-> t.of]]
    /\ pendingTest' = IF pendingTest > 0 THEN pendingTest - 1 ELSE 0
    /\ UNCHANGED <<configured, upstreams, cursor, deletePending, mode, raw, saved, timers, rounds,
                   responded>>

(* clearDeletePendingMsg *)
TimerEnds ==
    /\ mode # "quit" /\ timers > 0 /\ timers' = timers - 1
    /\ deletePending' = 0
    /\ UNCHANGED <<configured, upstreams, results, pendingTest, cursor, mode, raw, saved, tests,
                   rounds, responded>>

Next ==
    \/ \E i \in DOMAIN upstreams : Move(i) \/ Reorder(i)
    \/ \E keep \in BOOLEAN : Leave(keep)
    \/ OtherKey \/ BeginAdd \/ MarkDelete \/ Delete \/ TestAll
    \/ CancelAdd \/ QuitValidating \/ \E r \in Resolver : Enter(r)
    \/ Validated \/ TimerEnds \/ \E t \in tests : Tested(t)

Spec == Init /\ [][Next]_vars

-------------------------------------------------------------------------------
(* Properties                                                              *)

(* Type invariant.  The list is empty only when none was loaded, and longer*)
(* than the limit only when a longer one was; the cursor stays in it, if   *)
(* there is a resolver to select, and what a second `d` would delete is    *)
(* what the user sees selected.                                            *)
TypeOK ==
    /\ configured \in Loadable /\ upstreams \in Seq(Resolver)
    /\ upstreams = <<>> => configured = <<>>
    /\ Len(upstreams) <= Limit \/ Len(upstreams) <= Len(configured)
    /\ results \in [Position -> Result \cup {NoResult}]
    /\ pendingTest \in 0..Longest
    /\ cursor \in DOMAIN upstreams \/ (upstreams = <<>> /\ cursor = 1)
    /\ deletePending \in {0, cursor}
    /\ mode \in {"list", "add", "validating", "quit"}
    /\ raw \in Resolver \cup {NoResolver} /\ saved \in BOOLEAN
    /\ tests \subseteq [at : Position, of : Resolver, round : 0..MaxTests]
    /\ timers \in 0..MaxTests /\ rounds \in 0..MaxTests /\ responded \subseteq Resolver

(* "testing..." never waits for results nobody will send: resolvers may be *)
(* deleted and tests begun again while others run.                         *)
TestingHasTests == pendingTest <= Cardinality(tests)

===============================================================================
