---------------------------- MODULE ConfigureProofs ----------------------------
(***************************************************************************)
(* Proofs about Configure and the menu in it, for any resolvers, any lists *)
(* Load may return, the empty one and those above the limit included, any  *)
(* limit above one and any number of tests and timers.                     *)
(***************************************************************************)
EXTENDS Configure, FiniteSetTheorems, SequenceTheorems, TLAPS

(* The resolvers that may be in the list.                                  *)
Vetted == responded \cup {configured[j] : j \in DOMAIN configured}

(* The menu: while a resolver is typed or validated, nothing is marked for *)
(* deletion and there is room for one more; each timer that runs was begun.*)
MenuFacts ==
    /\ mode \in {"add", "validating"} => deletePending = 0 /\ Len(upstreams) < Limit
    /\ mode = "validating" => raw \in Resolver
    /\ timers <= rounds
    /\ \A i \in DOMAIN upstreams : upstreams[i] \in Vetted

(* The temporary file of a save, by the call the save is about to make.    *)
TempFacts ==
    /\ at \in {"menu", "form", "create", "write", "rename", "status", "stop", "start",
               "restarted", "end"}
    /\ at \in {"menu", "form", "create"} => temp = "none"
    /\ at = "write" => temp = "empty"
    /\ at = "rename" => temp = "whole"
    /\ at \in {"status", "stop", "start", "restarted", "end"} => temp \in {"none", "left"}

(* What is in the file and what the service serves of it.                  *)
FileFacts ==
    /\ at \in {"menu", "form"} => file = NoList
    /\ file \in {NoList, configured, OtherList, upstreams}
    /\ at \in {"status", "stop", "start", "restarted"} /\ ~others => file = upstreams
    /\ status = "stopped" => served = NoList

(* The setup has a form in the place of the menu.                          *)
FormFacts == at = "form" => mode = "list" /\ cursor = 1

(* What is true of the menu alone.                                         *)
MenuInv == TypeOK /\ MenuFacts /\ IsFiniteSet(tests) /\ TestingHasTests

(* The inductive invariant.                                                *)
IInv == MenuInv /\ FormFacts /\ TempFacts /\ FileFacts /\ SavedIsServed

-------------------------------------------------------------------------------
(* The list                                                                *)

(* Two resolvers trade places.                                             *)
LEMMA SwappedList ==
    ASSUME NEW l \in Seq(Resolver), NEW i \in DOMAIN l, NEW j \in DOMAIN l
    PROVE  LET m == Swapped(l, i, j)
           IN  /\ m \in Seq(Resolver) /\ Len(m) = Len(l) /\ DOMAIN m = DOMAIN l
               /\ \A k \in DOMAIN m : \E h \in DOMAIN l : m[k] = l[h]
BY DEF Swapped

(* A resolver is taken out of the list.                                    *)
LEMMA ShorterList ==
    ASSUME NEW l \in Seq(Resolver), NEW i \in DOMAIN l
    PROVE  LET m == RemoveAt(l, i)
           IN  /\ m \in Seq(Resolver) /\ Len(m) = Len(l) - 1
               /\ \A k \in DOMAIN m : \E h \in DOMAIN l : m[k] = l[h]
<1> DEFINE front == SubSeq(l, 1, i - 1)
           back == SubSeq(l, i + 1, Len(l))
<1>0. DOMAIN l = 1..Len(l) /\ Len(l) \in Nat /\ i \in 1..Len(l)
  OBVIOUS
<1>1. /\ front \in Seq(Resolver) /\ Len(front) = i - 1
      /\ \A k \in 1..(i - 1) : front[k] = l[k]
  BY <1>0
<1>2. /\ back \in Seq(Resolver) /\ Len(back) = Len(l) - i
      /\ \A k \in 1..(Len(l) - i) : back[k] = l[k + i]
  BY <1>0
<1> HIDE DEF front, back
<1>3. /\ front \o back \in Seq(Resolver) /\ Len(front \o back) = Len(l) - 1
      /\ \A k \in 1..(Len(l) - 1) :
           (front \o back)[k] = IF k <= i - 1 THEN front[k] ELSE back[k - (i - 1)]
  <2>1. /\ front \o back \in Seq(Resolver) /\ Len(front \o back) = Len(front) + Len(back)
        /\ \A k \in 1..(Len(front) + Len(back)) :
             (front \o back)[k] = IF k <= Len(front) THEN front[k] ELSE back[k - Len(front)]
    BY <1>1, <1>2, ConcatProperties
  <2>2. Len(front) = i - 1 /\ Len(front) + Len(back) = Len(l) - 1
    BY <1>0, <1>1, <1>2
  <2> QED BY <2>1, <2>2
<1>4. ASSUME NEW k \in 1..(Len(l) - 1) PROVE \E h \in DOMAIN l : (front \o back)[k] = l[h]
  <2>1. CASE k <= i - 1
    <3>1. k \in 1..(i - 1) /\ k \in 1..Len(l)
      BY <1>0, <2>1
    <3>2. (front \o back)[k] = l[k]
      BY <1>1, <1>3, <2>1, <3>1
    <3> QED BY <1>0, <3>1, <3>2
  <2>2. CASE ~(k <= i - 1)
    <3>1. k - (i - 1) \in 1..(Len(l) - i) /\ k + 1 \in 1..Len(l)
      BY <1>0, <2>2
    <3>2. back[k - (i - 1)] = l[(k - (i - 1)) + i]
      BY <1>2, <3>1
    <3>3. (k - (i - 1)) + i = k + 1
      BY <1>0
    <3>4. (front \o back)[k] = l[k + 1]
      BY <1>3, <2>2, <3>2, <3>3
    <3> QED BY <1>0, <3>1, <3>4
  <2> QED BY <2>1, <2>2
<1>5. RemoveAt(l, i) = front \o back
  BY DEF front, back, RemoveAt
<1>6. DOMAIN (front \o back) = 1..(Len(l) - 1)
  BY <1>3
<1> QED BY <1>3, <1>4, <1>5, <1>6

(* What the menu shows and lets the user edit.                             *)
List ==
    /\ configured \in Loadable /\ upstreams \in Seq(Resolver)
    /\ upstreams = <<>> => configured = <<>>
    /\ Len(upstreams) <= Limit \/ Len(upstreams) <= Len(configured)
    /\ cursor \in DOMAIN upstreams \/ (upstreams = <<>> /\ cursor = 1)
    /\ deletePending \in {0, cursor}
    /\ mode \in {"list", "add", "validating", "quit"}
    /\ raw \in Resolver \cup {NoResolver} /\ saved \in BOOLEAN
    /\ responded \subseteq Resolver
    /\ mode \in {"add", "validating"} => deletePending = 0 /\ Len(upstreams) < Limit
    /\ mode = "validating" => raw \in Resolver
    /\ \A i \in DOMAIN upstreams : upstreams[i] \in Vetted

(* The tests and the timers beside it.                                     *)
Jobs ==
    /\ results \in [Position -> Result \cup {NoResult}]
    /\ pendingTest \in 0..Longest
    /\ tests \subseteq [at : Position, of : Resolver, round : 0..MaxTests]
    /\ timers \in 0..MaxTests /\ rounds \in 0..MaxTests /\ timers <= rounds
    /\ IsFiniteSet(tests) /\ pendingTest <= Cardinality(tests)

(* The two parts of what is true of the menu.                              *)
LEMMA Parts == MenuInv <=> List /\ Jobs
<1>1. MenuInv => List
  BY DEF MenuInv, TypeOK, MenuFacts, List
<1>2. MenuInv => Jobs
  BY DEF MenuInv, TypeOK, MenuFacts, TestingHasTests, Jobs
<1>3. List /\ Jobs => MenuInv
  BY DEF MenuInv, TypeOK, MenuFacts, TestingHasTests, List, Jobs
<1> QED BY <1>1, <1>2, <1>3

(* The list is rearranged or gets shorter.                                 *)
LEMMA Rearranged ==
    ASSUME List, upstreams' \in Seq(Resolver), Len(upstreams') \in 1..Len(upstreams),
           \A k \in DOMAIN upstreams' : \E h \in DOMAIN upstreams : upstreams'[k] = upstreams[h],
           cursor' \in DOMAIN upstreams', deletePending' = 0, mode = "list",
           UNCHANGED <<configured, mode, raw, saved, responded>>
    PROVE  List'
<1>1. /\ Len(upstreams') <= Limit \/ Len(upstreams') <= Len(configured)
      /\ upstreams' # <<>>
  BY ConfigureMenuAssumption DEF List
<1>2. \A k \in DOMAIN upstreams' : upstreams'[k] \in Vetted'
  BY DEF List, Vetted
<1> QED BY <1>1, <1>2 DEF List

(* No message of the menu empties or overfills the list or loses its       *)
(* cursor.                                                                 *)
LEMMA ListStep ==
    ASSUME MenuInv, Next
    PROVE  List'
<1> USE ConfigureMenuAssumption DEF Quiet
<1>l. List /\ Len(upstreams) \in Nat /\ DOMAIN upstreams = 1..Len(upstreams)
  BY Parts DEF List
<1>e. cursor \in DOMAIN upstreams \/ (DOMAIN upstreams = {} /\ Len(upstreams) = 0 /\ cursor = 1)
  BY <1>l DEF List
<1>o. 1 \in DOMAIN upstreams \/ upstreams = <<>>
  BY <1>l, <1>e DEF List
<1>1. ASSUME NEW i \in DOMAIN upstreams, Move(i) PROVE List'
  BY <1>l, <1>1 DEF List, Vetted, Move, Key
<1>2. ASSUME NEW i \in DOMAIN upstreams, Reorder(i) PROVE List'
  <2>1. i \in DOMAIN upstreams /\ cursor \in DOMAIN upstreams /\ upstreams \in Seq(Resolver)
    BY <1>l, <1>e, <1>2 DEF List
  <2>2. upstreams' = Swapped(upstreams, cursor, i) /\ cursor' = i
    BY <1>2 DEF Reorder
  <2>3. /\ upstreams' \in Seq(Resolver) /\ Len(upstreams') = Len(upstreams)
        /\ DOMAIN upstreams' = DOMAIN upstreams
        /\ \A k \in DOMAIN upstreams' :
             \E h \in DOMAIN upstreams : upstreams'[k] = upstreams[h]
    BY <2>1, <2>2, SwappedList
  <2>4. Len(upstreams') \in 1..Len(upstreams)
    BY <1>l, <2>3 DEF List
  <2> QED BY <1>l, <1>2, <2>1, <2>2, <2>3, <2>4, Rearranged DEF Reorder, Key
<1>3. ASSUME NEW keep \in BOOLEAN, Leave(keep) PROVE List'
  BY <1>l, <1>o, <1>3 DEF List, Vetted, Leave, Quit
<1>4. CASE OtherKey \/ BeginAdd \/ TestAll
  BY <1>l, <1>4 DEF List, Vetted, OtherKey, BeginAdd, TestAll, Key
<1>5. CASE MarkDelete
  BY <1>l, <1>5 DEF List, Vetted, MarkDelete
<1>6. CASE Delete
  <2>1. cursor \in DOMAIN upstreams /\ upstreams \in Seq(Resolver)
    BY <1>l, <1>e, <1>6 DEF List, Delete
  <2>2. /\ upstreams' \in Seq(Resolver) /\ Len(upstreams') = Len(upstreams) - 1
        /\ \A k \in DOMAIN upstreams' :
             \E h \in DOMAIN upstreams : upstreams'[k] = upstreams[h]
    BY <1>6, <2>1, ShorterList DEF Delete
  <2>3. /\ Len(upstreams') \in 1..Len(upstreams) /\ DOMAIN upstreams' = 1..Len(upstreams')
        /\ cursor' \in DOMAIN upstreams'
    BY <1>l, <1>6, <2>1, <2>2 DEF Delete
  <2> QED BY <1>l, <1>6, <2>2, <2>3, Rearranged DEF Delete
<1>7. CASE CancelAdd \/ QuitValidating
  <2>1. CASE CancelAdd
    BY <1>l, <2>1 DEF List, Vetted, CancelAdd
  <2>2. CASE QuitValidating
    BY <1>l, <1>o, <2>2 DEF List, Vetted, QuitValidating, Quit
  <2> QED BY <1>7, <2>1, <2>2
<1>8. ASSUME NEW r \in Resolver, Enter(r) PROVE List'
  BY <1>l, <1>8 DEF List, Vetted, Enter
<1>9. CASE Validated
  <2>1. CASE mode' = "add" /\ UNCHANGED <<upstreams, cursor, responded>>
    BY <1>l, <1>9, <2>1 DEF List, Vetted, Validated
  <2>2. CASE /\ upstreams' = Append(upstreams, raw) /\ cursor' = Len(upstreams')
             /\ mode' = "list" /\ responded' = responded \cup {raw}
    <3>1. raw \in Resolver /\ Len(upstreams) < Limit /\ deletePending = 0
      BY <1>l, <1>9 DEF List, Validated
    <3>2. /\ upstreams' \in Seq(Resolver) /\ Len(upstreams') = Len(upstreams) + 1
          /\ DOMAIN upstreams' = 1..(Len(upstreams) + 1)
          /\ \A k \in 1..Len(upstreams) : upstreams'[k] = upstreams[k]
          /\ upstreams'[Len(upstreams) + 1] = raw
      BY <1>l, <2>2, <3>1, AppendProperties DEF List
    <3>3. \A k \in DOMAIN upstreams' : upstreams'[k] \in Vetted'
      <4>1. \A k \in 1..Len(upstreams) : upstreams[k] \in Vetted
        BY <1>l DEF List
      <4>2. Vetted \subseteq Vetted' /\ raw \in Vetted'
        BY <1>9, <2>2 DEF Validated, Vetted
      <4>3. ASSUME NEW k \in DOMAIN upstreams' PROVE upstreams'[k] \in Vetted'
        <5>1. k \in 1..Len(upstreams) \/ k = Len(upstreams) + 1
          BY <1>l, <3>2
        <5> QED BY <3>2, <4>1, <4>2, <5>1
      <4> QED BY <4>3
    <3>4. Len(upstreams') <= Limit /\ cursor' \in DOMAIN upstreams'
      BY <1>l, <2>2, <3>1, <3>2
    <3>5. upstreams' # <<>>
      BY <1>l, <3>2
    <3> QED BY <1>l, <1>9, <2>2, <3>1, <3>2, <3>3, <3>4, <3>5 DEF List, Validated
  <2> QED BY <1>9, <2>1, <2>2 DEF Validated
<1>10. ASSUME NEW t \in tests, Tested(t) PROVE List'
  BY <1>l, <1>10 DEF List, Vetted, Tested
<1>11. CASE TimerEnds
  BY <1>l, <1>11 DEF List, Vetted, TimerEnds
<1> QED
  BY <1>1, <1>2, <1>3, <1>4, <1>5, <1>6, <1>7, <1>8, <1>9, <1>10, <1>11 DEF Next

-------------------------------------------------------------------------------
(* The tests                                                               *)

(* StartTests starts one test for each position it is given.               *)
LEMMA TestsStarted ==
    ASSUME Jobs, NEW l \in Seq(Resolver), NEW n \in 1..Longest, n <= Len(l),
           StartTests(1..n, l)
    PROVE  /\ tests' \subseteq [at : Position, of : Resolver, round : 0..MaxTests]
           /\ IsFiniteSet(tests') /\ n <= Cardinality(tests')
           /\ Cardinality(tests) <= Cardinality(tests')
           /\ rounds' \in 0..MaxTests /\ rounds <= rounds'
<1> USE ConfigureMenuAssumption
<1> DEFINE new == {[at |-> i, of |-> l[i], round |-> rounds] : i \in 1..n}
           f == [i \in 1..n |-> [at |-> i, of |-> l[i], round |-> rounds]]
<1>1. tests' = tests \cup new
  BY DEF StartTests
<1>2. rounds \in 0..MaxTests /\ rounds < MaxTests /\ rounds' = rounds + 1
  BY DEF StartTests, Jobs
<1>3. \A i \in 1..n : i \in Position /\ l[i] \in Resolver
  BY DEF Position
<1>4. new \subseteq [at : Position, of : Resolver, round : 0..MaxTests]
  BY <1>2, <1>3
<1>5. IsFiniteSet(1..n) /\ Cardinality(1..n) = n
  BY FS_Interval
<1>6. f \in Surjection(1..n, new)
  BY DEF Surjection
<1>7. IsFiniteSet(new)
  BY <1>5, <1>6, FS_Surjection
<1>8. IsFiniteSet(tests')
  BY <1>1, <1>7, FS_Union DEF Jobs
<1>9. f \in Injection(1..n, tests')
  BY <1>1 DEF Injection, IsInjective
<1>10. n <= Cardinality(tests')
  BY <1>5, <1>8, <1>9, FS_Injection
<1>11. Cardinality(tests) <= Cardinality(tests')
  BY <1>1, <1>8, FS_Subset
<1> QED BY <1>1, <1>2, <1>4, <1>8, <1>10, <1>11 DEF Jobs

(* No message loses count of the tests, the timers and the validations in  *)
(* flight.                                                                 *)
LEMMA JobsStep ==
    ASSUME MenuInv, Next
    PROVE  Jobs'
<1> USE ConfigureMenuAssumption
<1>l. /\ List /\ upstreams \in Seq(Resolver) /\ Len(upstreams) \in 0..Longest
      /\ DOMAIN upstreams = 1..Len(upstreams)
  <2>1. /\ List /\ upstreams \in Seq(Resolver) /\ Len(upstreams) \in Nat
        /\ DOMAIN upstreams = 1..Len(upstreams)
    BY Parts DEF List
  <2>2. configured \in Loadable /\ Len(configured) \in Nat /\ Len(configured) <= Longest
    BY <2>1 DEF List
  <2>3. Len(upstreams) <= Limit \/ Len(upstreams) <= Len(configured)
    BY <2>1 DEF List
  <2>4. Len(upstreams) \in 0..Longest
    BY <2>1, <2>2, <2>3
  <2> QED BY <2>1, <2>4
<1>j. Jobs /\ Cardinality(tests) \in Nat
  BY Parts, FS_CardinalityType DEF Jobs
<1>n. NoResults \in [Position -> Result \cup {NoResult}]
  BY DEF NoResults
<1>1. ASSUME UNCHANGED <<pendingTest, tests, timers, rounds>>, results' \in {results, NoResults}
      PROVE  Jobs'
  BY <1>j, <1>n, <1>1 DEF Jobs
<1>2. ASSUME Quit PROVE Jobs'
  BY <1>n, <1>2, FS_EmptySet DEF Quit, Jobs
<1>3. ASSUME NEW i \in DOMAIN upstreams, Move(i) PROVE Jobs'
  BY <1>1, <1>3 DEF Move, Quiet
<1>4. ASSUME NEW i \in DOMAIN upstreams, Reorder(i) PROVE Jobs'
  <2>0. cursor \in DOMAIN upstreams
    BY <1>l DEF List
  <2>1. upstreams' \in Seq(Resolver) /\ Len(upstreams') = Len(upstreams)
    BY <1>l, <1>4, <2>0, SwappedList DEF Reorder
  <2>2. StartTests(1..1, upstreams')
    <3>1. 1..1 = {1}
      OBVIOUS
    <3> QED BY <1>4, <3>1 DEF Reorder
  <2>3. 1 \in 1..Longest /\ 1 <= Len(upstreams')
    BY <1>l, <2>1
  <2>4. /\ tests' \subseteq [at : Position, of : Resolver, round : 0..MaxTests]
        /\ IsFiniteSet(tests') /\ Cardinality(tests) <= Cardinality(tests')
        /\ rounds' \in 0..MaxTests /\ rounds <= rounds'
    BY <1>j, <2>1, <2>2, <2>3, TestsStarted
  <2>5. Cardinality(tests') \in Nat
    BY <2>4, FS_CardinalityType
  <2> QED BY <1>j, <1>n, <1>4, <2>4, <2>5 DEF Reorder, Jobs
<1>5. CASE TestAll
  <2>1. /\ tests' \subseteq [at : Position, of : Resolver, round : 0..MaxTests]
        /\ IsFiniteSet(tests') /\ Len(upstreams) <= Cardinality(tests')
        /\ rounds' \in 0..MaxTests /\ rounds <= rounds'
    <3>1. Len(upstreams) \in 1..Longest /\ Len(upstreams) <= Len(upstreams)
      BY <1>l, <1>5 DEF TestAll
    <3>2. StartTests(1..Len(upstreams), upstreams)
      BY <1>l, <1>5 DEF TestAll
    <3> QED BY <1>l, <1>j, <3>1, <3>2, TestsStarted
  <2> QED BY <1>l, <1>j, <1>n, <1>5, <2>1 DEF TestAll, Jobs
<1>6. ASSUME NEW keep \in BOOLEAN, Leave(keep) PROVE Jobs'
  BY <1>2, <1>6 DEF Leave
<1>7. CASE OtherKey \/ BeginAdd \/ Delete \/ CancelAdd
  BY <1>1, <1>7 DEF OtherKey, BeginAdd, Delete, CancelAdd, Quiet
<1>8. ASSUME NEW r \in Resolver, Enter(r) PROVE Jobs'
  BY <1>1, <1>8 DEF Enter, Quiet
<1>9. CASE QuitValidating
  BY <1>2, <1>9 DEF QuitValidating
<1>10. CASE Validated
  BY <1>1, <1>10 DEF Validated
<1>11. CASE MarkDelete
  BY <1>j, <1>11 DEF MarkDelete, Jobs
<1>12. CASE TimerEnds
  BY <1>j, <1>12 DEF TimerEnds, Jobs
<1>13. ASSUME NEW t \in tests, Tested(t) PROVE Jobs'
  <2>1. t \in [at : Position, of : Resolver, round : 0..MaxTests]
    BY <1>j DEF Jobs
  <2>2. results' \in [Position -> Result \cup {NoResult}]
    BY <1>j, <1>13, <2>1 DEF Tested, Jobs, Result
  <2>3. IsFiniteSet(tests') /\ Cardinality(tests') = Cardinality(tests) - 1
    BY <1>j, <1>13, FS_RemoveElement DEF Tested, Jobs
  <2>4. pendingTest' \in 0..Longest /\ pendingTest' <= Cardinality(tests')
    BY <1>j, <1>13, <2>3, FS_CardinalityType DEF Tested, Jobs
  <2> QED BY <1>j, <1>13, <2>2, <2>3, <2>4 DEF Tested, Jobs
<1> QED
  BY <1>3, <1>4, <1>5, <1>6, <1>7, <1>8, <1>9, <1>10, <1>11, <1>12, <1>13 DEF Next

-------------------------------------------------------------------------------
(* The file and the service                                                *)

(* A session starts in the menu or the form, with nothing saved.           *)
LEMMA Initially == ConfigureInit => IInv
<1> SUFFICES ASSUME ConfigureInit PROVE IInv
  OBVIOUS
<1> USE ConfigureMenuAssumption DEF ConfigureInit, Init
<1>1. List
  <2>0. configured \in Loadable /\ configured \in Seq(Resolver) /\ upstreams = configured
    OBVIOUS
  <2>1. /\ configured \in Loadable /\ upstreams \in Seq(Resolver) /\ upstreams = configured
        /\ Len(upstreams) \in Nat /\ DOMAIN upstreams = 1..Len(upstreams)
    BY <2>0
  <2>2. 1 \in DOMAIN upstreams \/ upstreams = <<>>
    BY <2>1
  <2>3. \A i \in DOMAIN upstreams : upstreams[i] \in Vetted
    BY <2>1 DEF Vetted
  <2>4. Len(upstreams) <= Len(configured)
    BY <2>1
  <2>5. mode = "list" /\ cursor = 1 /\ deletePending = 0 /\ raw = NoResolver /\ saved = FALSE
    OBVIOUS
  <2> QED BY <2>1, <2>2, <2>3, <2>4, <2>5 DEF List
<1>2. Jobs
  <2>1. results \in [Position -> Result \cup {NoResult}]
    BY DEF NoResults
  <2> QED BY <2>1, FS_EmptySet DEF Jobs
<1>3. FormFacts /\ TempFacts /\ FileFacts /\ SavedIsServed
  BY DEF FormFacts, TempFacts, FileFacts, SavedIsServed
<1> QED BY <1>1, <1>2, <1>3, Parts DEF IInv

(* What leaves the menu's state alone keeps its invariant.                 *)
LEMMA MenuKept ==
    ASSUME MenuInv, UNCHANGED vars
    PROVE  MenuInv'
<1>1. List' /\ Jobs'
  BY Parts DEF vars, List, Jobs, Vetted
<1> QED BY <1>1 DEF MenuInv, TypeOK, MenuFacts, TestingHasTests, List, Jobs

(* The form replaces the list by one or two resolvers that have responded. *)
LEMMA FormStep ==
    ASSUME MenuInv, FormFacts, FormEnds
    PROVE  MenuInv'
<1> USE ConfigureMenuAssumption, ConfigureAssumption
<1>1. CASE UNCHANGED <<menu, responded>>
  BY <1>1, MenuKept DEF FormEnds, menu, vars
<1>2. ASSUME NEW primary \in Resolver \ Malformed, NEW fallback \in Resolver \ Malformed,
             upstreams' \in {<<primary>>, <<primary, fallback>>},
             responded' = {primary, fallback},
             UNCHANGED <<configured, results, pendingTest, cursor, deletePending, mode, raw, saved>>
      PROVE  MenuInv'
  <2>1. List /\ Jobs
    BY Parts
  <2>2. Jobs'
    BY <1>2, <2>1 DEF FormEnds, Jobs
  <2>3. /\ upstreams' \in Seq(Resolver) /\ Len(upstreams') \in {1, 2}
        /\ \A i \in DOMAIN upstreams' : upstreams'[i] \in {primary, fallback}
    <3>1. CASE upstreams' = <<primary>>
      BY <3>1
    <3>2. CASE upstreams' = <<primary, fallback>>
      BY <3>2
    <3> QED BY <1>2, <3>1, <3>2
  <2>4. Len(upstreams') <= Limit /\ 1 \in DOMAIN upstreams' /\ upstreams' # <<>>
    <3>1. DOMAIN upstreams' = 1..Len(upstreams')
      BY <2>3, LenProperties
    <3> QED BY <2>3, <3>1
  <2>5. mode' = "list" /\ cursor' = 1
    BY <1>2 DEF FormFacts, FormEnds
  <2>6. List'
    BY <1>2, <2>1, <2>3, <2>4, <2>5 DEF List, Vetted
  <2> QED BY <2>2, <2>6 DEF MenuInv, TypeOK, MenuFacts, TestingHasTests, List, Jobs
<1> QED BY <1>1, <1>2 DEF FormEnds

(* Between its forms the menu moves by its own messages only.              *)
LEMMA MenuHolds ==
    ASSUME IInv, [ConfigureNext]_allvars
    PROVE  MenuInv' /\ FormFacts'
<1>i. MenuInv /\ FormFacts
  BY DEF IInv
<1>1. CASE MenuStep
  <2>1. List' /\ Jobs'
    BY <1>i, <1>1, ListStep, JobsStep DEF MenuStep
  <2> QED
    BY <1>1, <2>1 DEF MenuStep, FormFacts, MenuInv, TypeOK, MenuFacts, TestingHasTests, List, Jobs
<1>2. CASE FormEnds
  BY <1>i, <1>2, FormStep DEF FormEnds, FormFacts
<1>3. ASSUME UNCHANGED session, at' # "form" \/ at' = at PROVE MenuInv' /\ FormFacts'
  BY <1>i, <1>3, MenuKept DEF session, menu, vars, FormFacts
<1>4. CASE MenuEnds
  BY <1>3, <1>4 DEF MenuEnds, session
<1>5. CASE Create \/ Write \/ Rename \/ Status \/ Stop \/ Start
  BY <1>3, <1>5 DEF Create, Write, Rename, Status, Stop, Start, SaveFails
<1>6. CASE Load \/ Report \/ Restarted \/ OtherSave \/ Killed
  BY <1>3, <1>6 DEF Load, Report, Restarted, OtherSave, Killed
<1>7. CASE UNCHANGED allvars
  BY <1>3, <1>7 DEF allvars, session
<1> QED BY <1>1, <1>2, <1>4, <1>5, <1>6, <1>7 DEF ConfigureNext

(* No step of Save, of the form or of the restart leaves a temporary       *)
(* file, a part of a list or a service with another list than the saved    *)
(* one.                                                                    *)
LEMMA SaveHolds ==
    ASSUME IInv, [ConfigureNext]_allvars
    PROVE  TempFacts' /\ FileFacts' /\ SavedIsServed'
<1>i. TempFacts /\ FileFacts /\ SavedIsServed
  BY DEF IInv
<1> USE DEF session, menu, world
<1>1. CASE MenuStep
  BY <1>i, <1>1 DEF MenuStep, TempFacts, FileFacts, SavedIsServed
<1>2. CASE MenuEnds
  <2>1. TempFacts'
    BY <1>i, <1>2 DEF MenuEnds, TempFacts
  <2> QED BY <1>i, <1>2, <2>1 DEF MenuEnds, FileFacts, SavedIsServed
<1>3. CASE FormEnds
  BY <1>i, <1>3 DEF FormEnds, TempFacts, FileFacts, SavedIsServed
<1>4. CASE Create \/ Write
  BY <1>i, <1>4 DEF Create, Write, SaveFails, TempFacts, FileFacts, SavedIsServed
<1>5. CASE Rename
  BY <1>i, <1>5 DEF Rename, SaveFails, TempFacts, FileFacts, SavedIsServed
<1>6. CASE Status \/ Stop \/ Start
  <2>1. TempFacts'
    BY <1>i, <1>6 DEF Status, Stop, Start, TempFacts
  <2> QED BY <1>i, <1>6, <2>1 DEF Status, Stop, Start, TempFacts, FileFacts, SavedIsServed
<1>7. CASE Load \/ Report \/ Restarted \/ OtherSave
  <2>1. TempFacts'
    BY <1>i, <1>7 DEF Load, Report, Restarted, OtherSave, TempFacts
  <2> QED
    BY <1>i, <1>7, <2>1 DEF Load, Report, Restarted, OtherSave, Open, FileFacts, SavedIsServed
<1>8. CASE Killed
  BY <1>i, <1>8 DEF Killed, TempFacts, FileFacts, SavedIsServed
<1>9. CASE UNCHANGED allvars
  BY <1>i, <1>9 DEF allvars, TempFacts, FileFacts, SavedIsServed
<1> QED BY <1>1, <1>2, <1>3, <1>4, <1>5, <1>6, <1>7, <1>8, <1>9 DEF ConfigureNext

(* The inductive invariant of the menu, the file and the service.          *)
THEOREM Invariance == ConfigureSpec => []IInv
<1>1. IInv /\ [ConfigureNext]_allvars => IInv'
  BY MenuHolds, SaveHolds DEF IInv
<1> QED BY <1>1, Initially, PTL DEF ConfigureSpec

(* The menu never empties a list nor makes one longer than the limit, its  *)
(* cursor stays in the list, unless none was loaded and there is nothing to*)
(* select, and a second `d` deletes what is selected, however keys, results*)
(* of tests and timers interleave.                                         *)
THEOREM MenuTyping == ConfigureSpec => []TypeOK
<1>1. IInv => TypeOK
  BY DEF IInv, MenuInv
<1> QED BY <1>1, Invariance, PTL

(* "testing..." ends: a result is waited for only while its test runs.     *)
THEOREM TestsWillEnd == ConfigureSpec => []TestingHasTests
<1>1. IInv => TestingHasTests
  BY DEF IInv, MenuInv
<1> QED BY <1>1, Invariance, PTL

(* The file never holds a part of a list, nor a resolver that was neither  *)
(* configured before nor has responded.                                    *)
THEOREM VettedFile == ConfigureSpec => []FileIsVetted
<1>1. IInv => FileIsVetted
  BY DEF IInv, MenuInv, MenuFacts, FileFacts, Vetted, FileIsVetted
<1> QED BY <1>1, Invariance, PTL

(* Save takes its temporary file away, however it ends.                    *)
THEOREM SaveCleansUp == ConfigureSpec => []NoTempLeft
<1>1. IInv => NoTempLeft
  BY DEF IInv, TempFacts, NoTempLeft
<1> QED BY <1>1, Invariance, PTL

(* After a restart that was reported the service serves what was saved.    *)
THEOREM RestartServesSaved == ConfigureSpec => []SavedIsServed
<1>1. IInv => SavedIsServed
  BY DEF IInv
<1> QED BY <1>1, Invariance, PTL

===============================================================================
