------------------------- MODULE UpstreamExchangeProofs -------------------------
(***************************************************************************)
(* Proofs about UpstreamExchange, for any callers and slots, any time a    *)
(* context lasts and any timeouts of which the attempt's is not longer than*)
(* both a dial and a lookup.                                               *)
(***************************************************************************)
EXTENDS UpstreamExchange, TLAPS

(* Who is to blame for a lookup that failed: the resolver.                 *)
Blame ==
    /\ flight # NoFlight /\ flight.outcome = "failed" => resolver = "down"
    /\ \A w \in Caller : outcome[w] = "failed" => resolver = "down"

(* A caller has the outcome of a lookup only until it looks at it, which is*)
(* before time passes, and waits only for a lookup that runs.              *)
Informed ==
    \A w \in Caller :
        /\ pc[w] = "woken" <=> outcome[w] # "none"
        /\ pc[w] = "wait" => flight # NoFlight

(* How long the old address can still be passed on, once the upstream has  *)
(* moved: by its entry, by a lookup that asked before, to who waited for it*)
Fresh ==
    upstream = "new" =>
        /\ entry # NoEntry /\ entry.addr = "old" => entry.left <= grace
        /\ flight # NoFlight /\ flight.outcome = "pending" /\ flight.addr = "old" =>
             flight.left + Ttl <= grace
        /\ flight # NoFlight /\ flight.outcome = "old" => grace > 0
        /\ \A w \in Caller : outcome[w] = "old" => grace > 0

(* How far over a context may be in each state: before a lookup or a dial  *)
(* not at all, in a lookup as long as it has run, in a dial as long as it  *)
(* has run, and in an attempt as long as that has run.                     *)
OnTime(w) ==
    IF DoT
      THEN /\ ctx[w] >= -Longest
           /\ pc[w] \in {"get", "look", "join"} => ctx[w] >= 0
           /\ pc[w] = "wait" => ctx[w] >= flight.left - LookupTime
           /\ pc[w] = "dial" => ctx[w] >= dialing[w] - DialTime
           /\ pc[w] \in {"get", "look", "join", "wait", "woken", "dial", "io"} =>
                /\ deadline[w] <= AttemptTime
                /\ deadline[w] = 0 \/ ctx[w] >= deadline[w] - AttemptTime
      ELSE ctx[w] >= 0 /\ pc[w] # "slot"

(* The inductive invariant.                                                *)
IInv ==
    /\ TypeOK /\ Blame /\ Informed /\ Fresh /\ PicksUpMove
    /\ \A w \in Caller : OnTime(w)

-------------------------------------------------------------------------------
(* Every timeout is positive, and Longest is the longest of them.          *)
LEMMA Times ==
    /\ AttemptTime \in Nat /\ DialTime \in Nat /\ LookupTime \in Nat /\ Ttl \in Nat
    /\ QueryTime \in Nat /\ AttemptTime > 0 /\ DialTime > 0 /\ LookupTime > 0 /\ Ttl > 0
    /\ Longest \in Nat
    /\ AttemptTime <= Longest /\ DialTime <= Longest /\ LookupTime <= Longest
BY UpstreamExchangeAssumption DEF Longest

(* Nobody exchanges anything yet, and nothing is cached.                   *)
LEMMA Initially == Init => IInv
<1> SUFFICES ASSUME Init PROVE IInv
  OBVIOUS
<1>1. TypeOK
  BY Times DEF Init, TypeOK, Steps, Address
<1>2. Blame /\ Informed /\ Fresh /\ PicksUpMove
  BY DEF Init, Blame, Informed, Fresh, PicksUpMove
<1>3. \A w \in Caller : OnTime(w)
  BY Times DEF Init, OnTime
<1> QED BY <1>1, <1>2, <1>3 DEF IInv

-------------------------------------------------------------------------------
(* Types                                                                   *)

(* A step of Exchange that only moves its caller on.                       *)
LEMMA Moving ==
    ASSUME TypeOK, NEW w \in Caller, NEW s \in Steps, Go(w, s)
    PROVE  pc' \in [Caller -> Steps]
BY DEF TypeOK, Go

(* A caller that fails goes to one of its steps.                           *)
LEMMA Failing ==
    ASSUME TypeOK, NEW w \in Caller, Fail(w)
    PROVE  pc' \in [Caller -> Steps]
BY DEF TypeOK, Fail, Go, Steps

(* A dial starts with its whole timeout and a real address.                *)
LEMMA Starting ==
    ASSUME TypeOK, NEW w \in Caller, NEW addr \in Address, StartDial(w, addr)
    PROVE  /\ pc' \in [Caller -> Steps] /\ dialing' \in [Caller -> 0..DialTime]
           /\ target' \in [Caller -> {"none"} \cup Address]
<1>1. pc' \in [Caller -> Steps]
  BY Moving DEF StartDial, Steps
<1>2. dialing' \in [Caller -> 0..DialTime]
  BY Times DEF TypeOK, StartDial
<1>3. target' \in [Caller -> {"none"} \cup Address]
  BY DEF TypeOK, StartDial
<1> QED BY <1>1, <1>2, <1>3

(* What a unit of time does to the entry and to the lookup that runs.      *)
LEMMA Ticking ==
    ASSUME TypeOK, Tick
    PROVE  /\ entry = NoEntry => entry' = NoEntry
           /\ entry # NoEntry =>
                /\ entry \in Entry /\ entry' \in Entry
                /\ entry'.addr = entry.addr /\ entry'.left = Less(entry.left)
           /\ flight = NoFlight => flight' = NoFlight
           /\ flight # NoFlight =>
                /\ flight \in Flight /\ flight' \in Flight /\ flight' # NoFlight
                /\ flight.left > 0 /\ flight'.left = flight.left - 1
                /\ flight'.addr = flight.addr
                /\ flight.outcome = "pending" /\ flight'.outcome = "pending"
<1>1. ASSUME entry # NoEntry
      PROVE  /\ entry \in Entry /\ entry' \in Entry
             /\ entry'.addr = entry.addr /\ entry'.left = Less(entry.left)
  <2>1. entry \in Entry /\ entry' = [entry EXCEPT !.left = Less(@)]
    BY <1>1 DEF TypeOK, Tick
  <2>2. Less(entry.left) \in 0..Ttl
    BY <2>1, Times DEF Entry, Less
  <2> QED BY <2>1, <2>2 DEF Entry
<1>2. ASSUME flight # NoFlight
      PROVE  /\ flight \in Flight /\ flight' \in Flight
             /\ flight.left > 0 /\ flight'.left = flight.left - 1
             /\ flight'.addr = flight.addr
             /\ flight.outcome = "pending" /\ flight'.outcome = "pending"
  <2>1. flight \in Flight /\ flight' = [flight EXCEPT !.left = @ - 1]
    BY <1>2 DEF TypeOK, Tick
  <2>2. flight.left > 0 /\ flight.outcome = "pending"
    BY <1>2 DEF Tick
  <2>3. flight.left - 1 \in 0..LookupTime
    BY <2>1, <2>2, Times DEF Flight
  <2> QED BY <2>1, <2>2, <2>3 DEF Flight
<1>3. /\ entry = NoEntry => entry' = NoEntry
      /\ flight = NoFlight => flight' = NoFlight
  BY DEF Tick
<1> QED BY <1>1, <1>2, <1>3, NoneIsNone

(* Every step keeps the types.                                             *)
LEMMA TypeStep ==
    ASSUME IInv, [Next]_vars
    PROVE  TypeOK'
<1> USE DEF cache, world, caller
<1>t. TypeOK
  BY DEF IInv
<1>1. ASSUME NEW w \in Caller, NEW t \in CtxTimes, Call(w, t) PROVE TypeOK'
  <2>1. pc' \in [Caller -> Steps]
    BY <1>t, <1>1, Moving DEF Call, Steps
  <2>2. ctx' \in [Caller -> Int] /\ t \in Nat
    BY <1>t, <1>1, UpstreamExchangeAssumption DEF Call, TypeOK
  <2>3. outer' \in [Caller -> Nat]
    BY <1>t, <1>1, <2>2, Times DEF Call, TypeOK, Least
  <2>4. deadline' \in [Caller -> Nat]
    BY <1>t, <1>1, <2>3 DEF Call, TypeOK
  <2> QED BY <1>t, <1>1, <2>1, <2>2, <2>3, <2>4 DEF Call, TypeOK
<1>2. ASSUME NEW w \in Caller, Cancel(w) PROVE TypeOK'
  BY <1>t, <1>2 DEF Cancel, TypeOK
<1>3. ASSUME NEW w \in Caller, Slot(w) \/ Abandon(w) PROVE TypeOK'
  <2>1. pc' \in [Caller -> Steps]
    BY <1>t, <1>3, Moving DEF Slot, Abandon, Steps
  <2> QED BY <1>t, <1>3, <2>1 DEF Slot, Abandon, TypeOK
<1>4. ASSUME NEW w \in Caller, Attempt(w) PROVE TypeOK'
  <2>1. pc' \in [Caller -> Steps]
    BY <1>t, <1>4, Moving DEF Attempt, Steps
  <2>2. deadline' \in [Caller -> Nat]
    BY <1>t, <1>4, Times DEF Attempt, TypeOK, Least
  <2>3. attempt' \in [Caller -> 0..2]
    BY <1>t, <1>4 DEF Attempt, TypeOK
  <2> QED BY <1>t, <1>4, <2>1, <2>2, <2>3 DEF Attempt, TypeOK
<1>5. ASSUME NEW w \in Caller, Get(w) PROVE TypeOK'
  <2>1. /\ pc' \in [Caller -> Steps] /\ dialing' \in [Caller -> 0..DialTime]
        /\ target' \in [Caller -> {"none"} \cup Address]
    <3>1. CASE StartDial(w, upstream)
      BY <1>t, <3>1, Starting DEF TypeOK
    <3>2. CASE UNCHANGED <<dialing, target>> /\ (Go(w, "io") \/ Go(w, "look") \/ Fail(w))
      BY <1>t, <3>2, Moving, Failing DEF TypeOK, Steps
    <3> QED BY <1>5, <3>1, <3>2 DEF Get
  <2> QED BY <1>t, <1>5, <2>1 DEF Get, TypeOK
<1>6. ASSUME NEW w \in Caller, Dialed(w) PROVE TypeOK'
  <2>1. pc' \in [Caller -> Steps]
    BY <1>t, <1>6, Moving, Failing DEF Dialed, Steps
  <2>2. dialing' \in [Caller -> 0..DialTime] /\ target' \in [Caller -> {"none"} \cup Address]
    BY <1>t, <1>6, Times DEF Dialed, TypeOK
  <2> QED BY <1>t, <1>6, <2>1, <2>2 DEF Dialed, TypeOK
<1>7. ASSUME NEW w \in Caller, Answered(w) PROVE TypeOK'
  <2>1. pc' \in [Caller -> Steps]
    BY <1>t, <1>7, Moving, Failing DEF Answered, Steps
  <2> QED BY <1>t, <1>7, <2>1 DEF Answered, TypeOK
<1>8. ASSUME NEW w \in Caller, Return(w) PROVE TypeOK'
  <2>1. pc' \in [Caller -> Steps]
    BY <1>t, <1>8, Moving DEF Return, Steps
  <2>2. /\ ctx' \in [Caller -> Int] /\ outer' \in [Caller -> Nat]
        /\ deadline' \in [Caller -> Nat]
    BY <1>t, <1>8 DEF Return, TypeOK
  <2>3. dialing' \in [Caller -> 0..DialTime] /\ attempt' \in [Caller -> 0..2]
    BY <1>t, <1>8, Times DEF Return, TypeOK
  <2>4. /\ outcome' \in [Caller -> {"none", "failed"} \cup Address]
        /\ target' \in [Caller -> {"none"} \cup Address]
    BY <1>t, <1>8 DEF Return, TypeOK
  <2> QED BY <1>t, <1>8, <2>1, <2>2, <2>3, <2>4 DEF Return, TypeOK
<1>9. ASSUME NEW w \in Caller, Look(w) PROVE TypeOK'
  <2>1. /\ pc' \in [Caller -> Steps] /\ dialing' \in [Caller -> 0..DialTime]
        /\ target' \in [Caller -> {"none"} \cup Address]
    <3>1. CASE entry # NoEntry /\ StartDial(w, entry.addr)
      BY <1>t, <3>1, Starting DEF TypeOK, Entry
    <3>2. CASE UNCHANGED <<dialing, target>> /\ Go(w, "join")
      BY <1>t, <3>2, Moving DEF TypeOK, Steps
    <3> QED BY <1>9, <3>1, <3>2 DEF Look
  <2> QED BY <1>t, <1>9, <2>1 DEF Look, TypeOK
<1>10. ASSUME NEW w \in Caller, Join(w) PROVE TypeOK'
  <2>1. pc' \in [Caller -> Steps]
    BY <1>t, <1>10, Moving DEF Join, Steps
  <2>2. flight' \in Flight \cup {NoFlight}
    BY <1>t, <1>10, Times DEF Join, TypeOK, Flight
  <2> QED BY <1>t, <1>10, <2>1, <2>2 DEF Join, TypeOK
<1>11. ASSUME NEW w \in Caller, Woken(w) PROVE TypeOK'
  <2>1. /\ pc' \in [Caller -> Steps] /\ dialing' \in [Caller -> 0..DialTime]
        /\ target' \in [Caller -> {"none"} \cup Address]
    <3>1. CASE Fail(w) /\ UNCHANGED <<dialing, target>>
      BY <1>t, <3>1, Failing DEF TypeOK
    <3>2. CASE outcome[w] # "failed" /\ StartDial(w, outcome[w])
      <4>1. outcome[w] \in Address
        BY <1>t, <1>11, <3>2 DEF Woken, IInv, Informed, TypeOK
      <4> QED BY <1>t, <3>2, <4>1, Starting
    <3> QED BY <1>11, <3>1, <3>2 DEF Woken
  <2> QED BY <1>t, <1>11, <2>1 DEF Woken, TypeOK
<1>12. CASE Resolved
  <2>1. entry' \in Entry \cup {NoEntry} /\ flight' \in Flight \cup {NoFlight}
    BY <1>t, <1>12, Times DEF Resolved, Pending, TypeOK, Entry, Flight
  <2> QED BY <1>t, <1>12, <2>1 DEF Resolved, TypeOK
<1>13. CASE ResolveFails
  <2>1. flight' \in Flight \cup {NoFlight}
    BY <1>t, <1>13 DEF ResolveFails, Pending, TypeOK, Flight
  <2> QED BY <1>t, <1>13, <2>1 DEF ResolveFails, TypeOK
<1>14. CASE Land
  <2>1. pc' \in [Caller -> Steps]
    BY <1>t, <1>14 DEF Land, TypeOK, Steps
  <2>2. outcome' \in [Caller -> {"none", "failed"} \cup Address]
    BY <1>t, <1>14 DEF Land, TypeOK, Flight
  <2> QED BY <1>t, <1>14, <2>1, <2>2 DEF Land, TypeOK
<1>15. CASE Move
  BY <1>t, <1>15, Times DEF Move, TypeOK, Address
<1>16. CASE Tick
  <2>1. entry' \in Entry \cup {NoEntry} /\ flight' \in Flight \cup {NoFlight}
    BY <1>t, <1>16, Ticking
  <2>2. ctx' \in [Caller -> Int]
    BY <1>t, <1>16 DEF Tick, TypeOK
  <2>3. outer' \in [Caller -> Nat] /\ deadline' \in [Caller -> Nat]
    BY <1>t, <1>16 DEF Tick, TypeOK, Less
  <2>4. dialing' \in [Caller -> 0..DialTime] /\ grace' \in Nat
    BY <1>t, <1>16, Times DEF Tick, TypeOK, Less
  <2> QED BY <1>t, <1>16, <2>1, <2>2, <2>3, <2>4 DEF Tick, TypeOK
<1>17. CASE UNCHANGED vars
  BY <1>t, <1>17 DEF vars, TypeOK
<1> QED
  BY <1>1, <1>2, <1>3, <1>4, <1>5, <1>6, <1>7, <1>8, <1>9, <1>10, <1>11, <1>12, <1>13,
     <1>14, <1>15, <1>16, <1>17 DEF Next, Step

-------------------------------------------------------------------------------
(* What callers know of lookups                                            *)

(* No step tells a caller of a failure that is not the resolver's.         *)
LEMMA InformedStep ==
    ASSUME IInv, [Next]_vars
    PROVE  Informed' /\ Blame'
<1> USE DEF cache, world, caller
<1>t. TypeOK /\ Informed /\ Blame
  BY DEF IInv
<1>1. ASSUME NEW w \in Caller, NEW s \in Steps \ {"wait", "woken"}, Go(w, s), pc[w] # "woken",
             UNCHANGED <<flight, outcome, resolver>>
      PROVE  Informed' /\ Blame'
  BY <1>t, <1>1 DEF Informed, Blame, TypeOK, Go
<1>2. ASSUME UNCHANGED <<pc, flight, outcome, resolver>> PROVE Informed' /\ Blame'
  BY <1>t, <1>2 DEF Informed, Blame
<1>3. ASSUME NEW w \in Caller, NEW t \in CtxTimes, Call(w, t) PROVE Informed' /\ Blame'
  BY <1>1, <1>3 DEF Call, Steps
<1>4. ASSUME NEW w \in Caller, Cancel(w) PROVE Informed' /\ Blame'
  BY <1>2, <1>4 DEF Cancel
<1>5. ASSUME NEW w \in Caller, Slot(w) \/ Attempt(w) \/ Abandon(w) PROVE Informed' /\ Blame'
  BY <1>1, <1>5 DEF Slot, Attempt, Abandon, Steps
<1>6. ASSUME NEW w \in Caller, Get(w) \/ Dialed(w) \/ Answered(w) \/ Look(w)
      PROVE  Informed' /\ Blame'
  BY <1>1, <1>6 DEF Get, Dialed, Answered, Look, StartDial, Fail, Steps
<1>7. ASSUME NEW w \in Caller, Return(w) PROVE Informed' /\ Blame'
  <2>1. outcome' = outcome
    BY <1>t, <1>7 DEF Return, Informed, TypeOK
  <2> QED BY <1>1, <1>7, <2>1 DEF Return, Steps
<1>8. ASSUME NEW w \in Caller, Join(w) PROVE Informed' /\ Blame'
  <2>1. flight' # NoFlight /\ flight' \in {flight, [leader |-> w, addr |-> upstream,
                                                left |-> LookupTime, outcome |-> "pending"]}
    BY <1>t, <1>8, NoneIsNone, Times DEF Join, TypeOK, Flight
  <2>2. Informed'
    BY <1>t, <1>8, <2>1 DEF Join, Informed, TypeOK, Go
  <2>3. Blame'
    BY <1>t, <1>8, <2>1 DEF Join, Blame
  <2> QED BY <2>2, <2>3
<1>9. ASSUME NEW w \in Caller, Woken(w) PROVE Informed' /\ Blame'
  <2>1. PICK s \in Steps \ {"wait", "woken"} : Go(w, s)
    BY <1>9 DEF Woken, Fail, StartDial, Steps
  <2> QED BY <1>t, <1>9, <2>1 DEF Woken, Informed, Blame, TypeOK, Go
<1>10. CASE Resolved \/ ResolveFails
  <2>1. /\ flight \in Flight /\ flight' # NoFlight /\ UNCHANGED <<pc, outcome, resolver>>
        /\ flight'.outcome = "failed" => resolver = "down"
    <3>1. PICK result : flight' = [flight EXCEPT !.outcome = result]
                        /\ result \in {"failed"} \cup Address
                        /\ (result = "failed" => resolver = "down")
      BY <1>t, <1>10 DEF Resolved, ResolveFails, Pending, TypeOK, Flight, Address
    <3>2. flight \in Flight
      BY <1>t, <1>10 DEF Resolved, ResolveFails, Pending, TypeOK
    <3>3. flight' \in Flight /\ flight'.outcome = result
      BY <3>1, <3>2 DEF Flight
    <3> QED BY <1>10, <3>1, <3>2, <3>3, NoneIsNone DEF Resolved, ResolveFails
  <2> QED BY <1>t, <2>1 DEF Informed, Blame
<1>11. CASE Land
  <2>1. flight \in Flight /\ flight.outcome \in {"failed"} \cup Address
    BY <1>t, <1>11 DEF Land, TypeOK, Flight
  <2>2. Informed'
    BY <1>t, <1>11, <2>1 DEF Land, Informed, TypeOK, Address
  <2>3. Blame'
    BY <1>t, <1>11 DEF Land, Blame, TypeOK
  <2> QED BY <2>2, <2>3
<1>12. CASE Move \/ UNCHANGED vars
  BY <1>2, <1>12 DEF Move, vars
<1>13. CASE Tick
  BY <1>t, <1>13, Ticking DEF Tick, Informed, Blame
<1> QED
  BY <1>3, <1>4, <1>5, <1>6, <1>7, <1>8, <1>9, <1>10, <1>11, <1>12, <1>13 DEF Next, Step

-------------------------------------------------------------------------------
(* Where dials go                                                          *)

(* No step keeps or dials an old address for longer than allowed.          *)
LEMMA FreshStep ==
    ASSUME IInv, [Next]_vars
    PROVE  Fresh' /\ PicksUpMove'
<1> USE DEF cache, world, caller
<1>t. TypeOK /\ Informed /\ Fresh /\ PicksUpMove
  BY DEF IInv
<1>1. ASSUME UNCHANGED <<entry, flight, upstream, grace, outcome>> PROVE Fresh'
  BY <1>t, <1>1 DEF Fresh
<1>2. ASSUME UNCHANGED <<pc, dialing, target, upstream, grace>> PROVE PicksUpMove'
  BY <1>t, <1>2 DEF PicksUpMove
<1>3. ASSUME NEW w \in Caller, NEW s \in Steps \ {"dial"}, Go(w, s), UNCHANGED <<upstream, grace>>,
             \A v \in Caller \ {w} : dialing'[v] = dialing[v] /\ target'[v] = target[v]
      PROVE  PicksUpMove'
  BY <1>t, <1>3 DEF PicksUpMove, TypeOK, Go
<1>4. ASSUME NEW w \in Caller, NEW addr, StartDial(w, addr), UNCHANGED <<upstream, grace>>,
             addr = "old" => upstream = "old" \/ grace > 0
      PROVE  PicksUpMove'
  BY <1>t, <1>4 DEF PicksUpMove, TypeOK, StartDial, Go
<1>5. ASSUME NEW w \in Caller, NEW t \in CtxTimes, Call(w, t) PROVE Fresh' /\ PicksUpMove'
  BY <1>1, <1>3, <1>5 DEF Call, Steps
<1>6. ASSUME NEW w \in Caller, Cancel(w) PROVE Fresh' /\ PicksUpMove'
  BY <1>1, <1>2, <1>6 DEF Cancel
<1>7. ASSUME NEW w \in Caller, Slot(w) \/ Attempt(w) \/ Abandon(w) \/ Answered(w)
      PROVE  Fresh' /\ PicksUpMove'
  BY <1>1, <1>3, <1>7 DEF Slot, Attempt, Abandon, Answered, Fail, Steps
<1>8. ASSUME NEW w \in Caller, Get(w) PROVE Fresh' /\ PicksUpMove'
  <2>1. CASE StartDial(w, upstream)
    BY <1>1, <1>4, <1>8, <2>1 DEF Get
  <2>2. CASE UNCHANGED <<dialing, target>> /\ (Go(w, "io") \/ Go(w, "look") \/ Fail(w))
    BY <1>1, <1>3, <1>8, <2>2 DEF Get, Fail, Steps
  <2> QED BY <1>8, <2>1, <2>2 DEF Get
<1>9. ASSUME NEW w \in Caller, Dialed(w) PROVE Fresh' /\ PicksUpMove'
  <2>1. \A v \in Caller \ {w} : dialing'[v] = dialing[v] /\ target'[v] = target[v]
    BY <1>t, <1>9 DEF Dialed, TypeOK
  <2> QED BY <1>1, <1>3, <1>9, <2>1 DEF Dialed, Fail, Steps
<1>10. ASSUME NEW w \in Caller, Return(w) PROVE Fresh' /\ PicksUpMove'
  <2>1. \A v \in Caller \ {w} : dialing'[v] = dialing[v] /\ target'[v] = target[v]
    BY <1>t, <1>10 DEF Return, TypeOK
  <2>2. outcome' = outcome
    BY <1>t, <1>10 DEF Return, Informed, TypeOK
  <2> QED BY <1>1, <1>3, <1>10, <2>1, <2>2 DEF Return, Steps
<1>11. ASSUME NEW w \in Caller, Look(w) PROVE Fresh' /\ PicksUpMove'
  <2>1. CASE entry # NoEntry /\ entry.left > 0 /\ StartDial(w, entry.addr)
    <3>1. entry.addr = "old" => upstream = "old" \/ grace > 0
      BY <1>t, <2>1 DEF Fresh, TypeOK, Entry, Address
    <3> QED BY <1>1, <1>4, <1>11, <2>1, <3>1 DEF Look
  <2>2. CASE UNCHANGED <<dialing, target>> /\ Go(w, "join")
    BY <1>1, <1>3, <1>11, <2>2 DEF Look, Steps
  <2> QED BY <1>11, <2>1, <2>2 DEF Look
<1>12. ASSUME NEW w \in Caller, Join(w) PROVE Fresh' /\ PicksUpMove'
  <2>1. PicksUpMove'
    BY <1>3, <1>12 DEF Join, Steps
  <2>2. UNCHANGED <<entry, upstream, grace, outcome>>
    BY <1>12 DEF Join
  <2>3. CASE flight = NoFlight
    <3>1. flight'.addr = upstream /\ flight'.outcome = "pending"
      BY <1>12, <2>3 DEF Join
    <3> QED BY <1>t, <2>1, <2>2, <3>1 DEF Fresh
  <2>4. CASE flight # NoFlight
    <3>1. flight' = flight
      BY <1>12, <2>4 DEF Join
    <3> QED BY <1>1, <2>1, <2>2, <3>1
  <2> QED BY <2>3, <2>4
<1>13. ASSUME NEW w \in Caller, Woken(w) PROVE Fresh' /\ PicksUpMove'
  <2>1. Fresh'
    BY <1>t, <1>13 DEF Woken, Fresh, TypeOK
  <2>2. CASE StartDial(w, outcome[w])
    <3>1. outcome[w] = "old" => upstream = "old" \/ grace > 0
      BY <1>t DEF Fresh, TypeOK, Address
    <3> QED BY <1>4, <1>13, <2>1, <2>2, <3>1 DEF Woken
  <2>3. CASE UNCHANGED <<dialing, target>> /\ Fail(w)
    BY <1>3, <1>13, <2>1, <2>3 DEF Woken, Fail, Steps
  <2> QED BY <1>13, <2>2, <2>3 DEF Woken
<1>14. CASE Resolved
  <2>1. PICK addr \in {flight.addr, upstream} :
          /\ entry' = [addr |-> addr, left |-> Ttl]
          /\ flight' = [flight EXCEPT !.outcome = addr]
    BY <1>14 DEF Resolved
  <2>2. flight \in Flight /\ flight.outcome = "pending" /\ flight # NoFlight
    BY <1>t, <1>14 DEF Resolved, Pending, TypeOK
  <2>3. flight'.outcome = addr /\ addr \in Address
    BY <1>t, <2>1, <2>2 DEF Flight, TypeOK
  <2>4. upstream = "new" /\ addr = "old" => Ttl <= grace
    BY <1>t, <2>1, <2>2, Times DEF Fresh, Flight, TypeOK
  <2>5. flight'.outcome # "pending"
    BY <2>3 DEF Address
  <2>6. grace \in Nat /\ UNCHANGED <<upstream, grace, outcome>>
    BY <1>t, <1>14 DEF Resolved, TypeOK
  <2>7. Fresh'
    BY <1>t, <2>1, <2>3, <2>4, <2>5, <2>6, Times DEF Fresh
  <2> QED BY <1>2, <1>14, <2>7 DEF Resolved
<1>15. CASE ResolveFails
  <2>1. flight \in Flight /\ flight' = [flight EXCEPT !.outcome = "failed"]
    BY <1>t, <1>15 DEF ResolveFails, Pending, TypeOK
  <2>2. flight'.outcome = "failed"
    BY <2>1 DEF Flight
  <2> QED BY <1>t, <1>2, <1>15, <2>2 DEF ResolveFails, Fresh
<1>16. CASE Land
  <2>1. Fresh'
    BY <1>t, <1>16 DEF Land, Fresh, TypeOK
  <2>2. \A w \in Caller : pc'[w] = "dial" => pc[w] = "dial"
    BY <1>t, <1>16 DEF Land, TypeOK
  <2> QED BY <1>t, <1>16, <2>1, <2>2 DEF Land, PicksUpMove
<1>17. CASE Move
  <2>1. grace' = LookupTime + Ttl
    BY <1>17 DEF Move
  <2>2. entry # NoEntry => entry.left \in 0..Ttl
    BY <1>t DEF TypeOK, Entry
  <2>3. flight # NoFlight => flight.left \in 0..LookupTime
    BY <1>t DEF TypeOK, Flight
  <2>4. Fresh'
    BY <1>17, <2>1, <2>2, <2>3, Times DEF Move, Fresh
  <2>5. PicksUpMove'
    BY <2>1, Times DEF PicksUpMove
  <2> QED BY <2>4, <2>5
<1>18. CASE Tick
  <2>1. grace' = Less(grace) /\ UNCHANGED <<upstream, outcome>> /\ grace \in Nat
    BY <1>t, <1>18 DEF Tick, TypeOK
  <2>2. \A w \in Caller : outcome[w] = "none"
    BY <1>t, <1>18 DEF Tick, Due, Informed
  <2>3. ASSUME entry' # NoEntry, entry'.addr = "old", upstream = "new" PROVE entry'.left <= grace'
    <3>1. entry # NoEntry /\ entry \in Entry /\ entry'.left = Less(entry.left)
          /\ entry.addr = "old"
      BY <1>t, <1>18, <2>3, Ticking
    <3>2. entry.left <= grace /\ entry.left \in Nat
      BY <1>t, <2>3, <3>1 DEF Fresh, Entry
    <3> QED BY <2>1, <3>1, <3>2 DEF Less
  <2>4. ASSUME flight' # NoFlight, flight'.addr = "old", upstream = "new"
        PROVE  flight'.left + Ttl <= grace'
    <3>1. flight # NoFlight /\ flight \in Flight /\ flight'.left = flight.left - 1
          /\ flight.left > 0 /\ flight.addr = "old" /\ flight.outcome = "pending"
      BY <1>t, <1>18, <2>4, Ticking
    <3>2. flight.left + Ttl <= grace /\ flight.left \in Nat
      BY <1>t, <2>4, <3>1 DEF Fresh, Flight
    <3> QED BY <2>1, <3>1, <3>2, Times DEF Less
  <2>5. flight' # NoFlight => flight'.outcome = "pending"
    BY <1>t, <1>18, Ticking
  <2>6. Fresh'
    BY <2>1, <2>2, <2>3, <2>4, <2>5 DEF Fresh
  <2>7. \A w \in Caller : dialing'[w] # DialTime
    BY <1>t, <1>18, Times DEF Tick, TypeOK, Less
  <2> QED BY <2>6, <2>7 DEF PicksUpMove
<1>19. CASE UNCHANGED vars
  BY <1>1, <1>2, <1>19 DEF vars
<1> QED
  BY <1>5, <1>6, <1>7, <1>8, <1>9, <1>10, <1>11, <1>12, <1>13, <1>14, <1>15, <1>16, <1>17,
     <1>18, <1>19 DEF Next, Step

-------------------------------------------------------------------------------
(* How long an Exchange takes                                              *)

(* The types of what OnTime speaks of.                                     *)
LEMMA Clocks ==
    ASSUME TypeOK, NEW w \in Caller
    PROVE  /\ pc[w] \in Steps /\ ctx[w] \in Int /\ outer[w] \in Nat
           /\ deadline[w] \in Nat /\ dialing[w] \in 0..DialTime
           /\ flight # NoFlight => flight.left \in 0..LookupTime
BY DEF TypeOK, Flight

(* No step lets a caller run longer than its clocks allow.                 *)
LEMMA ClockStep ==
    ASSUME IInv, [Next]_vars, NEW v \in Caller
    PROVE  OnTime(v)'
<1> USE DEF cache, world, caller
<1>t. TypeOK /\ Informed /\ OnTime(v)
  BY DEF IInv
<1>c. /\ pc[v] \in Steps /\ ctx[v] \in Int /\ outer[v] \in Nat
      /\ deadline[v] \in Nat /\ dialing[v] \in 0..DialTime
      /\ flight # NoFlight => flight.left \in 0..LookupTime
      /\ pc[v] = "wait" => flight # NoFlight
  BY <1>t, Clocks DEF Informed
<1>f. /\ pc \in [Caller -> Steps] /\ ctx \in [Caller -> Int] /\ outer \in [Caller -> Nat]
      /\ deadline \in [Caller -> Nat] /\ dialing \in [Caller -> 0..DialTime]
  BY <1>t DEF TypeOK
(* What becomes of v when its place in Exchange and its clocks stay.       *)
<1>1. ASSUME pc'[v] = pc[v], ctx'[v] = ctx[v], deadline'[v] = deadline[v],
             dialing'[v] = dialing[v], UNCHANGED client,
             pc[v] = "wait" => flight'.left = flight.left
      PROVE  OnTime(v)'
  BY <1>t, <1>1 DEF OnTime, DoT
<1>2. ASSUME NEW t \in CtxTimes, Call(v, t) PROVE OnTime(v)'
  <2>1. t \in Nat /\ ctx'[v] = t /\ client' = client
        /\ pc'[v] = IF DoT THEN "slot" ELSE "get"
    BY <1>f, <1>2, UpstreamExchangeAssumption DEF Call, Go
  <2> QED BY <2>1, Times DEF OnTime, DoT
<1>3. CASE Cancel(v)
  <2>1. ctx'[v] = 0 /\ UNCHANGED <<client, pc, deadline, dialing, flight>>
    BY <1>f, <1>3 DEF Cancel
  <2> QED BY <1>t, <1>c, <2>1, Times DEF OnTime, DoT
<1>4. CASE Slot(v) \/ Abandon(v) \/ Return(v)
  <2>1. /\ ctx'[v] \in {ctx[v], 0} /\ client' = client
        /\ pc'[v] \in {"idle", "attempt", "return"}
    BY <1>f, <1>4 DEF Slot, Abandon, Return, Go
  <2> QED BY <1>t, <1>c, <2>1, Times DEF OnTime, DoT
<1>5. CASE Attempt(v)
  <2>1. ctx' = ctx /\ client' = client
    BY <1>5 DEF Attempt
  <2>2. CASE pc'[v] = "return"
    BY <1>t, <2>1, <2>2 DEF OnTime, DoT
  <2>3. CASE pc'[v] = "get"
    <3>1. ctx[v] > 0 /\ deadline'[v] = Least(outer[v], AttemptTime)
      BY <1>f, <1>c, <1>5, <2>3 DEF Attempt, Go, Done
    <3>2. deadline'[v] \in 0..AttemptTime
      BY <1>c, <3>1, Times DEF Least
    <3> QED BY <1>c, <2>1, <2>3, <3>1, <3>2, Times DEF OnTime, DoT
  <2> QED BY <1>f, <1>5, <2>2, <2>3 DEF Attempt, Go
(* A dial begins with the whole of DialTime.                               *)
<1>6. ASSUME NEW addr, StartDial(v, addr), UNCHANGED <<client, ctx, deadline>>, ctx[v] >= 0,
             pc[v] \in {"get", "look", "woken"}
      PROVE  OnTime(v)'
  <2>1. pc'[v] = "dial" /\ dialing'[v] = DialTime
    BY <1>f, <1>6 DEF StartDial, Go
  <2> QED BY <1>t, <1>c, <1>6, <2>1, Times DEF OnTime, DoT
(* An attempt fails.                                                       *)
<1>7. ASSUME Fail(v), UNCHANGED <<client, ctx>>
      PROVE  OnTime(v)'
  <2>1. pc'[v] \in {"attempt", "return"}
    BY <1>f, <1>7 DEF Fail, Go
  <2> QED BY <1>t, <1>7, <2>1 DEF OnTime, DoT
<1>8. CASE Get(v)
  <2>1. UNCHANGED <<client, ctx, deadline>> /\ ctx[v] >= 0 /\ pc[v] = "get"
    BY <1>t, <1>8 DEF Get, OnTime
  <2>2. CASE StartDial(v, upstream)
    BY <1>6, <2>1, <2>2
  <2>3. CASE Fail(v)
    BY <1>7, <2>1, <2>3
  <2>4. CASE Go(v, "io") \/ Go(v, "look")
    <3>1. pc'[v] \in {"io", "look"}
      BY <1>f, <2>4 DEF Go
    <3> QED BY <1>t, <2>1, <3>1 DEF OnTime, DoT
  <2> QED BY <1>8, <2>2, <2>3, <2>4 DEF Get
<1>9. CASE Dialed(v)
  <2>1. UNCHANGED <<client, ctx, deadline>> /\ pc[v] = "dial"
    BY <1>9 DEF Dialed
  <2>2. CASE Fail(v)
    BY <1>7, <2>1, <2>2
  <2>3. CASE Go(v, "io")
    <3>1. pc'[v] = "io"
      BY <1>f, <2>3 DEF Go
    <3> QED BY <1>t, <2>1, <3>1 DEF OnTime, DoT
  <2> QED BY <1>9, <2>2, <2>3 DEF Dialed
<1>10. CASE Answered(v)
  <2>1. UNCHANGED <<client, ctx>>
    BY <1>10 DEF Answered
  <2>2. CASE Fail(v)
    BY <1>7, <2>1, <2>2
  <2>3. CASE Go(v, "return")
    <3>1. pc'[v] = "return"
      BY <1>f, <2>3 DEF Go
    <3> QED BY <1>t, <2>1, <3>1 DEF OnTime, DoT
  <2> QED BY <1>10, <2>2, <2>3 DEF Answered
<1>11. CASE Look(v)
  <2>1. UNCHANGED <<client, ctx, deadline>> /\ ctx[v] >= 0 /\ pc[v] = "look"
    BY <1>t, <1>11 DEF Look, OnTime
  <2>2. CASE StartDial(v, entry.addr)
    BY <1>6, <2>1, <2>2
  <2>3. CASE Go(v, "join")
    <3>1. pc'[v] = "join"
      BY <1>f, <2>3 DEF Go
    <3> QED BY <1>t, <2>1, <3>1 DEF OnTime, DoT
  <2> QED BY <1>11, <2>2, <2>3 DEF Look
<1>12. CASE Join(v)
  <2>1. UNCHANGED <<client, ctx, deadline>> /\ pc[v] = "join" /\ pc'[v] = "wait"
    BY <1>f, <1>12 DEF Join, Go
  <2>2. flight'.left \in 0..LookupTime
    BY <1>c, <1>12, Times DEF Join
  <2> QED BY <1>t, <1>c, <2>1, <2>2, Times DEF OnTime, DoT
<1>13. CASE Woken(v)
  <2>1. UNCHANGED <<client, ctx, deadline>> /\ pc[v] = "woken"
    BY <1>13 DEF Woken
  <2>2. CASE Fail(v)
    BY <1>7, <2>1, <2>2
  <2>3. CASE ~Done(v) /\ StartDial(v, outcome[v])
    BY <1>6, <1>c, <2>1, <2>3 DEF Done
  <2> QED BY <1>13, <2>2, <2>3 DEF Woken
(* A step of another caller.                                               *)
<1>14. ASSUME NEW w \in Caller \ {v},
              Step(w) \/ Cancel(w) \/ \E t \in CtxTimes : Call(w, t)
       PROVE  OnTime(v)'
  <2>1. pc'[v] = pc[v] /\ client' = client
    BY <1>f, <1>14 DEF Step, Call, Cancel, Slot, Attempt, Get, Dialed, Answered, Abandon, Return,
                       Look, Join, Woken, Fail, StartDial, Go
  <2>2. ctx'[v] = ctx[v] /\ deadline'[v] = deadline[v]
    BY <1>f, <1>14 DEF Step, Call, Cancel, Slot, Attempt, Get, Dialed, Answered, Abandon, Return,
                       Look, Join, Woken
  <2>3. dialing'[v] = dialing[v]
    BY <1>f, <1>14 DEF Step, Call, Cancel, Slot, Attempt, Get, Dialed, Answered, Abandon, Return,
                       Look, Join, Woken, StartDial
  <2>4. pc[v] = "wait" => flight'.left = flight.left
    BY <1>c, <1>14 DEF Step, Call, Cancel, Slot, Attempt, Get, Dialed, Answered, Abandon, Return,
                       Look, Join, Woken
  <2> QED BY <1>1, <2>1, <2>2, <2>3, <2>4
<1>15. CASE Resolved \/ ResolveFails
  <2>1. PICK result : flight' = [flight EXCEPT !.outcome = result]
    BY <1>15 DEF Resolved, ResolveFails
  <2>2. flight \in Flight
    BY <1>t, <1>15 DEF Resolved, ResolveFails, Pending, TypeOK
  <2>3. flight'.left = flight.left
    BY <2>1, <2>2 DEF Flight
  <2> QED BY <1>1, <1>15, <2>3 DEF Resolved, ResolveFails
<1>16. CASE Land
  <2>1. /\ UNCHANGED <<client, ctx, deadline, dialing>>
        /\ pc'[v] = IF pc[v] = "wait" THEN "woken" ELSE pc[v]
    BY <1>16 DEF Land
  <2> QED BY <1>t, <2>1 DEF OnTime, DoT
<1>17. CASE Move \/ UNCHANGED vars
  BY <1>1, <1>17 DEF Move, vars
<1>18. CASE Tick
  <2>1. /\ UNCHANGED <<client, pc>> /\ ~Due(v)
        /\ ctx'[v] = IF pc[v] = "idle" THEN 0 ELSE ctx[v] - 1
        /\ deadline'[v] = Less(deadline[v]) /\ dialing'[v] = Less(dialing[v])
    BY <1>18 DEF Tick
  <2>2. pc[v] \in {"idle", "slot", "wait", "dial", "io"}
    BY <1>c, <2>1 DEF Due, Steps
  <2>3. pc[v] = "wait" => flight'.left = flight.left - 1 /\ flight.left > 0
    BY <1>t, <1>c, <1>18, Ticking
  <2>4. CASE ~DoT
    BY <1>t, <1>c, <2>1, <2>2, <2>4 DEF OnTime, DoT, Due, Done
  <2>5. CASE DoT /\ pc[v] \in {"idle", "slot"}
    BY <1>c, <2>1, <2>5, Times DEF OnTime, DoT, Due, Done
  <2>6. CASE DoT /\ pc[v] \in {"wait", "dial", "io"}
    <3>1. /\ deadline'[v] <= AttemptTime
          /\ deadline'[v] = 0 \/ ctx'[v] >= deadline'[v] - AttemptTime
      BY <1>t, <1>c, <2>1, <2>6, Times DEF OnTime, DoT, Less
    <3>2. CASE pc[v] = "wait"
      BY <1>t, <1>c, <2>1, <2>3, <2>6, <3>1, <3>2, Times DEF OnTime, DoT
    <3>3. CASE pc[v] = "dial"
      BY <1>t, <1>c, <2>1, <2>6, <3>1, <3>3, Times DEF OnTime, DoT, Due, Less
    <3>4. CASE pc[v] = "io"
      BY <1>t, <1>c, <2>1, <2>6, <3>1, <3>4, Times DEF OnTime, DoT, Due, Less
    <3> QED BY <2>6, <3>2, <3>3, <3>4
  <2> QED BY <2>2, <2>4, <2>5, <2>6
<1> QED
  BY <1>2, <1>3, <1>4, <1>5, <1>8, <1>9, <1>10, <1>11, <1>12, <1>13, <1>14, <1>15, <1>16,
     <1>17, <1>18 DEF Next, Step

-------------------------------------------------------------------------------
(* The inductive invariant holds.                                          *)
THEOREM Invariance == Spec => []IInv
<1>1. ASSUME IInv, [Next]_vars PROVE IInv'
  <2>1. \A w \in Caller : OnTime(w)'
    BY <1>1, ClockStep
  <2> QED BY <1>1, <2>1, TypeStep, InformedStep, FreshStep DEF IInv
<1> QED BY <1>1, Initially, PTL DEF Spec

(* Every clock stays in its range: a dial is never longer than its         *)
(* Timeout, a lookup never longer than its own, and DoT makes at most two  *)
(* attempts.                                                               *)
THEOREM Typing == Spec => []TypeOK
<1>1. IInv => TypeOK
  BY DEF IInv
<1> QED BY <1>1, Invariance, PTL

(* A lookup that is shared fails nobody because of who leads it: a caller  *)
(* with a context that lives is told of a failure only when the resolver   *)
(* failed (hostnameCache.lookup looks up with a context of its own).       *)
THEOREM SharedLookupIsSafe == Spec => []NotPoisoned
<1>1. IInv => NotPoisoned
  BY DEF IInv, Blame, NotPoisoned
<1> QED BY <1>1, Invariance, PTL

(* No dial goes to an upstream's old address more than a lookup and the TTL*)
(* after it has moved, whoever looked it up and whoever waited.            *)
THEOREM MoveIsPickedUp == Spec => []PicksUpMove
<1>1. IInv => PicksUpMove
  BY DEF IInv
<1> QED BY <1>1, Invariance, PTL

(* An Exchange outlives its context by one lookup or one dial at the most  *)
(* over DoT, and not at all over DoH.                                      *)
THEOREM ExchangeEnds == Spec => []ExchangeBounded
<1>1. IInv => ExchangeBounded
  BY DEF IInv, OnTime, ExchangeBounded
<1> QED BY <1>1, Invariance, PTL

===============================================================================
