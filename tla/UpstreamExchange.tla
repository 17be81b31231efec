---------------------------- MODULE UpstreamExchange ----------------------------
(***************************************************************************)
(* How long an exchange with an upstream takes, and with whom: Exchange    *)
(* and dial of dns/dot.go and dns/doh.go over the hostnameCache of         *)
(* dns/resolver_cache.go.  DotPool follows the connections of the same     *)
(* Exchange and has no clock; here there is one, and a connection from the *)
(* pool is just one that needs no dial.                                    *)
(*                                                                         *)
(* Every time is a countdown, so that no bound on the clock is needed.     *)
(* Computing takes no time: Tick waits for whoever can go on by himself.   *)
(***************************************************************************)
EXTENDS Integers, FiniteSets

CONSTANTS
    Caller,       \* goroutines that call Exchange
    Slots,        \* most slots of the semaphore (dotPoolSize) that are tried
    CtxTimes,     \* how long a caller's context may last
    QueryTime,    \* dotPerQueryTimeout; over DoH the timeout of http.Client
    AttemptTime,  \* dotPerAttemptTimeout
    DialTime,     \* the Timeout of both Dialers
    LookupTime,   \* the timeout of a lookup
    Ttl,          \* DefaultHostnameTTL
    NoEntry, NoFlight

ASSUME UpstreamExchangeAssumption ==
    /\ Slots \in Nat \ {0} /\ CtxTimes \subseteq Nat \ {0}
    /\ {QueryTime, AttemptTime, DialTime, LookupTime, Ttl} \subseteq Nat \ {0}
    /\ AttemptTime <= DialTime \/ AttemptTime <= LookupTime

VARIABLES
    client,     \* [proto, literal, slots]: DoT or DoH, to a literal address or
                \* a name, with this many slots for DoT
    entry,      \* the entry of the cache: [addr, left]
    flight,     \* the lookup that runs: [leader, addr, left, outcome]
    pc,         \* where each caller is
    ctx,        \* what is left of each caller's context; below 0, how long it is over
    outer,      \* what is left of the Exchange's own deadline
    deadline,   \* what is left of the attempt's deadline
    dialing,    \* what is left of the dial
    attempt,    \* the number of the attempt
    outcome,    \* how the flight the caller waited for ended
    target,     \* the address a caller connects to
    resolver,   \* "up": answers in time; "down": may also fail or say nothing
    upstream,   \* the upstream's address, "old" and then "new"
    grace       \* how long the old address may still be in use

caller == <<pc, ctx, outer, deadline, dialing, attempt, outcome, target>>
cache == <<entry, flight>>
world == <<client, resolver, upstream, grace>>
vars == <<client, entry, flight, pc, ctx, outer, deadline, dialing, attempt,
          outcome, target, resolver, upstream, grace>>

Address == {"old", "new"}
Entry == [addr : Address, left : 0..Ttl]
Flight == [leader : Caller, addr : Address, left : 0..LookupTime,
           outcome : {"pending", "failed"} \cup Address]

ASSUME NoneIsNone == NoEntry \notin Entry /\ NoFlight \notin Flight

Steps == {"idle", "slot", "attempt", "get", "look", "join", "wait", "woken", "dial", "io", "return"}

Least(a, b) == IF a < b THEN a ELSE b
DoT == client.proto = "DoT"
Done(w) == ctx[w] <= 0
Go(w, s) == pc' = [pc EXCEPT ![w] = s]

(* An attempt fails: DoT goes round its loop, DoH returns the error.       *)
Fail(w) == Go(w, IF DoT THEN "attempt" ELSE "return")

Init ==
    /\ client \in [proto : {"DoT", "DoH"}, literal : BOOLEAN, slots : 1..Slots]
    /\ entry = NoEntry /\ flight = NoFlight
    /\ pc = [w \in Caller |-> "idle"]
    /\ ctx = [w \in Caller |-> 0] /\ outer = ctx /\ deadline = ctx /\ dialing = ctx
    /\ attempt = ctx
    /\ outcome = [w \in Caller |-> "none"]
    /\ target = [w \in Caller |-> "none"]
    /\ resolver \in {"up", "down"}
    /\ upstream = "old" /\ grace = 0
-------------------------------------------------------------------------------
(* Exchange                                                                *)

(* Exchange is entered with a context that lasts t.                        *)
Call(w, t) ==
    /\ pc[w] = "idle" /\ Go(w, IF DoT THEN "slot" ELSE "get")
    /\ ctx' = [ctx EXCEPT ![w] = t]
    /\ outer' = [outer EXCEPT ![w] = Least(QueryTime, t)]
    /\ deadline' = [deadline EXCEPT ![w] = outer'[w]]
    /\ UNCHANGED <<cache, world, dialing, attempt, outcome, target>>

(* The race was won by another upstream, or the server stops.              *)
Cancel(w) ==
    /\ pc[w] # "idle" /\ ~Done(w) /\ ctx' = [ctx EXCEPT ![w] = 0]
    /\ UNCHANGED <<cache, world, pc, outer, deadline, dialing, attempt, outcome, target>>

Holders == {w \in Caller : pc[w] \notin {"idle", "slot"}}

(* The semaphore of DoT, or <-ctx.Done().                                  *)
Slot(w) ==
    /\ pc[w] = "slot"
    /\ \/ Cardinality(Holders) < client.slots /\ Go(w, "attempt")
       \/ Done(w) /\ Go(w, "return")
    /\ UNCHANGED <<cache, world, ctx, outer, deadline, dialing, attempt, outcome, target>>

(* The head of DoT's retry loop: the deadline of the attempt is fixed      *)
(* before the connection is there.                                         *)
Attempt(w) ==
    /\ pc[w] = "attempt"
    /\ IF Done(w) \/ attempt[w] = 2
         THEN Go(w, "return") /\ UNCHANGED <<deadline, attempt>>
         ELSE /\ Go(w, "get") /\ attempt' = [attempt EXCEPT ![w] = @ + 1]
              /\ deadline' = [deadline EXCEPT ![w] = Least(outer[w], AttemptTime)]
    /\ UNCHANGED <<cache, world, ctx, outer, dialing, outcome, target>>

StartDial(w, addr) ==
    /\ Go(w, "dial")
    /\ dialing' = [dialing EXCEPT ![w] = DialTime]
    /\ target' = [target EXCEPT ![w] = addr]

(* An idle connection, or a dial: at once to a literal address, after a    *)
(* lookup otherwise, which DoT does not begin with a context that is over. *)
Get(w) ==
    /\ pc[w] = "get"
    /\ \/ Go(w, "io") /\ UNCHANGED <<dialing, target>>
       \/ client.literal /\ StartDial(w, upstream)
       \/ /\ ~client.literal /\ UNCHANGED <<dialing, target>>
          /\ IF DoT /\ Done(w) THEN Fail(w) ELSE Go(w, "look")
    /\ UNCHANGED <<cache, world, ctx, outer, deadline, attempt, outcome>>

(* The dial ends, over DoT whatever became of the context.                 *)
Dialed(w) ==
    /\ pc[w] = "dial"
    /\ \/ dialing[w] > 0 /\ Go(w, "io")
       \/ Fail(w)
    /\ dialing' = [dialing EXCEPT ![w] = 0] /\ target' = [target EXCEPT ![w] = "none"]
    /\ UNCHANGED <<cache, world, ctx, outer, deadline, attempt, outcome>>

(* The answer comes before the deadline of the attempt; an error, or over  *)
(* DoH a response that is not a DNS message, may come at any time.         *)
Answered(w) ==
    /\ pc[w] = "io"
    /\ \/ deadline[w] > 0 /\ Go(w, "return")
       \/ Fail(w)
    /\ deadline' = [deadline EXCEPT ![w] = 0]
    /\ UNCHANGED <<cache, world, ctx, outer, dialing, attempt, outcome, target>>

(* http.Client.Do returns when the context or its own timeout is over,     *)
(* whatever its dial is doing.                                             *)
Abandon(w) ==
    /\ ~DoT /\ pc[w] \in {"wait", "dial", "io"} /\ (Done(w) \/ outer[w] = 0)
    /\ Go(w, "return")
    /\ UNCHANGED <<cache, world, ctx, outer, deadline, dialing, attempt, outcome, target>>

(* Exchange returns; what it knew is forgotten.                            *)
Return(w) ==
    /\ pc[w] = "return" /\ Go(w, "idle")
    /\ ctx' = [ctx EXCEPT ![w] = 0] /\ outer' = [outer EXCEPT ![w] = 0]
    /\ deadline' = [deadline EXCEPT ![w] = 0] /\ dialing' = [dialing EXCEPT ![w] = 0]
    /\ attempt' = [attempt EXCEPT ![w] = 0]
    /\ outcome' = [outcome EXCEPT ![w] = "none"] /\ target' = [target EXCEPT ![w] = "none"]
    /\ UNCHANGED <<cache, world>>
-------------------------------------------------------------------------------
(* hostnameCache.lookup                                                    *)

LookStale(w) ==
    /\ pc[w] = "look"
    /\ IF entry # NoEntry
         THEN StartDial(w, entry.addr)
         ELSE Go(w, "join") /\ UNCHANGED <<dialing, target>>
    /\ UNCHANGED <<cache, world, ctx, outer, deadline, attempt, outcome>>
(* The entry, under the lock, while it is fresh.                           *)
Look(w) ==
    /\ pc[w] = "look"
    /\ IF entry # NoEntry /\ entry.left > 0
         THEN StartDial(w, entry.addr)
         ELSE Go(w, "join") /\ UNCHANGED <<dialing, target>>
    /\ UNCHANGED <<cache, world, ctx, outer, deadline, attempt, outcome>>

(* sf.Do: the first caller leads a lookup, the others wait for it.         *)
Join(w) ==
    /\ pc[w] = "join" /\ Go(w, "wait")
    /\ flight' = IF flight = NoFlight
                   THEN [leader |-> w, addr |-> upstream, left |-> LookupTime, outcome |-> "pending"]
                   ELSE flight
    /\ UNCHANGED <<entry, world, ctx, outer, deadline, dialing, attempt, outcome, target>>

Pending == flight # NoFlight /\ flight.outcome = "pending"

(* The resolver answers, with the address at the beginning of the lookup   *)
(* or a later one: the entry is stored before the flight ends.             *)
Resolved ==
    /\ Pending /\ (flight.left > 0 \/ resolver = "up")
    /\ \E addr \in {flight.addr, upstream} :
         /\ entry' = [addr |-> addr, left |-> Ttl]
         /\ flight' = [flight EXCEPT !.outcome = addr]
    /\ UNCHANGED <<world, caller>>

ResolveFailsWithLeader ==
    /\ Pending /\ (resolver = "down" \/ Done(flight.leader))
    /\ flight' = [flight EXCEPT !.outcome = "failed"]
    /\ UNCHANGED <<entry, world, caller>>
(* It fails, has no address, or the lookup's own timeout passes; nothing   *)
(* is stored.  The context of the caller that leads it plays no part.      *)
ResolveFails ==
    /\ Pending /\ resolver = "down"
    /\ flight' = [flight EXCEPT !.outcome = "failed"]
    /\ UNCHANGED <<entry, world, caller>>

(* The flight ends for all that wait for it.                               *)
Land ==
    /\ flight # NoFlight /\ flight.outcome # "pending"
    /\ outcome' = [w \in Caller |-> IF pc[w] = "wait" THEN flight.outcome ELSE outcome[w]]
    /\ pc' = [w \in Caller |-> IF pc[w] = "wait" THEN "woken" ELSE pc[w]]
    /\ flight' = NoFlight
    /\ UNCHANGED <<entry, world, ctx, outer, deadline, dialing, attempt, target>>

WokenUnchecked(w) ==
    /\ pc[w] = "woken"
    /\ IF outcome[w] = "failed"
         THEN Fail(w) /\ UNCHANGED <<dialing, target>>
         ELSE StartDial(w, outcome[w])
    /\ outcome' = [outcome EXCEPT ![w] = "none"]
    /\ UNCHANGED <<cache, world, ctx, outer, deadline, attempt>>
(* Each one checks its own context before it uses the result.              *)
Woken(w) ==
    /\ pc[w] = "woken"
    /\ IF outcome[w] = "failed" \/ Done(w)
         THEN Fail(w) /\ UNCHANGED <<dialing, target>>
         ELSE StartDial(w, outcome[w])
    /\ outcome' = [outcome EXCEPT ![w] = "none"]
    /\ UNCHANGED <<cache, world, ctx, outer, deadline, attempt>>
-------------------------------------------------------------------------------
(* Time and the world.                                                     *)

(* The upstream's name gets another address.                               *)
Move ==
    /\ upstream = "old" /\ upstream' = "new" /\ grace' = LookupTime + Ttl
    /\ UNCHANGED <<client, resolver, cache, caller>>

(* What takes no time, or has come to its deadline.                        *)
Due(w) ==
    \/ pc[w] \in {"attempt", "get", "look", "join", "woken", "return"}
    \/ pc[w] = "slot" /\ (Done(w) \/ Cardinality(Holders) < client.slots)
    \/ pc[w] = "dial" /\ dialing[w] = 0
    \/ pc[w] = "io" /\ deadline[w] = 0
    \/ ~DoT /\ pc[w] \in {"wait", "dial", "io"} /\ (Done(w) \/ outer[w] = 0)

Less(t) == IF t > 0 THEN t - 1 ELSE 0

Tick ==
    /\ \A w \in Caller : ~Due(w)
    /\ flight # NoFlight => flight.outcome = "pending" /\ flight.left > 0
    /\ entry' = IF entry = NoEntry THEN entry ELSE [entry EXCEPT !.left = Less(@)]
    /\ flight' = IF flight = NoFlight THEN flight ELSE [flight EXCEPT !.left = @ - 1]
    /\ ctx' = [w \in Caller |-> IF pc[w] = "idle" THEN 0 ELSE ctx[w] - 1]
    /\ outer' = [w \in Caller |-> Less(outer[w])]
    /\ deadline' = [w \in Caller |-> Less(deadline[w])]
    /\ dialing' = [w \in Caller |-> Less(dialing[w])]
    /\ grace' = Less(grace)
    /\ UNCHANGED <<client, resolver, upstream, pc, attempt, outcome, target>>

Step(w) ==
    \/ Slot(w) \/ Attempt(w) \/ Get(w) \/ Dialed(w) \/ Answered(w) \/ Abandon(w) \/ Return(w)
    \/ Look(w) \/ Join(w) \/ Woken(w)

Next ==
    \/ \E w \in Caller : \/ \E t \in CtxTimes : Call(w, t)
                         \/ Cancel(w) \/ Step(w)
    \/ Resolved \/ ResolveFails \/ Land
    \/ Move \/ Tick

Spec == Init /\ [][Next]_vars
-------------------------------------------------------------------------------
(* Properties                                                              *)

(* Type invariant. *)
TypeOK ==
    /\ client \in [proto : {"DoT", "DoH"}, literal : BOOLEAN, slots : 1..Slots]
    /\ entry \in Entry \cup {NoEntry} /\ flight \in Flight \cup {NoFlight}
    /\ pc \in [Caller -> Steps] /\ ctx \in [Caller -> Int]
    /\ outer \in [Caller -> Nat] /\ deadline \in [Caller -> Nat]
    /\ dialing \in [Caller -> 0..DialTime] /\ attempt \in [Caller -> 0..2]
    /\ outcome \in [Caller -> {"none", "failed"} \cup Address]
    /\ target \in [Caller -> {"none"} \cup Address]
    /\ resolver \in {"up", "down"} /\ upstream \in Address /\ grace \in Nat

(* A lookup that fails for a caller whose context lives failed at the      *)
(* resolver: the caller that leads the lookup may be cancelled or run out  *)
(* of time without harm to those that wait for it.                         *)
NotPoisoned ==
    \A w \in Caller :
        pc[w] = "woken" /\ outcome[w] = "failed" /\ ~Done(w) => resolver = "down"

(* A new address of the upstream is picked up: no dial that begins more    *)
(* than a lookup and the TTL after the change goes to the old one, however *)
(* lookups and callers follow one another.                                 *)
PicksUpMove ==
    \A w \in Caller :
        pc[w] = "dial" /\ dialing[w] = DialTime /\ target[w] = "old" =>
            upstream = "old" \/ grace > 0

Longest == IF LookupTime > DialTime THEN LookupTime ELSE DialTime

(* An Exchange ends: over DoT at most one lookup or one dial after its     *)
(* context was cancelled or ran out, also with lookups that are shared,    *)
(* slots that are taken and a second attempt; over DoH with its context.   *)
ExchangeBounded == \A w \in Caller : ctx[w] >= IF DoT THEN -Longest ELSE 0

===============================================================================
