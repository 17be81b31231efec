------------------------------ MODULE RateLimiter ------------------------------
(***************************************************************************)
(* ipRateLimiter of dns/server.go: one counter per source address, a       *)
(* window that starts with the first request it counts, and a collection   *)
(* of idle counters.  Allow runs under the limiter's mutex: one step.      *)
(***************************************************************************)
EXTENDS Integers, Sequences, FiniteSets

CONSTANTS
    Ip,         \* source addresses
    Limit,      \* requests allowed per window (100)
    Window,     \* the window (one second), in ticks
    GcSize,     \* number of counters above which idle ones are collected (10000)
    GcEvery,    \* least time between two collections (30 s), in ticks
    MaxTime,    \* bound on the clock
    MaxCount    \* bound on a counter, reached only above Limit

ASSUME RateLimiterAssumption ==
    /\ Limit \in Nat \ {0} /\ Window \in Nat \ {0}
    /\ GcSize \in Nat /\ GcEvery \in Nat
    /\ MaxTime \in Nat /\ MaxCount \in Nat /\ MaxCount > Limit

VARIABLES
    now,        \* the clock
    ips,        \* counters: ips[i] is [n, seen], n = 0 when i has none
    lastGC,     \* when idle counters were last collected
    passed,     \* ghost: passed[i], the times at which requests of i were let through
    plain       \* ghost: the counters of a limiter that collects nothing

vars == <<now, ips, lastGC, passed, plain>>

Counter == [n : 0..MaxCount, seen : 0..MaxTime]
NoCounter == [n |-> 0, seen |-> 0]
Known == {i \in Ip : ips[i].n # 0}

ExpiredEachTick(c) == now - c.seen > 0
(* The window of counter c is over.                                        *)
Expired(c) == now - c.seen > Window

IdleTooSoon(c) == now - c.seen > 0
(* Counter c may be collected.                                             *)
Idle(c) == now - c.seen > Window

Init ==
    /\ now = 0 /\ lastGC = 0
    /\ ips = [i \in Ip |-> NoCounter]
    /\ plain = ips
    /\ passed = [i \in Ip |-> <<>>]

(* Counter c after one more request.                                       *)
Counted(c) ==
    IF c.n = 0 \/ Expired(c) THEN [n |-> 1, seen |-> now] ELSE [c EXCEPT !.n = @ + 1]

(* The counters that are left after the collection, when it is due.        *)
Collected ==
    IF Cardinality(Known) > GcSize /\ now - lastGC > GcEvery
      THEN [i \in Ip |-> IF Idle(ips[i]) THEN NoCounter ELSE ips[i]]
      ELSE ips

(* Allow(i) *)
Allow(i) ==
    LET c == Counted(Collected[i]) IN
    /\ c.n <= MaxCount /\ Counted(plain[i]).n <= MaxCount
    /\ ips' = [Collected EXCEPT ![i] = c]
    /\ lastGC' = IF Cardinality(Known) > GcSize /\ now - lastGC > GcEvery THEN now ELSE lastGC
    /\ passed' = IF c.n <= Limit THEN [passed EXCEPT ![i] = Append(@, now)] ELSE passed
    /\ plain' = [plain EXCEPT ![i] = Counted(plain[i])]
    /\ UNCHANGED now

Tick ==
    /\ now < MaxTime /\ now' = now + 1
    /\ UNCHANGED <<ips, lastGC, passed, plain>>

Next == Tick \/ \E i \in Ip : Allow(i)

Spec == Init /\ [][Next]_vars
-------------------------------------------------------------------------------
(* Properties                                                              *)

(* Type invariant. *)
TypeOK ==
    /\ now \in 0..MaxTime /\ lastGC \in 0..MaxTime
    /\ ips \in [Ip -> Counter] /\ plain \in [Ip -> Counter]
    /\ passed \in [Ip -> Seq(0..MaxTime)]

(* Collecting idle counters changes no verdict: every address is treated   *)
(* as by a limiter that keeps all its counters.                            *)
GcTransparent ==
    \A i \in Ip : LET verdict(c) == Counted(c).n <= Limit
                  IN  verdict(ips[i]) = verdict(plain[i])

(* An address gets at most twice the limit in any span as long as the      *)
(* window, the end of one window and the start of the next: of any         *)
(* 2 * Limit + 1 requests let through in a row, the last comes more than a *)
(* window after the first.                                                 *)
TwiceTheLimit ==
    \A i \in Ip : \A j \in 1..(Len(passed[i]) - 2 * Limit) :
        passed[i][j + 2 * Limit] - passed[i][j] > Window

===============================================================================
