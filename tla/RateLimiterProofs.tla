--------------------------- MODULE RateLimiterProofs ---------------------------
(***************************************************************************)
(* Proofs about RateLimiter, for any addresses, any limit and window, any  *)
(* threshold and interval of the collection, and bounds as high as one     *)
(* likes.                                                                  *)
(***************************************************************************)
EXTENDS RateLimiter, TLAPS

Gone(i) == ips[i] = NoCounter /\ Expired(plain[i])

(* What the collection has done to the counter of i: nothing, or it is gone*)
(* and the limiter that collects nothing finds its own expired.            *)
Shadow(i) == ips[i] = plain[i] \/ Gone(i)

(* How many requests of the window that counter c counts were let through. *)
Share(c) == IF c.n < Limit THEN c.n ELSE Limit

(* Where the requests let through lie at time t, at the times P, for a     *)
(* counter c: the last of them in its window, up to Limit before these in  *)
(* the one before, and any that is older more than a window before the     *)
(* start of this one.                                                      *)
Layout(P, c, t) ==
    /\ c.seen <= t
    /\ c.n = 0 => P = <<>>
    /\ \A j \in 1..Len(P) : P[j] <= t
    /\ \A j \in 1..(Len(P) - Share(c)) : P[j] <= c.seen
    /\ \A j \in 1..(Len(P) - Share(c) - Limit) : c.seen - P[j] > Window

(* TwiceTheLimit, of one address.                                          *)
Spaced(P) == \A j \in 1..(Len(P) - 2 * Limit) : P[j + 2 * Limit] - P[j] > Window

(* The inductive invariant.                                                *)
IInv ==
    /\ TypeOK
    /\ \A i \in Ip : Shadow(i) /\ Layout(passed[i], plain[i], now) /\ Spaced(passed[i])

-------------------------------------------------------------------------------
(* What a request finds is what the limiter that collects nothing finds,   *)
(* also when its own counter is collected by this very request.            *)
LEMMA SameCount ==
    ASSUME TypeOK, NEW i \in Ip, Shadow(i)
    PROVE  /\ Counted(Collected[i]) = Counted(plain[i])
           /\ Counted(ips[i]) = Counted(plain[i])
           /\ Collected[i] = plain[i] \/ (Collected[i] = NoCounter /\ Expired(plain[i]))
<1>1. /\ NoCounter.n = 0
      /\ Counted(NoCounter) = [n |-> 1, seen |-> now]
  BY DEF NoCounter, Counted
<1>2. Collected[i] = ips[i] \/ (Collected[i] = NoCounter /\ Expired(ips[i]))
  BY DEF Collected, Idle, Expired
<1>3. Expired(plain[i]) => Counted(plain[i]) = [n |-> 1, seen |-> now]
  BY DEF Counted
<1>4. CASE ips[i] = plain[i]
  BY <1>1, <1>2, <1>3, <1>4
<1>5. CASE Gone(i)
  BY <1>1, <1>2, <1>3, <1>5 DEF Gone
<1> QED BY <1>4, <1>5 DEF Shadow

(* A counter stays a counter.                                              *)
LEMMA CountedType ==
    ASSUME TypeOK, NEW c \in Counter, Counted(c).n <= MaxCount
    PROVE  /\ Counted(c) \in Counter /\ Counted(c).n \in Nat \ {0}
           /\ \/ (c.n = 0 \/ Expired(c)) /\ Counted(c) = [n |-> 1, seen |-> now]
              \/ ~Expired(c) /\ c.n # 0 /\ Counted(c).n = c.n + 1 /\ Counted(c).seen = c.seen
<1>1. CASE c.n = 0 \/ Expired(c)
  <2>1. Counted(c) = [n |-> 1, seen |-> now]
    BY <1>1 DEF Counted
  <2> QED BY <1>1, <2>1, RateLimiterAssumption DEF TypeOK, Counter
<1>2. CASE ~(c.n = 0 \/ Expired(c))
  <2>1. Counted(c) = [c EXCEPT !.n = @ + 1]
    BY <1>2 DEF Counted
  <2>2. c.n + 1 \in 0..MaxCount
    BY <2>1, RateLimiterAssumption DEF Counter
  <2> QED BY <1>2, <2>1, <2>2 DEF Counter
<1> QED BY <1>1, <1>2

(* Q is P with one more time.                                              *)
Longer(Q, P, t) ==
    /\ Len(P) \in Nat /\ Len(Q) = Len(P) + 1
    /\ \A j \in 1..(Len(P) + 1) : Q[j] = IF j = Len(P) + 1 THEN t ELSE P[j]
    /\ \A j \in 1..Len(P) : P[j] \in Nat

(* A request let through adds its time at the end.                         *)
LEMMA Appended ==
    ASSUME NEW P \in Seq(0..MaxTime), NEW t \in 0..MaxTime
    PROVE  Append(P, t) \in Seq(0..MaxTime) /\ Longer(Append(P, t), P, t)
BY RateLimiterAssumption DEF Longer

(* Only the last of the times needs to be far from those before it.        *)
LEMMA SpacedMore ==
    ASSUME NEW P \in Seq(0..MaxTime), NEW t \in 0..MaxTime, Spaced(P),
           NEW Q, Longer(Q, P, t),
           \A j \in 1..Len(P) : j + 2 * Limit = Len(P) + 1 => t - P[j] > Window
    PROVE  Spaced(Q)
<1>1. Limit \in Nat \ {0} /\ Len(P) \in Nat /\ Len(Q) = Len(P) + 1
  BY RateLimiterAssumption DEF Longer
<1>l. \A j \in 1..(Len(P) + 1) : Q[j] = IF j = Len(P) + 1 THEN t ELSE P[j]
  BY DEF Longer
<1>2. ASSUME NEW j \in 1..(Len(P) + 1 - 2 * Limit)
      PROVE  Q[j + 2 * Limit] - Q[j] > Window
  <2>1. /\ j \in 1..Len(P) /\ j \in 1..(Len(P) + 1) /\ j # Len(P) + 1
        /\ j + 2 * Limit \in 1..(Len(P) + 1)
        /\ j + 2 * Limit = Len(P) + 1 \/ j \in 1..(Len(P) - 2 * Limit)
    BY <1>1
  <2>2. CASE j + 2 * Limit = Len(P) + 1
    BY <1>1, <1>l, <2>1, <2>2
  <2>3. CASE j + 2 * Limit # Len(P) + 1
    BY <1>1, <1>l, <2>1, <2>3 DEF Spaced
  <2> QED BY <2>2, <2>3
<1> QED BY <1>1, <1>2 DEF Spaced

(* A request that starts a window: the one before it had up to Limit.      *)
LEMMA NewWindow ==
    ASSUME NEW P \in Seq(0..MaxTime), NEW t \in 0..MaxTime, NEW c \in Counter,
           Layout(P, c, t), Spaced(P), c.n = 0 \/ t - c.seen > Window,
           NEW Q, Longer(Q, P, t)
    PROVE  Layout(Q, [n |-> 1, seen |-> t], t) /\ Spaced(Q)
<1>1. /\ Limit \in Nat \ {0} /\ Window \in Nat /\ t \in Nat /\ c.n \in Nat /\ c.seen \in Nat
      /\ Len(P) \in Nat /\ \A j \in 1..Len(P) : P[j] \in Nat
  BY RateLimiterAssumption DEF Counter, Longer
<1>2. ASSUME NEW j \in 1..(Len(P) - Limit) PROVE t - P[j] > Window
  <2>1. P # <<>>
    BY <1>1
  <2>2. j \in 1..(Len(P) - Share(c)) /\ j \in 1..Len(P)
    BY <1>1 DEF Share
  <2> QED BY <1>1, <2>1, <2>2 DEF Layout
<1>3. Spaced(Q)
  BY <1>1, <1>2, SpacedMore
<1>4. Share([n |-> 1, seen |-> t]) = 1
  BY <1>1 DEF Share
<1>5. \A j \in 1..(Len(P) + 1) : Q[j] <= t
  BY <1>1 DEF Layout, Longer
<1>6. \A j \in 1..(Len(P) - Limit) : t - Q[j] > Window
  BY <1>1, <1>2 DEF Longer
<1> QED BY <1>1, <1>3, <1>4, <1>5, <1>6 DEF Layout, Longer

(* A request that is let through in a window that has begun.               *)
LEMMA SameWindow ==
    ASSUME NEW P \in Seq(0..MaxTime), NEW t \in 0..MaxTime, NEW c \in Counter, NEW d \in Counter,
           Layout(P, c, t), Spaced(P), d.n = c.n + 1, d.seen = c.seen, d.n <= Limit,
           NEW Q, Longer(Q, P, t)
    PROVE  Layout(Q, d, t) /\ Spaced(Q)
<1>1. /\ Limit \in Nat \ {0} /\ t \in Nat /\ c.n \in Nat /\ c.seen \in Nat
      /\ Len(P) \in Nat /\ \A j \in 1..Len(P) : P[j] \in Nat
  BY RateLimiterAssumption DEF Counter, Longer
<1>2. Share(c) = c.n /\ Share(d) = c.n + 1
  BY <1>1 DEF Share
<1>3. Spaced(Q)
  <2>1. ASSUME NEW j \in 1..Len(P), j + 2 * Limit = Len(P) + 1 PROVE t - P[j] > Window
    <3>1. j \in 1..(Len(P) - c.n - Limit) /\ P[j] \in Nat
      BY <1>1, <2>1
    <3>2. c.seen - P[j] > Window /\ c.seen <= t /\ Window \in Nat
      BY <1>2, <3>1, RateLimiterAssumption DEF Layout
    <3> QED BY <1>1, <3>1, <3>2
  <2> QED BY <2>1, SpacedMore
<1>4. Len(Q) = Len(P) + 1 /\ d.n # 0 /\ c.seen <= t
  BY <1>1 DEF Layout, Longer
<1>5. \A j \in 1..Len(Q) : Q[j] <= t
  BY <1>1 DEF Layout, Longer
<1>6. ASSUME NEW j \in 1..(Len(Q) - Share(d)) PROVE Q[j] <= d.seen
  <2>1. j \in 1..(Len(P) - Share(c)) /\ j \in 1..(Len(P) + 1) /\ j # Len(P) + 1
    BY <1>1, <1>2, <1>4
  <2> QED BY <2>1 DEF Layout, Longer
<1>7. ASSUME NEW j \in 1..(Len(Q) - Share(d) - Limit) PROVE d.seen - Q[j] > Window
  <2>1. /\ j \in 1..(Len(P) - Share(c) - Limit)
        /\ j \in 1..(Len(P) + 1) /\ j # Len(P) + 1
    BY <1>1, <1>2, <1>4
  <2> QED BY <2>1 DEF Layout, Longer
<1> QED BY <1>3, <1>4, <1>5, <1>6, <1>7 DEF Layout

(* A request that is refused.                                              *)
LEMMA Refused ==
    ASSUME NEW P, NEW t, NEW c \in Counter, NEW d \in Counter,
           Layout(P, c, t), d.n = c.n + 1, d.seen = c.seen, d.n > Limit
    PROVE  Layout(P, d, t)
<1>1. Share(c) = Share(d) /\ d.n # 0
  BY RateLimiterAssumption DEF Share, Counter
<1> QED BY <1>1 DEF Layout

-------------------------------------------------------------------------------
(* A limiter starts with no counters and nothing let through.              *)
LEMMA Initially == Init => IInv
<1> SUFFICES ASSUME Init PROVE IInv
  OBVIOUS
<1>1. NoCounter \in Counter /\ NoCounter.n = 0 /\ NoCounter.seen = 0
  BY RateLimiterAssumption DEF NoCounter, Counter
<1>2. TypeOK
  BY <1>1, RateLimiterAssumption DEF Init, TypeOK
<1>3. ASSUME NEW i \in Ip
      PROVE  Shadow(i) /\ Layout(passed[i], plain[i], now) /\ Spaced(passed[i])
  <2>1. passed[i] = <<>> /\ plain[i] = NoCounter /\ ips[i] = NoCounter /\ now = 0
    BY DEF Init
  <2>2. Share(NoCounter) = 0
    BY <1>1, RateLimiterAssumption DEF Share
  <2> QED BY <1>1, <2>1, <2>2, RateLimiterAssumption DEF Shadow, Layout, Spaced
<1> QED BY <1>2, <1>3 DEF IInv

(* Time passes.                                                            *)
LEMMA TickStep ==
    ASSUME IInv, Tick
    PROVE  IInv'
<1>t. TypeOK
  BY DEF IInv
<1>1. now' = now + 1 /\ now' \in 0..MaxTime /\ UNCHANGED <<ips, lastGC, passed, plain>>
  BY <1>t, RateLimiterAssumption DEF Tick, TypeOK
<1>2. TypeOK'
  BY <1>t, <1>1 DEF TypeOK
<1>3. ASSUME NEW i \in Ip
      PROVE  (Shadow(i) /\ Layout(passed[i], plain[i], now) /\ Spaced(passed[i]))'
  <2>1. /\ Shadow(i) /\ Layout(passed[i], plain[i], now) /\ Spaced(passed[i])
        /\ plain[i] \in Counter /\ passed[i] \in Seq(0..MaxTime) /\ now \in Nat
    BY <1>t DEF IInv, TypeOK
  <2>2. plain[i].seen \in Nat /\ \A j \in 1..Len(passed[i]) : passed[i][j] \in Nat
    BY <2>1, RateLimiterAssumption DEF Counter
  <2>3. Shadow(i)'
    BY <1>1, <2>1, <2>2, RateLimiterAssumption DEF Shadow, Gone, Expired
  <2>4. Layout(passed[i], plain[i], now + 1)
    <3>1. plain[i].seen <= now + 1 /\ \A j \in 1..Len(passed[i]) : passed[i][j] <= now + 1
      BY <2>1, <2>2 DEF Layout
    <3> QED BY <2>1, <3>1 DEF Layout
  <2> QED BY <1>1, <2>1, <2>3, <2>4
<1> QED BY <1>2, <1>3 DEF IInv

(* A request is counted.                                                   *)
LEMMA AllowStep ==
    ASSUME IInv, NEW i \in Ip, Allow(i)
    PROVE  IInv'
<1>t. TypeOK /\ \A h \in Ip : Shadow(h) /\ Layout(passed[h], plain[h], now) /\ Spaced(passed[h])
  BY DEF IInv
<1>1. PICK d : d = Counted(plain[i])
  OBVIOUS
<1>2. plain[i] \in Counter /\ passed[i] \in Seq(0..MaxTime) /\ now \in 0..MaxTime
  BY <1>t DEF TypeOK
<1>3. /\ d \in Counter
      /\ \/ (plain[i].n = 0 \/ Expired(plain[i])) /\ d = [n |-> 1, seen |-> now]
         \/ d.n = plain[i].n + 1 /\ d.seen = plain[i].seen
  BY <1>t, <1>1, <1>2, CountedType DEF Allow
<1>4. /\ ips' = [Collected EXCEPT ![i] = d] /\ plain' = [plain EXCEPT ![i] = d] /\ now' = now
      /\ passed' = IF d.n <= Limit THEN [passed EXCEPT ![i] = Append(@, now)] ELSE passed
      /\ lastGC' \in {lastGC, now}
  BY <1>t, <1>1, SameCount DEF Allow
<1>5. TypeOK'
  <2>1. Collected \in [Ip -> Counter]
    BY <1>t, RateLimiterAssumption DEF TypeOK, Collected, NoCounter, Counter
  <2>2. passed' \in [Ip -> Seq(0..MaxTime)]
    BY <1>t, <1>2, <1>4, Appended DEF TypeOK
  <2> QED BY <1>t, <1>3, <1>4, <2>1, <2>2 DEF TypeOK
<1>6. ASSUME NEW h \in Ip \ {i}
      PROVE  (Shadow(h) /\ Layout(passed[h], plain[h], now) /\ Spaced(passed[h]))'
  <2>1. Collected[h] = plain[h] \/ (Collected[h] = NoCounter /\ Expired(plain[h]))
    BY <1>t, SameCount
  <2>2. plain'[h] = plain[h] /\ ips'[h] = Collected[h] /\ passed'[h] = passed[h]
    BY <1>t, <1>4, <1>5 DEF TypeOK
  <2>3. Shadow(h)'
    BY <1>4, <2>1, <2>2 DEF Shadow, Gone, Expired
  <2> QED BY <1>t, <1>4, <2>2, <2>3
<1>7. plain'[i] = d /\ Shadow(i)'
  BY <1>t, <1>4, <1>5 DEF Shadow, TypeOK
<1>8. Layout(passed'[i], d, now) /\ Spaced(passed'[i])
  <2>1. CASE (plain[i].n = 0 \/ Expired(plain[i])) /\ d = [n |-> 1, seen |-> now]
    <3>1. d.n <= Limit
      BY <2>1, RateLimiterAssumption
    <3>2. passed'[i] = Append(passed[i], now)
      BY <1>t, <1>4, <3>1 DEF TypeOK
    <3>3. plain[i].n = 0 \/ now - plain[i].seen > Window
      BY <2>1 DEF Expired
    <3>4. Longer(passed'[i], passed[i], now)
      BY <1>2, <3>2, Appended
    <3>5. Layout(passed[i], plain[i], now) /\ Spaced(passed[i])
      BY <1>t
    <3> QED BY <1>2, <2>1, <3>3, <3>4, <3>5, NewWindow
  <2>2. CASE d.n = plain[i].n + 1 /\ d.seen = plain[i].seen /\ d.n <= Limit
    <3>1. passed'[i] = Append(passed[i], now)
      BY <1>t, <1>4, <2>2 DEF TypeOK
    <3>2. Longer(passed'[i], passed[i], now)
      BY <1>2, <3>1, Appended
    <3>3. Layout(passed[i], plain[i], now) /\ Spaced(passed[i])
      BY <1>t
    <3> QED BY <1>2, <1>3, <2>2, <3>2, <3>3, SameWindow
  <2>3. CASE d.n = plain[i].n + 1 /\ d.seen = plain[i].seen /\ ~(d.n <= Limit)
    <3>1. d.n > Limit
      BY <1>3, <2>3, RateLimiterAssumption DEF Counter
    <3> QED BY <1>t, <1>2, <1>3, <1>4, <2>3, <3>1, Refused
  <2> QED BY <1>3, <2>1, <2>2, <2>3
<1> QED BY <1>4, <1>5, <1>6, <1>7, <1>8 DEF IInv

-------------------------------------------------------------------------------
(* The inductive invariant holds.                                          *)
THEOREM Invariance == Spec => []IInv
<1>1. IInv /\ [Next]_vars => IInv'
  <2>1. ASSUME IInv, UNCHANGED vars PROVE IInv'
    BY <2>1 DEF IInv, TypeOK, Shadow, Gone, Expired, vars
  <2> QED BY <2>1, TickStep, AllowStep DEF Next
<1> QED BY <1>1, Initially, PTL DEF Spec

(* Every counter and every time stays in its range.                        *)
THEOREM Typing == Spec => []TypeOK
<1>1. IInv => TypeOK
  BY DEF IInv
<1> QED BY <1>1, Invariance, PTL

(* A request gets the verdict of a limiter that never forgets an address,  *)
(* whenever idle counters are collected.                                   *)
THEOREM CollectionIsInvisible == Spec => []GcTransparent
<1>1. IInv => GcTransparent
  BY SameCount DEF IInv, GcTransparent
<1> QED BY <1>1, Invariance, PTL

(* Of any 2 * Limit + 1 requests of an address let through in a row, the   *)
(* last comes more than a window after the first.                          *)
THEOREM LimitHolds == Spec => []TwiceTheLimit
<1>1. IInv => TwiceTheLimit
  BY DEF IInv, Spaced, TwiceTheLimit
<1> QED BY <1>1, Invariance, PTL

===============================================================================
