---------------------------- MODULE QueryPathProofs ----------------------------
(***************************************************************************)
(* Proofs about QueryPath, for any queries, names and upstreams, whatever  *)
(* these answer.                                                           *)
(***************************************************************************)
EXTENDS QueryPath, TLAPS

(* r answers the question of q, whatever the case of its letters...        *)
For(q, r) == <<Canonical[r.name], r.do>> = KeyOf(q)

(* ... or to the letter.                                                   *)
ToTheLetter(q, r) == r.name = Ask[q].name /\ r.do = Ask[q].do

(* What is stored under a key answers the questions of that key.           *)
Stored == \A k \in Key : cache[k] # None => <<Canonical[cache[k].name], cache[k].do>> = k

(* Nothing is written to a client before its handler is done.              *)
Pending == \A q \in Query : pc[q] # "done" => reply[q] = None

(* A flight is kept under the key of the query that leads it.              *)
FlightKeys == \A k \in Key : flight[k] # None => KeyOf(flight[k]) = k

(* Whoever leads a race or waits for one has a leader, which asks the same *)
(* question, leads itself, and has a result once it has left its race.     *)
Leaders ==
    \A q \in Query :
        /\ pc[q] \in {"race", "leave"} => leader[q] = q
        /\ pc[q] \in {"wait", "reply"} => leader[q] # None
        /\ leader[q] # None =>
             /\ KeyOf(leader[q]) = KeyOf(q)
             /\ leader[leader[q]] = leader[q]
             /\ pc[leader[q]] \in {"race", "leave", "reply", "done"}
             /\ pc[q] = "reply" => pc[leader[q]] \in {"reply", "done"}
        /\ leader[q] = q /\ pc[q] \in {"leave", "reply", "done"} => result[q] # None

(* Only answers to the question that is raced come over the channel.       *)
Results ==
    /\ \A q \in Query : \A i \in DOMAIN ch[q] :
         ch[q][i].resp # Failure => ToTheLetter(q, ch[q][i].resp)
    /\ \A q \in Query : result[q] \notin {None, Failure} => ToTheLetter(q, result[q])

(* Until Stop, no healthy upstream fails in a race that goes on.           *)
Losses ==
    /\ \A q \in Query : cancelled[q] => pc[q] \in {"leave", "reply", "done"}
    /\ \A q \in Query : stop = "no" /\ ~cancelled[q] =>
         /\ failed[q] \cap Healthy = {}
         /\ \A i \in DOMAIN ch[q] :
              ch[q][i].resp = Failure => ch[q][i].from \notin Healthy

(* The inductive invariant behind the safety properties of QueryPath.      *)
IInv ==
    /\ TypeOK /\ RacesAreFlights /\ OwnReply /\ NoFalseServfail
    /\ FlightKeys /\ Leaders /\ Results /\ Losses /\ Stored /\ Pending
-------------------------------------------------------------------------------
(* Every query has a cache key.                                            *)
LEMMA KeyType == ASSUME NEW q \in Query PROVE KeyOf(q) \in Key
BY QueryPathAssumption DEF KeyOf, Key, Question

(* A handler goes to one of its steps.                                     *)
LEMMA GoType ==
    ASSUME TypeOK, NEW q \in Query, NEW s \in Steps, Go(q, s)
    PROVE  pc' \in [Query -> Steps]
BY DEF TypeOK, Go

(* A copy of a response is a reply.                                        *)
LEMMA ReplyType ==
    ASSUME NEW q \in Query, NEW r \in Responses
    PROVE  CopyFor(q, r) \in Replies
BY QueryPathAssumption DEF CopyFor, Responses, Question, Replies

(* A server starts with no query, an empty cache and no flight.            *)
LEMMA Initially == Init => IInv
<1> SUFFICES ASSUME Init PROVE IInv
  OBVIOUS
<1>1. TypeOK
  <2>1. <<>> \in Seq(RaceResult)
    OBVIOUS
  <2>2. ch \in [Query -> Seq(RaceResult)]
    BY <2>1 DEF Init
  <2> QED BY <2>2 DEF Init, TypeOK, Steps
<1>2. RacesAreFlights
  BY KeyType, QueryPathAssumption DEF Init, RacesAreFlights
<1>3. Stored /\ Pending /\ OwnReply /\ NoFalseServfail
  BY QueryPathAssumption DEF Init, Stored, Pending, OwnReply, Answered, NoFalseServfail
<1>4. FlightKeys /\ Leaders /\ Results /\ Losses
  BY DEF Init, FlightKeys, Leaders, Results, Losses
<1> QED BY <1>1, <1>2, <1>3, <1>4 DEF IInv

(* What the first result in a channel is, and what it leaves there.        *)
LEMMA FirstResult ==
    ASSUME TypeOK, NEW q \in Query, ch[q] # <<>>
    PROVE  /\ Head(ch[q]) \in RaceResult /\ Tail(ch[q]) \in Seq(RaceResult)
           /\ Head(ch[q]) = ch[q][1] /\ 1 \in DOMAIN ch[q]
           /\ \A i \in DOMAIN Tail(ch[q]) :
                i + 1 \in DOMAIN ch[q] /\ Tail(ch[q])[i] = ch[q][i + 1]
<1> DEFINE s == ch[q]
<1>1. s \in Seq(RaceResult) /\ s # <<>>
  BY DEF TypeOK
<1> HIDE DEF s
<1>2. /\ Head(s) \in RaceResult /\ Tail(s) \in Seq(RaceResult)
      /\ Head(s) = s[1] /\ 1 \in DOMAIN s
      /\ \A i \in DOMAIN Tail(s) : i + 1 \in DOMAIN s /\ Tail(s)[i] = s[i + 1]
  BY <1>1
<1> QED BY <1>2 DEF s

(* What an exchange puts into the channel, when it puts something.         *)
LEMMA Sent ==
    ASSUME TypeOK, NEW q \in Query, NEW u \in Upstream, NEW r \in Responses \cup {Failure},
           Send(q, u, r)
    PROVE  /\ ch' \in [Query -> Seq(RaceResult)]
           /\ \A v \in Query \ {q} : ch'[v] = ch[v]
           /\ \A i \in DOMAIN ch'[q] :
                \/ i \in DOMAIN ch[q] /\ ch'[q][i] = ch[q][i]
                \/ ch'[q][i].from = u /\ ch'[q][i].resp = r
<1>1. CASE cancelled[q]
  BY <1>1 DEF Send, TypeOK
<1>2. CASE ~cancelled[q]
  <2> DEFINE x == [from |-> u, resp |-> r]
             s == ch[q]
  <2>1. x \in RaceResult /\ s \in Seq(RaceResult)
    BY DEF TypeOK, RaceResult
  <2>2. ch' = [ch EXCEPT ![q] = Append(s, x)]
    BY <1>2 DEF Send
  <2> HIDE DEF x, s
  <2>3. /\ Append(s, x) \in Seq(RaceResult)
        /\ \A i \in DOMAIN Append(s, x) :
             (i \in DOMAIN s /\ Append(s, x)[i] = s[i]) \/ Append(s, x)[i] = x
    BY <2>1
  <2>4. ch'[q] = Append(s, x)
    BY <2>2 DEF TypeOK
  <2>5. x.from = u /\ x.resp = r
    BY DEF x
  <2>6. ch' \in [Query -> Seq(RaceResult)] /\ \A v \in Query \ {q} : ch'[v] = ch[v]
    BY <2>2, <2>3 DEF TypeOK
  <2> QED BY <2>3, <2>4, <2>5, <2>6 DEF s
<1> QED BY <1>1, <1>2

(* An exchange sends an answer to q's question, or a failure.              *)
LEMMA Exchanged ==
    ASSUME TypeOK, NEW q \in Query, NEW u \in Upstream, Exchange(q, u)
    PROVE  \E r \in Responses \cup {Failure} :
             /\ Send(q, u, r)
             /\ r # Failure => ToTheLetter(q, r)
             /\ r = Failure => u \notin Healthy \/ Interrupted(q)
<1>1. ASSUME NEW a \in Answer[u]
      PROVE  ResponseTo(q, a) \in Responses /\ ToTheLetter(q, ResponseTo(q, a))
  BY <1>1, QueryPathAssumption DEF ResponseTo, Responses, Question, AnswerKind, ToTheLetter
<1> QED BY <1>1, NotResponses DEF Exchange

-------------------------------------------------------------------------------
(* Every step keeps the types.                                             *)
LEMMA TypeStep ==
    ASSUME IInv, [Next]_vars
    PROVE  TypeOK'
<1> USE DEF race
<1>t. TypeOK
  BY DEF IInv
<1>1. ASSUME NEW q \in Query, Receive(q) \/ Reject(q) \/ Wake(q) PROVE TypeOK'
  <2>1. pc' \in [Query -> Steps]
    BY <1>t, <1>1, GoType DEF Receive, Reject, Wake, Steps, Busy
  <2> QED BY <1>t, <1>1, <2>1 DEF TypeOK, Receive, Reject, Wake
<1>2. ASSUME NEW q \in Query, Lookup(q) PROVE TypeOK'
  <2>1. cache[KeyOf(q)] # None => cache[KeyOf(q)] \in Responses
    BY <1>t, KeyType DEF TypeOK
  <2>2. reply' \in [Query -> Replies \cup {None, Servfail, Rejected}]
    <3>1. \/ UNCHANGED reply
          \/ \E x \in Replies : reply' = [reply EXCEPT ![q] = x]
      BY <1>2, <2>1, ReplyType DEF Lookup
    <3> QED BY <1>t, <3>1 DEF TypeOK
  <2>3. pc' \in [Query -> Steps]
    BY <1>t, <1>2, GoType DEF Lookup, Steps, Busy
  <2> QED BY <1>t, <1>2, <2>2, <2>3 DEF TypeOK, Lookup
<1>3. ASSUME NEW q \in Query, Join(q) PROVE TypeOK'
  <2>1. pc' \in [Query -> Steps]
    BY <1>t, <1>3, GoType DEF Join, Steps, Busy
  <2>2. flight' \in [Key -> Query \cup {None}] /\ leader' \in [Query -> Query \cup {None}]
    BY <1>t, <1>3, KeyType DEF TypeOK, Join
  <2>3. racing' \in [Query -> SUBSET Upstream]
    BY <1>t, <1>3 DEF TypeOK, Join
  <2> QED BY <1>t, <1>3, <2>1, <2>2, <2>3 DEF TypeOK, Join
<1>4. ASSUME NEW q \in Query, NEW u \in Upstream, Exchange(q, u) PROVE TypeOK'
  <2>1. ch' \in [Query -> Seq(RaceResult)]
    BY <1>t, <1>4, Exchanged, Sent
  <2>2. racing' \in [Query -> SUBSET Upstream]
    BY <1>t, <1>4 DEF Exchange, TypeOK
  <2> QED BY <1>t, <1>4, <2>1, <2>2 DEF TypeOK, Exchange
<1>5. ASSUME NEW q \in Query, Win(q) PROVE TypeOK'
  <2>1. Head(ch[q]).resp \in Responses
    BY <1>t, <1>5, FirstResult DEF Win, Won, RaceResult
  <2>2. <<>> \in Seq(RaceResult)
    OBVIOUS
  <2>3. cache' \in [Key -> Responses \cup {None}] /\ ch' \in [Query -> Seq(RaceResult)]
    BY <1>t, <1>5, <2>1, <2>2, KeyType DEF TypeOK, Win, Put
  <2>4. pc' \in [Query -> Steps]
    BY <1>t, <1>5, GoType DEF Win, Steps, Busy
  <2> QED BY <1>t, <1>5, <2>1, <2>3, <2>4 DEF TypeOK, Win
<1>6. ASSUME NEW q \in Query, Lose(q) PROVE TypeOK'
  <2>1. Head(ch[q]) \in RaceResult /\ Tail(ch[q]) \in Seq(RaceResult)
    BY <1>t, <1>6, FirstResult DEF Lose, Lost
  <2>2. failed' \in [Query -> SUBSET Upstream] /\ ch' \in [Query -> Seq(RaceResult)]
    BY <1>t, <1>6, <2>1 DEF TypeOK, Lose, RaceResult
  <2>3. /\ pc' \in [Query -> Steps] /\ cancelled' \in [Query -> BOOLEAN]
        /\ result' \in [Query -> Responses \cup {None, Failure}]
    BY <1>t, <1>6, GoType DEF TypeOK, Lose, Steps, Busy
  <2> QED BY <1>t, <1>6, <2>2, <2>3 DEF TypeOK, Lose
<1>7. ASSUME NEW q \in Query, Leave(q) PROVE TypeOK'
  <2>1. pc' \in [Query -> Steps]
    BY <1>t, <1>7, GoType DEF Leave, Steps, Busy
  <2> QED BY <1>t, <1>7, <2>1, KeyType DEF TypeOK, Leave
<1>8. ASSUME NEW q \in Query, Reply(q) PROVE TypeOK'
  <2> DEFINE r == result[leader[q]]
  <2>1. r = Failure \/ r \in Responses
    BY <1>t, <1>8 DEF IInv, Leaders, TypeOK, Reply
  <2>2. reply' = [reply EXCEPT ![q] = IF r = Failure THEN Servfail ELSE CopyFor(q, r)]
    BY <1>8 DEF Reply
  <2>3. reply' \in [Query -> Replies \cup {None, Servfail, Rejected}]
    BY <1>t, <2>1, <2>2, ReplyType DEF TypeOK
  <2>4. pc' \in [Query -> Steps]
    BY <1>t, <1>8, GoType DEF Reply, Steps, Busy
  <2> QED BY <1>t, <1>8, <2>3, <2>4 DEF TypeOK, Reply
<1>9. ASSUME NEW k \in Key, Forget(k) PROVE TypeOK'
  BY <1>t, <1>9 DEF TypeOK, Forget
<1>10. ASSUME NEW l \in DOMAIN listener, Activate(l) \/ Break(l) PROVE TypeOK'
  BY <1>t, <1>10 DEF TypeOK, Activate, Break
<1>11. ASSUME Cancel \/ Shutdown PROVE TypeOK'
  BY <1>t, <1>11 DEF TypeOK, Cancel, Shutdown, BeginShutdown
<1>12. CASE UNCHANGED vars
  BY <1>t, <1>12 DEF TypeOK, vars
<1> QED
  BY <1>1, <1>2, <1>3, <1>4, <1>5, <1>6, <1>7, <1>8, <1>9, <1>10, <1>11, <1>12
     DEF Next, Work, Handle, StopCancel, ServeError

(* A handler that keeps its leader takes a step.                           *)
LEMMA LeadersMove ==
    ASSUME TypeOK, Leaders, NEW q \in Query, NEW s \in Steps, Go(q, s), UNCHANGED leader,
           pc[q] \in {"race", "leave", "reply", "done"} => s \in {"race", "leave", "reply", "done"},
           pc[q] \in {"reply", "done"} => s \in {"reply", "done"},
           s \in {"race", "leave"} => leader[q] = q,
           s \in {"wait", "reply"} => leader[q] # None,
           s = "reply" => leader[q] = q \/ pc[leader[q]] \in {"reply", "done"},
           s \in {"leave", "reply", "done"} /\ leader[q] = q => result'[q] # None,
           \A v \in Query : result[v] # None => result'[v] # None
    PROVE  Leaders'
BY QueryPathAssumption DEF TypeOK, Leaders, Go

(* What leaves handlers and flights alone keeps who leads which.           *)
LEMMA LeadersStay ==
    ASSUME Leaders, UNCHANGED <<pc, leader, result>>
    PROVE  Leaders'
BY DEF Leaders

(* No step lets two handlers lead one flight or a follower wait for        *)
(* nobody.                                                                 *)
LEMMA LeadersStep ==
    ASSUME IInv, [Next]_vars
    PROVE  Leaders'
<1> USE DEF race
<1>t. TypeOK /\ Leaders
  BY DEF IInv
<1>n. \A q \in Query : pc[q] \in {"new", "lookup", "join"} => leader[q] # q
  BY <1>t, QueryPathAssumption DEF Leaders
<1>1. ASSUME NEW q \in Query, Receive(q) \/ Reject(q) \/ Lookup(q) PROVE Leaders'
  BY <1>t, <1>n, <1>1, LeadersMove DEF Receive, Reject, Lookup, Steps, Busy
<1>2. ASSUME NEW q \in Query, Join(q) PROVE Leaders'
  <2> DEFINE l == IF flight[KeyOf(q)] # None THEN flight[KeyOf(q)] ELSE q
             s == IF flight[KeyOf(q)] # None THEN "wait" ELSE "race"
  <2>1. /\ pc[q] = "join" /\ Go(q, s) /\ leader' = [leader EXCEPT ![q] = l]
        /\ UNCHANGED result
    BY <1>2 DEF Join
  <2>2. /\ l \in Query /\ KeyOf(l) = KeyOf(q)
        /\ l = q \/ (leader[l] = l /\ pc[l] \in {"race", "leave"})
        /\ s = "race" <=> l = q
    <3>1. CASE flight[KeyOf(q)] # None
      <4>1. PICK f \in Query : f = flight[KeyOf(q)]
        BY <1>t, <3>1, KeyType DEF TypeOK
      <4>2. KeyOf(f) = KeyOf(q)
        BY <3>1, <4>1, KeyType DEF IInv, FlightKeys
      <4>3. pc[f] \in {"race", "leave"}
        BY <4>1, <4>2 DEF IInv, RacesAreFlights
      <4> QED BY <1>t, <2>1, <3>1, <4>1, <4>2, <4>3 DEF Leaders
    <3>2. CASE flight[KeyOf(q)] = None
      BY <3>2
    <3> QED BY <3>1, <3>2
  <2>3. s \in {"race", "wait"}
    OBVIOUS
  <2> HIDE DEF l, s
  <2> QED BY <1>t, <1>n, <2>1, <2>2, <2>3, QueryPathAssumption DEF TypeOK, Leaders, Go
<1>3. ASSUME NEW q \in Query, Win(q) PROVE Leaders'
  <2>1. Head(ch[q]).resp \in Responses
    BY <1>t, <1>3, FirstResult DEF Win, Won, RaceResult
  <2>2. /\ pc[q] = "race" /\ leader[q] = q
        /\ result'[q] # None /\ \A v \in Query : v # q => result'[v] = result[v]
    BY <1>t, <1>3, <2>1, NotResponses DEF TypeOK, Leaders, Win, Won
  <2> QED BY <1>t, <1>3, <2>2, LeadersMove DEF Win, Steps, Busy
<1>4. ASSUME NEW q \in Query, Lose(q) PROVE Leaders'
  <2>1. CASE UNCHANGED <<pc, result>>
    BY <1>t, <1>4, <2>1, LeadersStay DEF Lose
  <2>2. CASE Go(q, "leave") /\ result' = [result EXCEPT ![q] = Failure]
    <3>1. /\ pc[q] = "race" /\ leader[q] = q
          /\ result'[q] # None /\ \A v \in Query : v # q => result'[v] = result[v]
      BY <1>t, <1>4, <2>2, QueryPathAssumption DEF TypeOK, Leaders, Lose, Lost
    <3> QED BY <1>t, <1>4, <2>2, <3>1, LeadersMove DEF Lose, Steps, Busy
  <2> QED BY <1>4, <2>1, <2>2 DEF Lose
<1>5. ASSUME NEW q \in Query, Leave(q) \/ Wake(q) \/ Reply(q) PROVE Leaders'
  <2>1. /\ pc[q] = "leave" => leader[q] = q
        /\ pc[q] \in {"leave", "wait", "reply"} => leader[q] \in Query
        /\ pc[q] \in {"leave", "reply"} /\ leader[q] = q => result[q] # None
        /\ pc[q] = "wait" => leader[q] # q
    BY <1>t, QueryPathAssumption DEF TypeOK, Leaders
  <2> QED
    BY <1>t, <1>5, <2>1, LeadersMove, QueryPathAssumption DEF Leave, Wake, Reply, Steps, Busy
<1>6. ASSUME NEW q \in Query, NEW u \in Upstream, Exchange(q, u) PROVE Leaders'
  BY <1>t, <1>6, LeadersStay DEF Exchange
<1>7. ASSUME NEW k \in Key, Forget(k) PROVE Leaders'
  BY <1>t, <1>7, LeadersStay DEF Forget
<1>8. ASSUME NEW l \in DOMAIN listener, Activate(l) \/ Break(l) PROVE Leaders'
  BY <1>t, <1>8, LeadersStay DEF Activate, Break
<1>9. CASE Cancel \/ Shutdown \/ UNCHANGED vars
  BY <1>t, <1>9, LeadersStay DEF Cancel, Shutdown, vars
<1> QED
  BY <1>1, <1>2, <1>3, <1>4, <1>5, <1>6, <1>7, <1>8, <1>9
     DEF Next, Work, Handle, StopCancel, ServeError

(* A query leaves the table of flights exactly when its race ends.         *)
LEMMA FlightStep ==
    ASSUME IInv, [Next]_vars
    PROVE  RacesAreFlights' /\ FlightKeys'
<1> USE DEF race
<1> DEFINE Kept == RacesAreFlights' /\ FlightKeys'
<1>t. TypeOK /\ RacesAreFlights /\ FlightKeys
  BY DEF IInv
<1>1. ASSUME NEW q \in Query, UNCHANGED flight, NEW s \in Steps, Go(q, s),
             pc[q] \in {"race", "leave"} <=> s \in {"race", "leave"}
      PROVE  Kept
  BY <1>t, <1>1 DEF TypeOK, RacesAreFlights, FlightKeys, Go
<1>2. ASSUME NEW q \in Query,
             Receive(q) \/ Reject(q) \/ Lookup(q) \/ Win(q) \/ Wake(q) \/ Reply(q)
      PROVE  Kept
  BY <1>1, <1>2 DEF Receive, Reject, Lookup, Win, Won, Wake, Reply, Steps, Busy
<1>3. ASSUME UNCHANGED <<pc, flight>> PROVE Kept
  BY <1>t, <1>3 DEF RacesAreFlights, FlightKeys
<1>4. ASSUME NEW q \in Query, Lose(q) PROVE Kept
  BY <1>1, <1>3, <1>4 DEF Lose, Lost, Steps, Busy
<1>5. ASSUME NEW q \in Query, Join(q) PROVE Kept
  <2>1. CASE flight[KeyOf(q)] # None
    BY <1>1, <1>5, <2>1 DEF Join, Steps, Busy
  <2>2. CASE flight[KeyOf(q)] = None
    <3>1. /\ flight' = [flight EXCEPT ![KeyOf(q)] = q] /\ pc' = [pc EXCEPT ![q] = "race"]
          /\ pc[q] = "join"
      BY <1>5, <2>2 DEF Join, Go
    <3>2. FlightKeys'
      BY <1>t, <3>1 DEF TypeOK, FlightKeys
    <3>3. ASSUME NEW v \in Query
          PROVE  pc'[v] \in {"race", "leave"} <=> flight'[KeyOf(v)] = v
      <4>1. flight'[KeyOf(v)] = IF KeyOf(v) = KeyOf(q) THEN q ELSE flight[KeyOf(v)]
        BY <1>t, <3>1, KeyType DEF TypeOK
      <4>2. pc'[v] = IF v = q THEN "race" ELSE pc[v]
        BY <1>t, <3>1 DEF TypeOK
      <4>3. pc[v] \in {"race", "leave"} <=> flight[KeyOf(v)] = v
        BY <1>t DEF RacesAreFlights
      <4> QED BY <2>2, <4>1, <4>2, <4>3, QueryPathAssumption
    <3> QED BY <3>2, <3>3 DEF RacesAreFlights
  <2> QED BY <2>1, <2>2
<1>6. ASSUME NEW q \in Query, Leave(q) PROVE Kept
  BY <1>t, <1>6, KeyType, QueryPathAssumption DEF TypeOK, RacesAreFlights, FlightKeys, Leave, Go
<1>7. ASSUME NEW q \in Query, NEW u \in Upstream, Exchange(q, u) PROVE Kept
  BY <1>3, <1>7 DEF Exchange
<1>8. ASSUME NEW k \in Key, Forget(k) PROVE Kept
  BY <1>3, <1>8 DEF Forget
<1>9. ASSUME NEW l \in DOMAIN listener, Activate(l) \/ Break(l) PROVE Kept
  BY <1>3, <1>9 DEF Activate, Break
<1>10. CASE Cancel \/ Shutdown \/ UNCHANGED vars
  BY <1>3, <1>10 DEF Cancel, Shutdown, vars
<1> QED
  BY <1>2, <1>4, <1>5, <1>6, <1>7, <1>8, <1>9, <1>10
     DEF Next, Work, Handle, StopCancel, ServeError

(* What comes over the channel and is returned answers the question.       *)
LEMMA ResultsStep ==
    ASSUME IInv, [Next]_vars
    PROVE  Results'
<1> USE DEF race
<1>t. TypeOK /\ Results
  BY DEF IInv
<1>1. ASSUME UNCHANGED <<ch, result>> PROVE Results'
  BY <1>t, <1>1 DEF Results
<1>2. ASSUME NEW q \in Query,
             \/ Receive(q) \/ Reject(q) \/ Lookup(q) \/ Join(q)
             \/ Leave(q) \/ Wake(q) \/ Reply(q)
      PROVE  Results'
  BY <1>1, <1>2 DEF Receive, Reject, Lookup, Join, Leave, Wake, Reply
<1>3. ASSUME NEW q \in Query, NEW u \in Upstream, Exchange(q, u) PROVE Results'
  <2>1. PICK r \in Responses \cup {Failure} : Send(q, u, r) /\ (r # Failure => ToTheLetter(q, r))
    BY <1>t, <1>3, Exchanged
  <2>2. /\ \A v \in Query \ {q} : ch'[v] = ch[v]
        /\ \A i \in DOMAIN ch'[q] :
             (i \in DOMAIN ch[q] /\ ch'[q][i] = ch[q][i]) \/ ch'[q][i].resp = r
    BY <1>t, <2>1, Sent
  <2> QED BY <1>t, <1>3, <2>1, <2>2 DEF Results, Exchange
<1>4. ASSUME NEW q \in Query, Win(q) PROVE Results'
  <2>1. ToTheLetter(q, Head(ch[q]).resp)
    BY <1>t, <1>4, FirstResult DEF Results, Win, Won
  <2> QED BY <1>t, <1>4, <2>1 DEF TypeOK, Results, Win
<1>5. ASSUME NEW q \in Query, Lose(q) PROVE Results'
  <2>1. \A i \in DOMAIN Tail(ch[q]) :
          Tail(ch[q])[i].resp # Failure => ToTheLetter(q, Tail(ch[q])[i].resp)
    BY <1>t, <1>5, FirstResult DEF Results, Lose, Lost
  <2> QED BY <1>t, <1>5, <2>1 DEF TypeOK, Results, Lose
<1>6. ASSUME NEW k \in Key, Forget(k) PROVE Results'
  BY <1>1, <1>6 DEF Forget
<1>7. ASSUME NEW l \in DOMAIN listener, Activate(l) \/ Break(l) PROVE Results'
  BY <1>1, <1>7 DEF Activate, Break
<1>8. CASE Cancel \/ Shutdown \/ UNCHANGED vars
  BY <1>1, <1>8 DEF Cancel, Shutdown, vars
<1> QED
  BY <1>2, <1>3, <1>4, <1>5, <1>6, <1>7, <1>8
     DEF Next, Work, Handle, StopCancel, ServeError

(* No failure of a healthy upstream is counted before Stop.                *)
LEMMA LossesStep ==
    ASSUME IInv, [Next]_vars
    PROVE  Losses' /\ NoFalseServfail'
<1> DEFINE Kept == Losses' /\ NoFalseServfail'
<1> USE DEF race
<1>t. TypeOK /\ Losses /\ NoFalseServfail
  BY DEF IInv
<1>1. ASSUME UNCHANGED <<stop, pc, ch, failed, cancelled, result>> PROVE Kept
  BY <1>t, <1>1 DEF Losses, NoFalseServfail
<1>2. ASSUME NEW q \in Query, NEW s \in Steps, Go(q, s),
             pc[q] \in {"leave", "reply", "done"} => s \in {"leave", "reply", "done"},
             failed' = failed \/ failed' = [failed EXCEPT ![q] = {}],
             UNCHANGED <<stop, ch, cancelled, result>>
      PROVE  Kept
  BY <1>t, <1>2 DEF TypeOK, Losses, NoFalseServfail, Go
<1>3. ASSUME NEW q \in Query,
             \/ Receive(q) \/ Reject(q) \/ Lookup(q) \/ Join(q)
             \/ Leave(q) \/ Wake(q) \/ Reply(q)
      PROVE  Kept
  BY <1>2, <1>3 DEF Receive, Reject, Lookup, Join, Leave, Wake, Reply, Steps, Busy
<1>4. ASSUME NEW q \in Query, NEW u \in Upstream, Exchange(q, u) PROVE Kept
  <2>1. PICK r \in Responses \cup {Failure} :
          Send(q, u, r) /\ (r = Failure => u \notin Healthy \/ Interrupted(q))
    BY <1>t, <1>4, Exchanged
  <2>2. /\ \A v \in Query \ {q} : ch'[v] = ch[v]
        /\ \A i \in DOMAIN ch'[q] :
             \/ i \in DOMAIN ch[q] /\ ch'[q][i] = ch[q][i]
             \/ ch'[q][i].from = u /\ ch'[q][i].resp = r
    BY <1>t, <2>1, Sent
  <2> QED BY <1>t, <1>4, <2>1, <2>2 DEF Losses, NoFalseServfail, Exchange, Interrupted
<1>5. ASSUME NEW q \in Query, Win(q) PROVE Kept
  BY <1>t, <1>5 DEF TypeOK, Losses, NoFalseServfail, Win, Won, Go
<1>6. ASSUME NEW q \in Query, Lose(q) PROVE Kept
  <2>1. pc[q] = "race" /\ ~cancelled[q]
    BY <1>t, <1>6 DEF Losses, Lose, Lost
  <2>2. stop = "no" => failed'[q] \cap Healthy = {}
    BY <1>t, <1>6, <2>1, FirstResult DEF TypeOK, Losses, Lose, Lost
  <2>3. stop = "no" => \A i \in DOMAIN Tail(ch[q]) :
          Tail(ch[q])[i].resp = Failure => Tail(ch[q])[i].from \notin Healthy
    BY <1>t, <1>6, <2>1, FirstResult DEF Losses, Lose, Lost
  <2>4. CASE failed'[q] = Upstream
    <3>1. Healthy # {} => stop # "no"
      BY <2>2, <2>4, QueryPathAssumption
    <3>2. NoFalseServfail'
      BY <1>t, <1>6, <3>1 DEF NoFalseServfail, Lose
    <3>3. Losses'
      BY <1>t, <1>6, <2>4 DEF TypeOK, Losses, Lose, Go
    <3> QED BY <3>2, <3>3
  <2>5. CASE failed'[q] # Upstream
    BY <1>t, <1>6, <2>2, <2>3, <2>5 DEF TypeOK, Losses, NoFalseServfail, Lose, Lost
  <2> QED BY <2>4, <2>5
<1>7. ASSUME NEW k \in Key, Forget(k) PROVE Kept
  BY <1>1, <1>7 DEF Forget
<1>8. ASSUME NEW l \in DOMAIN listener, Activate(l) \/ Break(l) PROVE Kept
  BY <1>1, <1>8 DEF Activate, Break
<1>9. ASSUME Cancel \/ Shutdown PROVE Kept
  <2>1. stop' # "no" /\ UNCHANGED <<pc, ch, failed, cancelled, result>>
    BY <1>9 DEF Cancel, Shutdown, BeginShutdown
  <2> QED BY <1>t, <2>1 DEF Losses, NoFalseServfail
<1>10. CASE UNCHANGED vars
  BY <1>1, <1>10 DEF vars
<1> QED
  BY <1>3, <1>4, <1>5, <1>6, <1>7, <1>8, <1>9, <1>10
     DEF Next, Work, Handle, StopCancel, ServeError

(* Nobody is answered twice, or goes on once answered.                     *)
LEMMA PendingStep ==
    ASSUME IInv, [Next]_vars
    PROVE  Pending'
<1> USE DEF race
<1>t. TypeOK /\ Pending
  BY DEF IInv
<1>1. ASSUME UNCHANGED <<pc, reply>> PROVE Pending'
  BY <1>t, <1>1 DEF Pending
<1>2. ASSUME NEW q \in Query, NEW s \in Steps, Go(q, s), pc[q] # "done", UNCHANGED reply
      PROVE  Pending'
  BY <1>t, <1>2 DEF TypeOK, Pending, Go
<1>3. ASSUME NEW q \in Query, NEW x, Go(q, "done"), reply' = [reply EXCEPT ![q] = x]
      PROVE  Pending'
  BY <1>t, <1>3 DEF TypeOK, Pending, Go
<1>4. ASSUME NEW q \in Query, Receive(q) \/ Join(q) \/ Win(q) \/ Leave(q) \/ Wake(q)
      PROVE  Pending'
  BY <1>2, <1>4 DEF Receive, Join, Win, Won, Leave, Wake, Steps, Busy
<1>5. ASSUME NEW q \in Query, Reject(q) \/ Lookup(q) \/ Reply(q) PROVE Pending'
  BY <1>2, <1>3, <1>5 DEF Reject, Lookup, Reply, Steps, Busy
<1>6. ASSUME NEW q \in Query, Lose(q) PROVE Pending'
  BY <1>1, <1>2, <1>6 DEF Lose, Lost, Steps, Busy
<1>7. ASSUME NEW q \in Query, NEW u \in Upstream, Exchange(q, u) PROVE Pending'
  BY <1>1, <1>7 DEF Exchange
<1>8. ASSUME NEW k \in Key, Forget(k) PROVE Pending'
  BY <1>1, <1>8 DEF Forget
<1>9. ASSUME NEW l \in DOMAIN listener, Activate(l) \/ Break(l) PROVE Pending'
  BY <1>1, <1>9 DEF Activate, Break
<1>10. CASE Cancel \/ Shutdown \/ UNCHANGED vars
  BY <1>1, <1>10 DEF Cancel, Shutdown, vars
<1> QED
  BY <1>4, <1>5, <1>6, <1>7, <1>8, <1>9, <1>10
     DEF Next, Work, Handle, StopCancel, ServeError

(* Every copy made of an answer, for the cache or a client, is to the      *)
(* question it is made for.                                                *)
LEMMA CopiesStep ==
    ASSUME IInv, [Next]_vars
    PROVE  Stored' /\ OwnReply'
<1> DEFINE Kept == Stored' /\ OwnReply'
           Right(q, x) == /\ x.id = q /\ Canonical[x.name] = Canonical[Ask[q].name]
                          /\ x.do = Ask[q].do
<1> USE DEF race
<1>t. TypeOK /\ Stored /\ OwnReply /\ Pending
  BY DEF IInv
<1>l. ASSUME NEW q \in Query, NEW r, ToTheLetter(q, r) PROVE For(q, r)
  BY <1>l DEF ToTheLetter, For, KeyOf
<1>c. ASSUME NEW q \in Query, NEW r, For(q, r) PROVE Right(q, CopyFor(q, r))
  BY <1>c DEF For, KeyOf, CopyFor
<1>1. ASSUME UNCHANGED <<cache, reply, leader>> PROVE Kept
  BY <1>t, <1>1 DEF Stored, OwnReply, Answered
<1>2. ASSUME NEW q \in Query, NEW x, reply' = [reply EXCEPT ![q] = x],
             UNCHANGED <<cache, leader>>,
             \/ x \in {Servfail, Rejected}
             \/ Right(q, x) /\ (leader[q] = q => x.name = Ask[q].name)
      PROVE  Kept
  BY <1>t, <1>2 DEF TypeOK, Stored, OwnReply, Answered
<1>3. ASSUME NEW q \in Query, Reject(q) PROVE Kept
  BY <1>2, <1>3 DEF Reject
<1>4. ASSUME NEW q \in Query, Lookup(q) PROVE Kept
  <2>1. CASE cache[KeyOf(q)] = None
    BY <1>1, <1>4, <2>1 DEF Lookup
  <2>2. CASE cache[KeyOf(q)] # None
    <3>1. For(q, cache[KeyOf(q)])
      BY <1>t, <2>2, KeyType DEF Stored, For
    <3>2. Right(q, CopyFor(q, cache[KeyOf(q)]))
      BY <1>c, <3>1
    <3>3. leader[q] # q
      BY <1>4, QueryPathAssumption DEF IInv, Leaders, Lookup
    <3> QED BY <1>2, <1>4, <2>2, <3>2, <3>3 DEF Lookup
  <2> QED BY <2>1, <2>2
<1>5. ASSUME NEW q \in Query, Reply(q) PROVE Kept
  <2> DEFINE r == result[leader[q]]
  <2>1. /\ leader[q] \in Query /\ KeyOf(leader[q]) = KeyOf(q)
        /\ r # None
    BY <1>t, <1>5 DEF IInv, Leaders, TypeOK, Reply
  <2>2. reply' = [reply EXCEPT ![q] = IF r = Failure THEN Servfail ELSE CopyFor(q, r)]
        /\ UNCHANGED <<cache, leader>>
    BY <1>5 DEF Reply
  <2>3. r # Failure => ToTheLetter(leader[q], r)
    BY <2>1 DEF IInv, Results
  <2>4. r # Failure => For(q, r)
    BY <1>l, <2>1, <2>3 DEF For
  <2>5. r # Failure => Right(q, CopyFor(q, r))
    BY <1>c, <2>4
  <2>6. r # Failure /\ leader[q] = q => CopyFor(q, r).name = Ask[q].name
    BY <2>3 DEF ToTheLetter, CopyFor
  <2> HIDE DEF r, Right
  <2> QED BY <1>2, <2>2, <2>5, <2>6
<1>6. ASSUME NEW q \in Query, Win(q) PROVE Kept
  <2> DEFINE r == Head(ch[q]).resp
  <2>1. For(q, r)
    BY <1>t, <1>l, <1>6, FirstResult DEF IInv, Results, Win, Won
  <2>2. Put(q, r) /\ UNCHANGED <<reply, leader>>
    BY <1>6 DEF Win
  <2> HIDE DEF r
  <2>3. Stored'
    BY <1>t, <2>1, <2>2, KeyType DEF TypeOK, Stored, Put, For
  <2> QED BY <1>t, <2>2, <2>3 DEF OwnReply, Answered
<1>7. ASSUME NEW k \in Key, Forget(k) PROVE Kept
  BY <1>t, <1>7 DEF TypeOK, Stored, OwnReply, Answered, Forget
<1>8. ASSUME NEW q \in Query,
             \/ Receive(q) \/ Lose(q) \/ Leave(q) \/ Wake(q)
             \/ \E u \in Upstream : Exchange(q, u)
      PROVE  Kept
  BY <1>1, <1>8 DEF Receive, Lose, Leave, Wake, Exchange
<1>9. ASSUME NEW q \in Query, Join(q) PROVE Kept
  <2>1. reply[q] = None /\ UNCHANGED <<cache, reply>>
    BY <1>t, <1>9 DEF Pending, Join
  <2>2. \A v \in Query : v # q => leader'[v] = leader[v]
    BY <1>t, <1>9 DEF TypeOK, Join
  <2> QED BY <1>t, <2>1, <2>2 DEF Stored, OwnReply, Answered
<1>10. ASSUME NEW l \in DOMAIN listener, Activate(l) \/ Break(l) PROVE Kept
  BY <1>1, <1>10 DEF Activate, Break
<1>11. CASE Cancel \/ Shutdown \/ UNCHANGED vars
  BY <1>1, <1>11 DEF Cancel, Shutdown, vars
<1> QED
  BY <1>3, <1>4, <1>5, <1>6, <1>7, <1>8, <1>9, <1>10, <1>11
     DEF Next, Work, Handle, StopCancel, ServeError

-------------------------------------------------------------------------------
(* The inductive invariant.                                                *)
LEMMA Invariance == Spec => []IInv
<1>1. IInv /\ [Next]_vars => IInv'
  BY TypeStep, LeadersStep, FlightStep, ResultsStep, LossesStep,
     CopiesStep, PendingStep DEF IInv
<1> QED BY Initially, <1>1, PTL DEF Spec

(* The types of all that handlers, exchanges, the cache and the table of   *)
(* flights hold.                                                           *)
THEOREM Typing == Spec => []TypeOK
<1>1. IInv => TypeOK
  BY DEF IInv
<1> QED BY <1>1, Invariance, PTL

(* Equal questions are never raced twice at a time, and nobody is given    *)
(* the result of a race that was over when it came to ask.                 *)
THEOREM OneRace == Spec => []RacesAreFlights
<1>1. IInv => RacesAreFlights
  BY DEF IInv
<1> QED BY <1>1, Invariance, PTL

(* Whether from its own race, another handler's or the cache: an answer is *)
(* for the client's own name, DO bit and Id, and to the letter when it is  *)
(* from its own race.                                                      *)
THEOREM RepliesMatch == Spec => []OwnReply
<1>1. IInv => OwnReply
  BY DEF IInv
<1> QED BY <1>1, Invariance, PTL

(* One healthy upstream is enough, however many fail and in any order.     *)
THEOREM OneHealthyIsEnough == Spec => []NoFalseServfail
<1>1. IInv => NoFalseServfail
  BY DEF IInv
<1> QED BY <1>1, Invariance, PTL

===============================================================================
