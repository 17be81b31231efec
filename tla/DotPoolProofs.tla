----------------------------- MODULE DotPoolProofs -----------------------------
(***************************************************************************)
(* Proofs about DotPool, for any number of workers and connections and any *)
(* pool size.                                                              *)
(***************************************************************************)
EXTENDS DotPool, FiniteSetTheorems, TLAPS

Holding == {"write", "read", "put", "push"}

(* A worker has a connection exactly between Get or Dial and putConn or    *)
(* Close, and what is still to be read on it is at most its own answer.    *)
HolderFacts(w) ==
    /\ conn[w] # NoConn <=> pc[w] \in Holding
    /\ pc[w] \in Holding \ {"read"} => unread[conn[w]] = <<>>
    /\ pc[w] = "read" => unread[conn[w]] \in {<<>>, <<w>>}

(* The inductive invariant behind OneOwner, NoOrphan, CleanPool, OwnAnswer.*)
IInv ==
    /\ TypeOK /\ OneOwner /\ CleanPool /\ OwnAnswer
    /\ alive \cap dead = {}
    /\ pool \subseteq Open
    /\ \A w \in Worker : conn[w] # NoConn => conn[w] \in Open
    /\ \A c \in Open : c \in pool \/ \E w \in Worker : conn[w] = c
    /\ \A c \in Conn \ Open : unread[c] = <<>>
    /\ \A w \in Worker : HolderFacts(w)

-------------------------------------------------------------------------------
(* A client starts with an empty pool and all slots free.                  *)
LEMMA Initially == Init => IInv
<1> SUFFICES ASSUME Init PROVE IInv
  OBVIOUS
<1>1. TypeOK
  <2>1. <<>> \in Seq(Worker)
    OBVIOUS
  <2>2. unread \in [Conn -> Seq(Worker)]
    BY <2>1 DEF Init
  <2>3. /\ attempt \in [Worker -> 0..2]
        /\ cancelled \in [Worker -> BOOLEAN] /\ pc \in [Worker -> Steps]
        /\ conn \in [Worker -> Conn \cup {NoConn}]
        /\ got \in [Worker -> Worker \cup {NoAnswer}]
    BY DEF Init, Steps
  <2>4. warmed \in 0..PoolSize
    BY DotPoolAssumption DEF Init
  <2> QED BY <2>2, <2>3, <2>4 DEF Init, TypeOK
<1>2. \A w \in Worker : HolderFacts(w)
  BY DEF Init, HolderFacts, Holding
<1> QED BY <1>1, <1>2 DEF Init, IInv, OneOwner, CleanPool, OwnAnswer, Open

(* The types of what closing a connection changes.                         *)
LEMMA CloseType ==
    ASSUME TypeOK, NEW c, CloseConn(c)
    PROVE  alive' \subseteq Conn /\ dead' \subseteq Conn /\ unread' \in [Conn -> Seq(Worker)]
<1>1. <<>> \in Seq(Worker)
  OBVIOUS
<1> QED BY <1>1 DEF TypeOK, CloseConn

(* The steps that touch neither a connection nor who has it.               *)
LEMMA Quiet ==
    ASSUME IInv, TypeOK',
           UNCHANGED <<pool, alive, dead, unread, conn>>,
           NEW w \in Worker, NEW s \in Steps \ Holding, Go(w, s), pc[w] \notin Holding,
           \A v \in Worker : got'[v] \in {got[v], NoAnswer}
    PROVE  IInv'
<1>1. \A v \in Worker : HolderFacts(v)'
  BY DEF IInv, TypeOK, HolderFacts, Holding, Go
<1>2. OwnAnswer'
  BY DEF IInv, OwnAnswer
<1> QED BY <1>1, <1>2 DEF IInv, OneOwner, CleanPool, Open

(* Closing the connection a worker has.                                    *)
LEMMA Closing ==
    ASSUME IInv, TypeOK', NEW w \in Worker, pc[w] \in Holding,
           NEW s \in Steps \ Holding, Go(w, s),
           CloseConn(conn[w]), conn' = [conn EXCEPT ![w] = NoConn],
           UNCHANGED <<pool, got>>
    PROVE  IInv'
<1> USE DotPoolAssumption DEF IInv, TypeOK, CloseConn, Go
<1>1. conn[w] \in Conn /\ conn[w] \in Open /\ conn[w] \notin pool
  BY DEF HolderFacts, OneOwner
<1>2. \A v \in Worker \ {w} : conn[v] # conn[w]
  BY <1>1 DEF OneOwner
<1>3. Open' = Open \ {conn[w]}
  BY DEF Open
<1>4. \A v \in Worker : HolderFacts(v)'
  BY <1>1, <1>2 DEF HolderFacts, Holding
<1>5. OneOwner' /\ CleanPool' /\ OwnAnswer'
  BY <1>1, <1>2 DEF OneOwner, CleanPool, OwnAnswer
<1> QED BY <1>1, <1>2, <1>3, <1>4, <1>5 DEF Open

(* Handing the connection a worker has to the pool.                        *)
LEMMA Pooling ==
    ASSUME IInv, TypeOK', NEW w \in Worker, pc[w] = "push", Go(w, "return"),
           conn' = [conn EXCEPT ![w] = NoConn], pool' = pool \cup {conn[w]},
           UNCHANGED <<alive, dead, unread, got>>
    PROVE  IInv'
<1> USE DotPoolAssumption DEF IInv, TypeOK, Go
<1>1. conn[w] \in Conn /\ conn[w] \in Open /\ conn[w] \notin pool /\ unread[conn[w]] = <<>>
  BY DEF HolderFacts, OneOwner, Holding
<1>2. \A v \in Worker \ {w} : conn[v] # conn[w]
  BY <1>1 DEF OneOwner
<1>3. \A v \in Worker : HolderFacts(v)'
  BY DEF HolderFacts, Holding
<1>4. OneOwner' /\ CleanPool' /\ OwnAnswer'
  BY <1>1, <1>2 DEF OneOwner, CleanPool, OwnAnswer
<1> QED BY <1>1, <1>2, <1>3, <1>4 DEF Open

(* Taking a connection into use, from the pool or dialled.                 *)
LEMMA Taking ==
    ASSUME IInv, TypeOK', NEW w \in Worker, pc[w] \in {"get", "dial"}, Go(w, "write"),
           NEW c \in Conn, conn' = [conn EXCEPT ![w] = c],
           \/ c \in pool /\ pool' = pool \ {c} /\ UNCHANGED wire
           \/ Dialled(c) /\ UNCHANGED pool,
           UNCHANGED got
    PROVE  IInv'
<1> USE DotPoolAssumption DEF IInv, TypeOK, Go, wire, Dialled
<1>1. conn[w] = NoConn
  BY DEF HolderFacts, Holding
<1>2. \A v \in Worker : conn[v] # c
  BY DEF OneOwner
<1>3. unread[c] = <<>> /\ c # NoConn
  BY DEF CleanPool
<1>4. \A v \in Worker : HolderFacts(v)'
  BY <1>2, <1>3 DEF HolderFacts, Holding
<1>5. OneOwner' /\ CleanPool' /\ OwnAnswer'
  BY <1>1, <1>2 DEF OneOwner, CleanPool, OwnAnswer
<1>6. Open' = Open \cup {c}
  BY DEF Open
<1> QED BY <1>1, <1>2, <1>3, <1>4, <1>5, <1>6 DEF Open

(* Every step keeps the invariant.                                         *)
LEMMA InvStep ==
    ASSUME IInv, [Next]_vars
    PROVE  IInv'
<1> USE DotPoolAssumption DEF shared, wire, locals
<1>t. TypeOK
  BY DEF IInv
<1>1. ASSUME WarmOne PROVE IInv'
  <2>1. TypeOK'
    BY <1>t, <1>1 DEF WarmOne, TypeOK, Dialled
  <2>2. CASE UNCHANGED <<pool, wire>>
    BY <1>1, <2>1, <2>2
       DEF WarmOne, IInv, OneOwner, CleanPool, OwnAnswer, Open, HolderFacts
  <2>3. ASSUME NEW c \in Conn, Dialled(c), pool' = pool \cup {c} PROVE IInv'
    <3>1. unread[c] = <<>> /\ Open' = Open \cup {c}
      BY <2>3 DEF IInv, Dialled, Open
    <3>2. \A w \in Worker : conn[w] # c
      BY <2>3 DEF IInv, Dialled
    <3>3. \A w \in Worker : HolderFacts(w)'
      BY <1>1, <2>3 DEF WarmOne, Dialled, IInv, HolderFacts
    <3>4. OneOwner' /\ CleanPool' /\ OwnAnswer'
      BY <1>1, <2>3, <3>1, <3>2
         DEF WarmOne, Dialled, IInv, OneOwner, CleanPool, OwnAnswer
    <3> QED
      BY <1>1, <2>1, <2>3, <3>1, <3>3, <3>4 DEF WarmOne, Dialled, IInv, Open
  <2> QED BY <1>1, <2>2, <2>3 DEF WarmOne
<1>2. ASSUME NEW w \in Worker, Call(w) PROVE IInv'
  <2>1. TypeOK'
    BY <1>t, <1>2 DEF Call, TypeOK, Go, Steps
  <2>2. \A v \in Worker : got'[v] \in {got[v], NoAnswer}
    BY <1>t, <1>2 DEF Call, TypeOK
  <2> QED BY <1>2, <2>1, <2>2, Quiet DEF Call, Steps, Holding
<1>3. ASSUME NEW w \in Worker, Cancel(w) PROVE IInv'
  <2>1. TypeOK'
    BY <1>t, <1>3 DEF Cancel, TypeOK
  <2> QED
    BY <1>3, <2>1 DEF Cancel, IInv, OneOwner, CleanPool, OwnAnswer, Open, HolderFacts
<1>4. ASSUME NEW w \in Worker,
             Acquire(w) \/ GiveUp(w) \/ Attempt(w) \/ Return(w)
      PROVE  IInv'
  <2>1. TypeOK'
    <3>1. CASE Acquire(w) \/ GiveUp(w) \/ Return(w)
      BY <1>t, <3>1 DEF Acquire, GiveUp, Return, TypeOK, Go, Steps
    <3>2. CASE Attempt(w)
      <4>1. attempt' \in [Worker -> 0..2]
        BY <1>t, <3>2 DEF Attempt, TypeOK
      <4> QED BY <1>t, <3>2, <4>1 DEF Attempt, TypeOK, Go, Steps
    <3> QED BY <1>4, <3>1, <3>2
  <2>2. PICK s \in Steps \ Holding : Go(w, s)
    BY <1>4 DEF Acquire, GiveUp, Attempt, Return, Steps, Holding
  <2>3. pc[w] \notin Holding
    BY <1>4 DEF Acquire, GiveUp, Attempt, Return, Holding
  <2>4. UNCHANGED <<pool, alive, dead, unread, conn, got>>
    BY <1>4 DEF Acquire, GiveUp, Attempt, Return
  <2> QED BY <2>1, <2>2, <2>3, <2>4, Quiet
<1>5. ASSUME NEW w \in Worker, Get(w) PROVE IInv'
  <2>1. TypeOK'
    <3>1. /\ pool' \subseteq Conn /\ conn' \in [Worker -> Conn \cup {NoConn}]
          /\ pc' \in [Worker -> Steps]
      <4>1. pc' \in [Worker -> Steps]
        BY <1>t, <1>5 DEF Get, TypeOK, Go, Steps
      <4>2. pool' \subseteq Conn
        BY <1>t, <1>5 DEF Get, TypeOK
      <4>3. conn' \in [Worker -> Conn \cup {NoConn}]
        BY <1>t, <1>5 DEF Get, TypeOK
      <4> QED BY <4>1, <4>2, <4>3
    <3> QED BY <1>t, <1>5, <3>1 DEF Get, TypeOK
  <2>2. CASE UNCHANGED <<pool, conn>> /\ Go(w, "dial")
    BY <1>5, <2>1, <2>2, Quiet DEF Get, Steps, Holding
  <2>3. ASSUME NEW c \in pool, pool' = pool \ {c}, conn' = [conn EXCEPT ![w] = c],
               Go(w, "write")
        PROVE  IInv'
    BY <1>t, <1>5, <2>1, <2>3, Taking DEF Get, TypeOK
  <2> QED BY <1>5, <2>2, <2>3 DEF Get
<1>6. ASSUME NEW w \in Worker, Dial(w) PROVE IInv'
  <2>1. TypeOK'
    <3>1. /\ alive' \subseteq Conn /\ UNCHANGED <<dead, unread>>
          /\ conn' \in [Worker -> Conn \cup {NoConn}]
          /\ pc' \in [Worker -> Steps]
      <4>1. pc' \in [Worker -> Steps]
        BY <1>t, <1>6 DEF Dial, TypeOK, Go, Steps
      <4>2. alive' \subseteq Conn
        BY <1>t, <1>6 DEF Dial, TypeOK, Dialled
      <4>3. conn' \in [Worker -> Conn \cup {NoConn}]
        BY <1>t, <1>6 DEF Dial, TypeOK, Dialled
      <4>4. UNCHANGED <<dead, unread>>
        BY <1>6 DEF Dial, Dialled, wire
      <4> QED BY <4>1, <4>2, <4>3, <4>4
    <3> QED BY <1>t, <1>6, <3>1 DEF Dial, TypeOK
  <2>2. CASE UNCHANGED <<wire, conn>> /\ Go(w, "attempt")
    BY <1>6, <2>1, <2>2, Quiet DEF Dial, Steps, Holding
  <2>3. ASSUME NEW c \in Conn, Dialled(c), conn' = [conn EXCEPT ![w] = c],
               Go(w, "write")
        PROVE  IInv'
    BY <1>6, <2>1, <2>3, Taking DEF Dial
  <2> QED BY <1>6, <2>2, <2>3 DEF Dial
<1>r. ASSUME NEW w \in Worker, pc[w] \in Holding, Retry(w), UNCHANGED got, TypeOK'
      PROVE  IInv'
  BY <1>r, Closing DEF Retry, Steps, Holding
<1>7. ASSUME NEW w \in Worker, Write(w) PROVE IInv'
  <2>0. pc[w] = "write" /\ conn[w] \in Open /\ conn[w] \in Conn /\ unread[conn[w]] = <<>>
    BY <1>t, <1>7 DEF Write, IInv, HolderFacts, Holding, TypeOK
  <2>1. TypeOK'
    <3>1. CASE Retry(w)
      BY <1>t, <1>7, <3>1, CloseType DEF Write, Retry, TypeOK, Go, Steps
    <3>2. CASE ~Retry(w)
      <4>1. unread' \in [Conn -> Seq(Worker)]
        <5>1. Append(unread[conn[w]], w) \in Seq(Worker)
          BY <1>t, <2>0 DEF TypeOK
        <5> QED BY <1>t, <1>7, <2>0, <3>2, <5>1 DEF Write, TypeOK
      <4> QED BY <1>t, <1>7, <3>2, <4>1 DEF Write, TypeOK, Go, Steps
    <3> QED BY <3>1, <3>2
  <2>2. CASE Retry(w)
    BY <1>7, <1>r, <2>0, <2>1, <2>2 DEF Write, Holding
  <2>3. CASE /\ Go(w, "read") /\ UNCHANGED <<shared, alive, dead, conn>>
             /\ unread' = IF conn[w] \in alive
                            THEN [unread EXCEPT ![conn[w]] = Append(@, w)]
                            ELSE unread
    <3>1. /\ unread'[conn[w]] \in {<<>>, <<w>>}
          /\ \A c \in Conn \ {conn[w]} : unread'[c] = unread[c]
      BY <1>t, <2>0, <2>3 DEF TypeOK
    <3>2. \A v \in Worker \ {w} : conn[v] # conn[w]
      BY <1>t, <2>0 DEF IInv, OneOwner, TypeOK
    <3>3. conn[w] \notin pool
      BY <1>t, <2>0 DEF IInv, OneOwner
    <3>4. \A v \in Worker : HolderFacts(v)'
      BY <1>t, <2>0, <2>3, <3>1, <3>2 DEF IInv, HolderFacts, Holding, Go, TypeOK
    <3>5. OneOwner' /\ CleanPool' /\ OwnAnswer'
      BY <1>t, <1>7, <2>3, <3>1, <3>3
         DEF Write, IInv, OneOwner, CleanPool, OwnAnswer, TypeOK
    <3> QED BY <2>0, <2>1, <2>3, <3>1, <3>4, <3>5 DEF IInv, Open
  <2> QED BY <1>7, <2>2, <2>3 DEF Write
<1>8. ASSUME NEW w \in Worker, Read(w) PROVE IInv'
  <2>0. /\ pc[w] = "read" /\ conn[w] \in Open /\ conn[w] \in Conn
        /\ unread[conn[w]] \in {<<>>, <<w>>}
    BY <1>t, <1>8 DEF Read, IInv, HolderFacts, Holding, TypeOK
  <2>1. CASE Retry(w) /\ UNCHANGED got
    <3>1. TypeOK'
      BY <1>t, <1>8, <2>1, CloseType DEF Read, Retry, TypeOK, Go, Steps
    <3> QED BY <1>r, <2>0, <2>1, <3>1 DEF Holding
  <2>2. CASE /\ unread[conn[w]] # <<>> /\ Go(w, "put")
             /\ got' = [got EXCEPT ![w] = Head(unread[conn[w]])]
             /\ unread' = [unread EXCEPT ![conn[w]] = Tail(@)]
             /\ UNCHANGED <<shared, alive, dead, conn>>
    <3>1. /\ got' = [got EXCEPT ![w] = w]
          /\ unread' = [unread EXCEPT ![conn[w]] = <<>>]
      <4>1. unread[conn[w]] = <<w>>
        BY <2>0, <2>2
      <4>2. Head(<<w>>) = w /\ Tail(<<w>>) = <<>>
        OBVIOUS
      <4> QED BY <2>2, <4>1, <4>2
    <3>2. TypeOK'
      <4>1. <<>> \in Seq(Worker)
        OBVIOUS
      <4>2. /\ got' \in [Worker -> Worker \cup {NoAnswer}]
            /\ unread' \in [Conn -> Seq(Worker)]
            /\ pc' \in [Worker -> Steps]
        <5>1. got' \in [Worker -> Worker \cup {NoAnswer}]
          BY <1>t, <3>1 DEF TypeOK
        <5>2. unread' \in [Conn -> Seq(Worker)]
          BY <1>t, <3>1, <4>1 DEF TypeOK
        <5>3. pc' \in [Worker -> Steps]
          BY <1>t, <2>2 DEF TypeOK, Go, Steps
        <5> QED BY <5>1, <5>2, <5>3
      <4> QED BY <1>t, <1>8, <2>2, <4>2 DEF Read, TypeOK
    <3>3. \A v \in Worker \ {w} : conn[v] # conn[w]
      BY <1>t, <2>0 DEF IInv, OneOwner, TypeOK
    <3>4. \A v \in Worker : HolderFacts(v)'
      BY <1>t, <2>0, <2>2, <3>1, <3>3 DEF IInv, HolderFacts, Holding, Go, TypeOK
    <3>5. OneOwner' /\ CleanPool' /\ OwnAnswer'
      BY <1>t, <2>2, <3>1 DEF IInv, OneOwner, CleanPool, OwnAnswer, TypeOK
    <3> QED BY <1>t, <2>0, <2>2, <3>1, <3>2, <3>4, <3>5 DEF IInv, Open, TypeOK
  <2> QED BY <1>8, <2>1, <2>2 DEF Read
<1>9. ASSUME NEW w \in Worker, Put(w) PROVE IInv'
  <2>1. TypeOK'
    <3>1. CASE closed
      BY <1>t, <1>9, <3>1, CloseType DEF Put, TypeOK, Go, Steps
    <3>2. CASE ~closed
      BY <1>t, <1>9, <3>2 DEF Put, TypeOK, Go, Steps
    <3> QED BY <3>1, <3>2
  <2>2. CASE closed
    BY <1>9, <2>1, <2>2, Closing DEF Put, Steps, Holding
  <2>3. CASE ~closed
    <3>1. \A v \in Worker : HolderFacts(v)'
      BY <1>t, <1>9, <2>3 DEF Put, IInv, HolderFacts, Holding, Go, TypeOK
    <3> QED
      BY <1>9, <2>1, <2>3, <3>1 DEF Put, IInv, OneOwner, CleanPool, OwnAnswer, Open
  <2> QED BY <2>2, <2>3
<1>10. ASSUME NEW w \in Worker, Push(w) PROVE IInv'
  <2>0. conn[w] \in Conn
    BY <1>t, <1>10 DEF Push, IInv, HolderFacts, Holding, TypeOK
  <2>1. CASE Cardinality(pool) < PoolSize
    <3>1. TypeOK'
      BY <1>t, <1>10, <2>0, <2>1 DEF Push, TypeOK, Go, Steps
    <3> QED BY <1>10, <2>1, <3>1, Pooling DEF Push
  <2>2. CASE ~(Cardinality(pool) < PoolSize)
    <3>1. TypeOK'
      BY <1>t, <1>10, <2>2, CloseType DEF Push, TypeOK, Go, Steps
    <3> QED BY <1>10, <2>2, <3>1, Closing DEF Push, Steps, Holding
  <2> QED BY <2>1, <2>2
<1>11. ASSUME NEW c \in Conn, PeerClose(c) PROVE IInv'
  <2>1. TypeOK' /\ Open' = Open
    BY <1>t, <1>11 DEF PeerClose, TypeOK, Open
  <2> QED
    BY <1>11, <2>1 DEF PeerClose, IInv, OneOwner, CleanPool, OwnAnswer, HolderFacts
<1>12. ASSUME CloseBegin \/ CloseEnd PROVE IInv'
  <2>1. TypeOK'
    BY <1>t, <1>12 DEF CloseBegin, CloseEnd, TypeOK
  <2> QED
    BY <1>12, <2>1
       DEF CloseBegin, CloseEnd, IInv, OneOwner, CleanPool, OwnAnswer, Open, HolderFacts
<1>13. ASSUME Drain PROVE IInv'
  <2>1. PICK c \in pool : pool' = pool \ {c} /\ CloseConn(c)
    BY <1>13 DEF Drain
  <2>2. TypeOK' /\ c \in Conn /\ Open' = Open \ {c}
    BY <1>t, <1>13, <2>1 DEF Drain, CloseConn, TypeOK, Open
  <2>3. \A w \in Worker : conn[w] # c
    BY <1>t, <2>1, <2>2 DEF IInv, OneOwner
  <2>4. \A d \in Conn \ {c} : unread'[d] = unread[d]
    BY <1>t, <2>1 DEF CloseConn, TypeOK
  <2>5. \A w \in Worker : HolderFacts(w)'
    BY <1>t, <1>13, <2>3, <2>4 DEF Drain, IInv, HolderFacts, Holding, TypeOK
  <2>6. OneOwner' /\ CleanPool' /\ OwnAnswer'
    BY <1>t, <1>13, <2>1, <2>4 DEF Drain, IInv, OneOwner, CleanPool, OwnAnswer, TypeOK
  <2>7. unread'[c] = <<>>
    BY <1>t, <2>1, <2>2 DEF CloseConn, TypeOK
  <2> QED
    BY <1>13, <2>1, <2>2, <2>3, <2>4, <2>5, <2>6, <2>7
       DEF Drain, CloseConn, IInv, Open
<1>14. CASE UNCHANGED vars
  BY <1>14
     DEF vars, IInv, TypeOK, OneOwner, CleanPool, OwnAnswer, Open, HolderFacts
<1> QED
  BY <1>1, <1>2, <1>3, <1>4, <1>5, <1>6, <1>7, <1>8, <1>9, <1>10, <1>11, <1>12,
     <1>13, <1>14 DEF Next, Progress

(* The inductive invariant.                                                *)
LEMMA Invariance == Spec => []IInv
BY Initially, InvStep, PTL DEF Spec

(* A connection belongs to one exchange, or to the pool, at a time.        *)
THEOREM Exclusive == Spec => []OneOwner
<1>1. IInv => OneOwner
  BY DEF IInv
<1> QED BY <1>1, Invariance, PTL

(* No connection leaks, whatever fails, is cancelled or is closed by the   *)
(* upstream, and however Close interleaves.                                *)
THEOREM NothingLeaks == Spec => []NoOrphan
<1>1. IInv => NoOrphan
  <2> SUFFICES ASSUME IInv PROVE NoOrphan
    OBVIOUS
  <2>1. Open \subseteq pool \cup ({conn[w] : w \in Worker} \ {NoConn})
    BY DotPoolAssumption DEF IInv, TypeOK, Open
  <2>2. pool \cup ({conn[w] : w \in Worker} \ {NoConn}) \subseteq Open
    BY DEF IInv
  <2> QED BY <2>1, <2>2 DEF NoOrphan
<1> QED BY <1>1, Invariance, PTL

(* Every Exchange that succeeds returns the answer to its own query.       *)
THEOREM AnswersMatch == Spec => []OwnAnswer
<1>1. IInv => OwnAnswer
  BY DEF IInv
<1> QED BY <1>1, Invariance, PTL

(* The steps of a worker that keep or change its claim on a slot.          *)
LEMMA SlotStep ==
    ASSUME TypeOK, SlotsFreed, [Next]_vars
    PROVE  SlotsFreed'
<1> USE DEF SlotsFreed, TypeOK, Go
<1>1. ASSUME NEW w \in Worker, Call(w) \/ GiveUp(w) PROVE SlotsFreed'
  BY <1>1 DEF Call, GiveUp
<1>2. ASSUME NEW w \in Worker, Acquire(w) PROVE SlotsFreed'
  BY <1>2 DEF Acquire
<1>3. ASSUME NEW w \in Worker, Return(w) PROVE SlotsFreed'
  BY <1>3 DEF Return
<1>4. ASSUME NEW w \in Worker, NEW s \in Steps \ {"idle", "wait"}, Go(w, s),
             pc[w] \notin {"idle", "wait"}, UNCHANGED sem
      PROVE  SlotsFreed'
  BY <1>4
<1>5. ASSUME NEW w \in Worker, Attempt(w) \/ Get(w) \/ Dial(w) PROVE SlotsFreed'
  BY <1>4, <1>5 DEF Attempt, Get, Dial, Steps
<1>6. ASSUME NEW w \in Worker, Write(w) \/ Read(w) \/ Put(w) \/ Push(w)
      PROVE  SlotsFreed'
  BY <1>4, <1>6 DEF Write, Read, Put, Push, Retry, Steps
<1>7. ASSUME UNCHANGED <<sem, pc>> PROVE SlotsFreed'
  BY <1>7
<1>8. ASSUME NEW w \in Worker, Cancel(w) PROVE SlotsFreed'
  BY <1>7, <1>8 DEF Cancel
<1>9. ASSUME NEW c \in Conn, PeerClose(c) PROVE SlotsFreed'
  BY <1>7, <1>9 DEF PeerClose
<1>10. ASSUME WarmOne \/ CloseBegin \/ Drain \/ CloseEnd PROVE SlotsFreed'
  BY <1>7, <1>10 DEF WarmOne, CloseBegin, Drain, CloseEnd, locals
<1>11. CASE UNCHANGED vars
  BY <1>7, <1>11 DEF vars
<1> QED
  BY <1>1, <1>2, <1>3, <1>5, <1>6, <1>8, <1>9, <1>10, <1>11 DEF Next, Progress

(* A slot of the semaphore is held exactly while an Exchange is under way, *)
(* so that none is ever lost: sem has the workers that can still free it.  *)
THEOREM SlotsComeBack == Spec => []SlotsFreed
<1>1. Init => SlotsFreed
  BY DEF Init, SlotsFreed
<1>2. IInv => TypeOK
  BY DEF IInv
<1> QED BY <1>1, <1>2, SlotStep, Invariance, PTL DEF Spec

-------------------------------------------------------------------------------
(* The bound on what is open                                               *)

Holders == {w \in Worker : pc[w] \in Holding}
Dialling == {w \in Worker : pc[w] = "dial"}

(* A dial has its room before it is made: the pool may be filled again     *)
(* between the moment a worker found it empty and the moment the connection*)
(* is there.  While WarmPool dials, nobody else does.                      *)
Room ==
    /\ IsFiniteSet(Open) /\ IsFiniteSet(sem) /\ Cardinality(sem) <= PoolSize
    /\ Cardinality(Open) + Cardinality(Dialling) <= PoolSize
    /\ warmed < PoolSize =>
         Cardinality(Open) <= warmed /\ \A w \in Worker : pc[w] = "idle"

(* With an empty pool no more is open than workers hold.                   *)
LEMMA HeldOnly ==
    ASSUME IInv, SlotsFreed, Room, pool = {}
    PROVE  Cardinality(Open) <= Cardinality(Holders)
<1> DEFINE f == [c \in Open |-> CHOOSE w \in Worker : conn[w] = c]
<1>1. \A c \in Open : f[c] \in Worker /\ conn[f[c]] = c
  BY DEF IInv
<1>2. \A c \in Open : f[c] \in Holders
  <2>1. \A c \in Open : c # NoConn
    BY DotPoolAssumption DEF IInv, TypeOK, Open
  <2> QED BY <1>1, <2>1 DEF IInv, HolderFacts, Holders
<1>3. f \in Injection(Open, Holders)
  BY <1>1, <1>2 DEF Injection, IsInjective
<1>4. Holders \in SUBSET sem
  BY DEF Holders, Holding, SlotsFreed
<1>5. IsFiniteSet(Holders)
  BY <1>4, FS_Subset DEF Room
<1> QED BY <1>3, <1>5, FS_Injection

(* Who dials holds a slot, and there are finitely many of each.            *)
LEMMA DiallingType ==
    ASSUME SlotsFreed, Room
    PROVE  /\ Dialling \in SUBSET sem /\ IsFiniteSet(Dialling)
           /\ Cardinality(Dialling) \in Nat /\ Cardinality(Open) \in Nat
           /\ Cardinality(sem) \in Nat
<1>1. Dialling \in SUBSET sem
  BY DEF Dialling, SlotsFreed
<1>2. IsFiniteSet(Dialling)
  BY <1>1, FS_Subset DEF Room
<1> QED BY <1>1, <1>2, FS_CardinalityType DEF Room

(* The steps that open nothing and begin no dial.                          *)
LEMMA RoomKept ==
    ASSUME TypeOK, SlotsFreed, Room, Open' \subseteq Open, Dialling' \subseteq Dialling,
           sem' \subseteq sem, UNCHANGED warmed,
           warmed < PoolSize => \A w \in Worker : pc'[w] = "idle"
    PROVE  Room'
<1>1. IsFiniteSet(Open') /\ Cardinality(Open') <= Cardinality(Open)
  BY FS_Subset DEF Room
<1>2. IsFiniteSet(sem') /\ Cardinality(sem') <= Cardinality(sem)
  BY FS_Subset DEF Room
<1>3. IsFiniteSet(Dialling') /\ Cardinality(Dialling') <= Cardinality(Dialling)
  BY DiallingType, FS_Subset
<1>4. /\ Cardinality(Open') \in Nat /\ Cardinality(sem') \in Nat
      /\ Cardinality(Dialling') \in Nat
  BY <1>1, <1>2, <1>3, FS_CardinalityType
<1>5. Cardinality(sem') <= PoolSize
  BY <1>2, <1>4, DiallingType, DotPoolAssumption DEF Room
<1>6. Cardinality(Open') + Cardinality(Dialling') <= PoolSize
  BY <1>1, <1>3, <1>4, DiallingType, DotPoolAssumption DEF Room
<1>7. warmed < PoolSize => Cardinality(Open') <= warmed'
  BY <1>1, <1>4, DiallingType, DotPoolAssumption DEF Room, TypeOK
<1> QED BY <1>1, <1>2, <1>5, <1>6, <1>7 DEF Room

(* A dial that succeeds: what is open takes the room the dial had.         *)
LEMMA RoomTaken ==
    ASSUME TypeOK, SlotsFreed, Room, NEW w \in Worker, pc[w] = "dial", Go(w, "write"),
           NEW c \in Conn \ Open, Open' = Open \cup {c}, UNCHANGED <<sem, warmed>>
    PROVE  Room'
<1>1. IsFiniteSet(Open') /\ Cardinality(Open') = Cardinality(Open) + 1
  BY FS_AddElement DEF Room
<1>2. Dialling' = Dialling \ {w} /\ w \in Dialling
  BY DEF TypeOK, Go, Dialling
<1>3. Cardinality(Dialling') = Cardinality(Dialling) - 1
  BY <1>2, DiallingType, FS_RemoveElement
<1>4. ~(warmed < PoolSize)
  BY DEF Room
<1>5. Cardinality(Open') + Cardinality(Dialling') <= PoolSize
  BY <1>1, <1>3, DiallingType, DotPoolAssumption DEF Room
<1> QED BY <1>1, <1>4, <1>5 DEF Room

(* A dial that begins, since the pool is empty: whoever holds a connection *)
(* or dials has a slot of the semaphore, and so has this worker.           *)
LEMMA RoomFound ==
    ASSUME IInv, SlotsFreed, Room, NEW w \in Worker, pc[w] = "get", Go(w, "dial"),
           pool = {}, UNCHANGED <<pool, wire, sem, warmed>>
    PROVE  Room'
<1>1. Open' = Open
  BY DEF wire, Open
<1>2. Dialling' = Dialling \cup {w} /\ w \notin Dialling
  BY DEF IInv, TypeOK, Go, Dialling
<1>3. Cardinality(Dialling') = Cardinality(Dialling) + 1 /\ IsFiniteSet(Dialling')
  BY <1>2, DiallingType, FS_AddElement
<1>4. Holders \in SUBSET sem /\ Dialling' \in SUBSET sem
  BY DiallingType, <1>2 DEF Holders, Holding, SlotsFreed
<1>5. IsFiniteSet(Holders) /\ Cardinality(Holders) \in Nat /\ IsFiniteSet(sem)
  BY <1>4, FS_Subset, FS_CardinalityType DEF Room
<1>6. Holders \cap Dialling' = {}
  BY <1>2 DEF Holders, Dialling, Holding
<1>7. Cardinality(Holders \cup Dialling') = Cardinality(Holders) + Cardinality(Dialling')
  <2>1. Cardinality(Holders \cap Dialling') = 0
    BY <1>6, FS_EmptySet
  <2>2. Cardinality(Holders \cup Dialling')
          = Cardinality(Holders) + Cardinality(Dialling') - Cardinality(Holders \cap Dialling')
    BY <1>3, <1>5, FS_Union
  <2>3. Cardinality(Dialling') \in Nat
    BY <1>3, DiallingType
  <2> QED BY <1>5, <2>1, <2>2, <2>3
<1>8. Cardinality(Holders \cup Dialling') <= Cardinality(sem)
  BY <1>4, <1>5, FS_Subset
<1>9. Cardinality(Open) + Cardinality(Dialling') <= PoolSize
  <2>1. Cardinality(Open) <= Cardinality(Holders) /\ Cardinality(sem) <= PoolSize
    BY HeldOnly DEF Room
  <2>2. Cardinality(Dialling') \in Nat
    BY <1>3, DiallingType
  <2> QED BY <1>5, <1>7, <1>8, <2>1, <2>2, DiallingType, DotPoolAssumption
<1>10. ~(warmed < PoolSize)
  BY DEF Room
<1> QED BY <1>1, <1>9, <1>10 DEF Room

(* No step opens a connection there is no room for.                        *)
LEMMA RoomStep ==
    ASSUME IInv, SlotsFreed, Room, [Next]_vars
    PROVE  Room'
<1> USE DotPoolAssumption DEF shared, wire, locals
<1>t. TypeOK
  BY DEF IInv
<1>i. warmed < PoolSize => \A w \in Worker : pc[w] = "idle"
  BY DEF Room
<1>s. ASSUME NEW w \in Worker, NEW s \in Steps \ {"dial"}, Go(w, s), pc[w] # "idle",
             Open' \subseteq Open, sem' \subseteq sem, UNCHANGED warmed
      PROVE  Room'
  <2>1. Dialling' \subseteq Dialling
    BY <1>t, <1>s DEF TypeOK, Go, Dialling
  <2>2. ~(warmed < PoolSize)
    BY <1>i, <1>s
  <2> QED BY <1>t, <1>s, <2>1, <2>2, RoomKept
<1>n. ASSUME UNCHANGED pc, Open' \subseteq Open, UNCHANGED <<sem, warmed>> PROVE Room'
  BY <1>t, <1>i, <1>n, RoomKept DEF Dialling
<1>c. ASSUME NEW c, CloseConn(c) PROVE Open' \subseteq Open
  BY <1>c DEF CloseConn, Open
<1>o. ASSUME UNCHANGED <<alive, dead>> PROVE Open' = Open
  BY <1>o DEF Open
<1>1. CASE WarmOne
  <2>1. \A w \in Worker : pc[w] = "idle"
    BY <1>1, <1>i DEF WarmOne
  <2>2. Dialling = {} /\ Dialling' = {} /\ sem' = sem /\ warmed' = warmed + 1
    BY <1>1, <2>1 DEF WarmOne, Dialling
  <2>3. Cardinality(Open) <= warmed /\ warmed \in 0..(PoolSize - 1)
    BY <1>t, <1>1 DEF WarmOne, Room, TypeOK
  <2>4. IsFiniteSet(Open') /\ Cardinality(Open') <= Cardinality(Open) + 1
    <3>1. Open' = Open \/ \E c \in Conn : Open' = Open \cup {c}
      BY <1>1 DEF WarmOne, Dialled, Open
    <3>2. IsFiniteSet(Open) /\ Cardinality(Open) \in Nat
      BY <1>i, FS_CardinalityType DEF Room
    <3>3. CASE Open' = Open
      BY <3>2, <3>3
    <3>4. ASSUME NEW c \in Conn, Open' = Open \cup {c}
          PROVE  IsFiniteSet(Open') /\ Cardinality(Open') <= Cardinality(Open) + 1
      <4>1. /\ IsFiniteSet(Open \cup {c})
            /\ \/ Cardinality(Open \cup {c}) = Cardinality(Open)
               \/ Cardinality(Open \cup {c}) = Cardinality(Open) + 1
        BY <3>2, FS_AddElement
      <4> QED BY <3>2, <3>4, <4>1
    <3> QED BY <3>1, <3>3, <3>4
  <2>5. Cardinality(Open') \in Nat /\ Cardinality(Dialling') = 0
    BY <2>2, <2>4, FS_CardinalityType, FS_EmptySet
  <2>6. UNCHANGED <<sem, pc>>
    BY <1>1 DEF WarmOne
  <2>7. Cardinality(Open') <= warmed' /\ Cardinality(Open') + Cardinality(Dialling') <= PoolSize
    BY <2>2, <2>3, <2>4, <2>5, DiallingType
  <2> QED BY <2>1, <2>4, <2>6, <2>7 DEF Room
<1>2. ASSUME NEW w \in Worker, Call(w) PROVE Room'
  <2>1. Dialling' \subseteq Dialling
    BY <1>t, <1>2 DEF Call, TypeOK, Go, Dialling
  <2>2. ~(warmed < PoolSize)
    BY <1>t, <1>2 DEF Call, Serving, TypeOK
  <2> QED BY <1>t, <1>o, <1>2, <2>1, <2>2, RoomKept DEF Call
<1>3. ASSUME NEW w \in Worker, Cancel(w) PROVE Room'
  BY <1>n, <1>o, <1>3 DEF Cancel
<1>4. ASSUME NEW w \in Worker, Acquire(w) PROVE Room'
  <2>1. Dialling' = Dialling /\ UNCHANGED <<warmed, alive, dead>>
    BY <1>t, <1>4 DEF Acquire, TypeOK, Go, Dialling
  <2>2. ~(warmed < PoolSize)
    BY <1>i, <1>4 DEF Acquire
  <2>3. IsFiniteSet(sem') /\ Cardinality(sem') <= PoolSize
    <3>1. sem' = sem \cup {w} /\ Cardinality(sem) < PoolSize /\ IsFiniteSet(sem)
      BY <1>4 DEF Acquire, Room
    <3>2. /\ IsFiniteSet(sem \cup {w})
          /\ Cardinality(sem \cup {w}) \in {Cardinality(sem), Cardinality(sem) + 1}
      BY <3>1, FS_AddElement
    <3> QED BY <3>1, <3>2, DiallingType
  <2> QED BY <1>o, <2>1, <2>2, <2>3 DEF Room
<1>5. ASSUME NEW w \in Worker, GiveUp(w) \/ Attempt(w) \/ Return(w) PROVE Room'
  BY <1>s, <1>o, <1>5 DEF GiveUp, Attempt, Return, Steps
<1>6. ASSUME NEW w \in Worker, Get(w) PROVE Room'
  <2>1. CASE Go(w, "write")
    BY <1>s, <1>o, <1>6, <2>1 DEF Get, Steps
  <2>2. CASE pool = {} /\ Go(w, "dial") /\ UNCHANGED pool
    BY <1>6, <2>2, RoomFound DEF Get
  <2> QED BY <1>6, <2>1, <2>2 DEF Get
<1>7. ASSUME NEW w \in Worker, Dial(w) PROVE Room'
  <2>1. CASE Go(w, "attempt") /\ UNCHANGED wire
    BY <1>s, <1>o, <1>7, <2>1 DEF Dial, Steps
  <2>2. ASSUME NEW c \in Conn, Dialled(c), Go(w, "write") PROVE Room'
    <3>1. c \notin Open /\ Open' = Open \cup {c}
      BY <2>2 DEF Dialled, Open
    <3> QED BY <1>t, <1>7, <2>2, <3>1, RoomTaken DEF Dial
  <2> QED BY <1>7, <2>1, <2>2 DEF Dial
<1>8. ASSUME NEW w \in Worker, Write(w) \/ Read(w) PROVE Room'
  BY <1>s, <1>c, <1>o, <1>8 DEF Write, Read, Retry, Steps
<1>9. ASSUME NEW w \in Worker, Put(w) \/ Push(w) PROVE Room'
  BY <1>s, <1>c, <1>o, <1>9 DEF Put, Push, Steps
<1>10. ASSUME NEW c \in Conn, PeerClose(c) PROVE Room'
  BY <1>n, <1>10 DEF PeerClose, Open
<1>11. CASE CloseBegin \/ CloseEnd
  BY <1>n, <1>o, <1>11 DEF CloseBegin, CloseEnd
<1>12. CASE Drain
  BY <1>n, <1>c, <1>12 DEF Drain
<1>13. CASE UNCHANGED vars
  BY <1>n, <1>o, <1>13 DEF vars
<1> QED
  BY <1>1, <1>2, <1>3, <1>4, <1>5, <1>6, <1>7, <1>8, <1>9, <1>10, <1>11, <1>12, <1>13
     DEF Next, Progress

(* No more connections are open than the pool has room for, whatever the   *)
(* number of exchanges: putConn never finds the pool full.                 *)
THEOREM PoolBoundsOpen == Spec => []OpenBound
<1>1. Init => Room
  <2> SUFFICES ASSUME Init PROVE Room
    OBVIOUS
  <2>1. Open = {} /\ Dialling = {} /\ sem = {}
    BY DEF Init, Open, Dialling
  <2> QED BY <2>1, FS_EmptySet, DotPoolAssumption DEF Init, Room
<1>2. SlotsFreed /\ Room => OpenBound
  BY DiallingType, DotPoolAssumption DEF Room, OpenBound
<1> QED BY <1>1, <1>2, RoomStep, SlotsComeBack, Invariance, PTL DEF Spec

===============================================================================
