-------------------------------- MODULE DotPool --------------------------------
(***************************************************************************)
(* The DNS-over-TLS client of dns/dot.go: a pool of warm connections, a    *)
(* semaphore, Exchange with its retry, and Close.                          *)
(*                                                                         *)
(* A step is what other goroutines can see: one channel operation, one     *)
(* load or store of the closed flag, one dial, one write or read on the    *)
(* wire.  The pool is a set: which of its connections a goroutine gets is  *)
(* left open.  Connections are never reused after a close; a model value   *)
(* stands for a new connection each time it is dialled.                    *)
(***************************************************************************)
EXTENDS Naturals, Sequences, FiniteSets

CONSTANTS
    Worker,     \* goroutines that call Exchange
    Conn,       \* TLS connections
    PoolSize,   \* dotPoolSize: capacity of the pool and of the semaphore
    NoConn,     \* no connection
    NoAnswer    \* no answer

ASSUME DotPoolAssumption ==
    /\ PoolSize \in Nat \ {0}
    /\ NoConn \notin Conn
    /\ NoAnswer \notin Worker

VARIABLES
    pool,       \* the idle connections
    sem,        \* the workers that hold a slot of the semaphore
    closed,     \* the atomic closed flag
    closer,     \* Close: "idle", "draining" or "done"
    warmed,     \* how many of its dials WarmPool has made
    alive,      \* the connections both ends of which are open
    dead,       \* the connections open here that the upstream has closed
    unread,     \* unread[c]: whose queries the answers not yet read on c are for
    pc,         \* where each worker is
    conn,       \* the connection a worker works on
    attempt,    \* how many attempts of its Exchange have begun
    cancelled,  \* its context is cancelled
    got         \* whose query the answer it returns is for

shared == <<pool, closed, closer, warmed>>
wire == <<alive, dead, unread>>
vars == <<pool, sem, closed, closer, warmed, alive, dead, unread,
          pc, conn, attempt, cancelled, got>>

Steps == {"idle", "wait", "attempt", "get", "dial", "write", "read", "put", "push", "return"}

Open == alive \cup dead
Go(w, s) == pc' = [pc EXCEPT ![w] = s]
-------------------------------------------------------------------------------
Init ==
    /\ pool = {} /\ sem = {} /\ closed = FALSE /\ closer = "idle" /\ warmed = 0
    /\ alive = {} /\ dead = {} /\ unread = [c \in Conn |-> <<>>]
    /\ pc = [w \in Worker |-> "idle"]
    /\ conn = [w \in Worker |-> NoConn]
    /\ attempt = [w \in Worker |-> 0]
    /\ cancelled = [w \in Worker |-> FALSE]
    /\ got = [w \in Worker |-> NoAnswer]

Serving == warmed = PoolSize

(* The client's end of c is closed. *)
CloseConn(c) ==
    /\ alive' = alive \ {c} /\ dead' = dead \ {c}
    /\ unread' = [unread EXCEPT ![c] = <<>>]

(* c is a new connection to the upstream. *)
Dialled(c) ==
    /\ c \notin Open
    /\ alive' = alive \cup {c} /\ UNCHANGED <<dead, unread>>

(* One turn of WarmPool: dial and putConn, or a failed dial.  PreWarm waits *)
(* for WarmPool before Serve, so nothing else runs.                         *)
WarmOne ==
    /\ warmed < PoolSize /\ warmed' = warmed + 1
    /\ \/ \E c \in Conn : Dialled(c) /\ pool' = pool \cup {c}
       \/ UNCHANGED <<pool, wire>>
    /\ UNCHANGED <<sem, closed, closer, pc, conn, attempt, cancelled, got>>

(* Exchange is entered; with the flag set it returns an error at once.     *)
Call(w) ==
    /\ Serving /\ pc[w] = "idle" /\ ~closed
    /\ Go(w, "wait")
    /\ attempt' = [attempt EXCEPT ![w] = 0]
    /\ got' = [got EXCEPT ![w] = NoAnswer]
    /\ cancelled' = [cancelled EXCEPT ![w] = FALSE]
    /\ UNCHANGED <<shared, sem, wire, conn>>

(* The race was won by another upstream, timed out, or the server stops.   *)
Cancel(w) ==
    /\ pc[w] # "idle" /\ ~cancelled[w]
    /\ cancelled' = [cancelled EXCEPT ![w] = TRUE]
    /\ UNCHANGED <<shared, sem, wire, pc, conn, attempt, got>>

AcquireAlways(w) ==
    /\ pc[w] = "wait" /\ Go(w, "attempt")
    /\ sem' = sem \cup {w}
    /\ UNCHANGED <<shared, wire, conn, attempt, cancelled, got>>
(* c.sem <- struct{}{} *)
Acquire(w) ==
    /\ pc[w] = "wait" /\ Cardinality(sem) < PoolSize
    /\ Go(w, "attempt")
    /\ sem' = sem \cup {w}
    /\ UNCHANGED <<shared, wire, conn, attempt, cancelled, got>>

(* <-ctx.Done() while waiting for a slot *)
GiveUp(w) ==
    /\ pc[w] = "wait" /\ cancelled[w]
    /\ Go(w, "idle")
    /\ UNCHANGED <<shared, sem, wire, conn, attempt, cancelled, got>>

(* The head of the retry loop, then getConn's test of the closed flag.     *)
Attempt(w) ==
    /\ pc[w] = "attempt"
    /\ IF cancelled[w] \/ attempt[w] = 2
         THEN Go(w, "return") /\ UNCHANGED attempt
         ELSE /\ attempt' = [attempt EXCEPT ![w] = @ + 1]
              /\ Go(w, IF closed THEN "attempt" ELSE "get")
    /\ UNCHANGED <<shared, sem, wire, conn, cancelled, got>>

GetKeeping(w) ==
    /\ pc[w] = "get"
    /\ \/ \E c \in pool :
            /\ conn' = [conn EXCEPT ![w] = c]
            /\ Go(w, "write")
       \/ pool = {} /\ Go(w, "dial") /\ UNCHANGED conn
    /\ UNCHANGED <<shared, sem, wire, attempt, cancelled, got>>
(* A connection from the pool, or a dial when it is empty.                 *)
Get(w) ==
    /\ pc[w] = "get"
    /\ \/ \E c \in pool :
            /\ pool' = pool \ {c}
            /\ conn' = [conn EXCEPT ![w] = c]
            /\ Go(w, "write")
       \/ pool = {} /\ Go(w, "dial") /\ UNCHANGED <<pool, conn>>
    /\ UNCHANGED <<closed, closer, warmed, sem, wire, attempt, cancelled, got>>

(* The dial fails, as it does when the context is cancelled first, or not. *)
Dial(w) ==
    /\ pc[w] = "dial"
    /\ \/ Go(w, "attempt") /\ UNCHANGED <<wire, conn>>
       \/ \E c \in Conn :
            /\ Dialled(c)
            /\ conn' = [conn EXCEPT ![w] = c]
            /\ Go(w, "write")
    /\ UNCHANGED <<shared, sem, attempt, cancelled, got>>

RetryForgetting(w) ==
    /\ Go(w, "attempt")
    /\ conn' = [conn EXCEPT ![w] = NoConn]
    /\ UNCHANGED <<shared, wire>>
RetryPooling(w) ==
    /\ Go(w, "attempt")
    /\ pool' = pool \cup {conn[w]}
    /\ conn' = [conn EXCEPT ![w] = NoConn]
    /\ UNCHANGED <<closed, closer, warmed, wire>>
(* An error on the wire closes the connection and ends the attempt.        *)
Retry(w) ==
    /\ Go(w, "attempt")
    /\ CloseConn(conn[w])
    /\ conn' = [conn EXCEPT ![w] = NoConn]
    /\ UNCHANGED shared

(* WriteMsg: a query on a connection the upstream has closed may still be  *)
(* written; its error then shows in ReadMsg.                               *)
Write(w) ==
    /\ pc[w] = "write"
    /\ \/ /\ Go(w, "read")
          /\ unread' = IF conn[w] \in alive
                         THEN [unread EXCEPT ![conn[w]] = Append(@, w)]
                         ELSE unread
          /\ UNCHANGED <<shared, alive, dead, conn>>
       \/ conn[w] \in dead /\ Retry(w)
    /\ UNCHANGED <<sem, attempt, cancelled, got>>

(* ReadMsg returns the first answer on the connection, whoever asked: its  *)
(* Id is not compared.  Or the deadline passes, or the upstream closed.    *)
Read(w) ==
    /\ pc[w] = "read"
    /\ \/ /\ unread[conn[w]] # <<>> /\ Go(w, "put")
          /\ got' = [got EXCEPT ![w] = Head(unread[conn[w]])]
          /\ unread' = [unread EXCEPT ![conn[w]] = Tail(@)]
          /\ UNCHANGED <<shared, alive, dead, conn>>
       \/ Retry(w) /\ UNCHANGED got
    /\ UNCHANGED <<sem, attempt, cancelled>>

(* putConn's test of the closed flag.                                      *)
Put(w) ==
    /\ pc[w] = "put"
    /\ \/ closed /\ Go(w, "return") /\ CloseConn(conn[w])
          /\ conn' = [conn EXCEPT ![w] = NoConn]
       \/ ~closed /\ Go(w, "push") /\ UNCHANGED <<wire, conn>>
    /\ UNCHANGED <<shared, sem, attempt, cancelled, got>>

(* putConn's push, or a close when the pool is full.                       *)
Push(w) ==
    /\ pc[w] = "push" /\ Go(w, "return")
    /\ conn' = [conn EXCEPT ![w] = NoConn]
    /\ IF Cardinality(pool) < PoolSize
         THEN pool' = pool \cup {conn[w]} /\ UNCHANGED wire
         ELSE CloseConn(conn[w]) /\ UNCHANGED pool
    /\ UNCHANGED <<closed, closer, warmed, sem, attempt, cancelled, got>>

ReturnKeepingSlot(w) ==
    /\ pc[w] = "return" /\ Go(w, "idle")
    /\ sem' = IF got[w] = NoAnswer THEN sem ELSE sem \ {w}
    /\ UNCHANGED <<shared, wire, conn, attempt, cancelled, got>>
(* Exchange returns and its deferred function frees the slot.              *)
Return(w) ==
    /\ pc[w] = "return" /\ Go(w, "idle")
    /\ sem' = sem \ {w}
    /\ UNCHANGED <<shared, wire, conn, attempt, cancelled, got>>

(* The upstream closes a connection; answers on their way still arrive.    *)
PeerClose(c) ==
    /\ c \in alive
    /\ alive' = alive \ {c} /\ dead' = dead \cup {c}
    /\ UNCHANGED <<shared, sem, unread, pc, conn, attempt, cancelled, got>>

locals == <<pc, conn, attempt, cancelled, got>>

(* Close: the flag, then the connections in the pool one by one.           *)
CloseBegin ==
    /\ Serving /\ closer = "idle"
    /\ closed' = TRUE /\ closer' = "draining"
    /\ UNCHANGED <<pool, sem, warmed, wire, locals>>

Drain ==
    /\ closer = "draining"
    /\ \E c \in pool : pool' = pool \ {c} /\ CloseConn(c)
    /\ UNCHANGED <<sem, closed, closer, warmed, locals>>

CloseEnd ==
    /\ closer = "draining" /\ pool = {}
    /\ closer' = "done"
    /\ UNCHANGED <<pool, sem, closed, warmed, wire, locals>>

(* What an Exchange that has begun does.                                   *)
Progress(w) ==
    \/ Acquire(w) \/ GiveUp(w) \/ Attempt(w) \/ Get(w) \/ Dial(w)
    \/ Write(w) \/ Read(w) \/ Put(w) \/ Push(w) \/ Return(w)

Next ==
    \/ WarmOne
    \/ \E w \in Worker : Call(w) \/ Cancel(w) \/ Progress(w)
    \/ \E c \in Conn : PeerClose(c)
    \/ CloseBegin \/ Drain \/ CloseEnd

Spec == Init /\ [][Next]_vars
-------------------------------------------------------------------------------
(* Properties                                                              *)

(* Type invariant. *)
TypeOK ==
    /\ pool \subseteq Conn
    /\ sem \subseteq Worker
    /\ closed \in BOOLEAN
    /\ closer \in {"idle", "draining", "done"}
    /\ warmed \in 0..PoolSize
    /\ alive \subseteq Conn /\ dead \subseteq Conn
    /\ unread \in [Conn -> Seq(Worker)]
    /\ pc \in [Worker -> Steps]
    /\ conn \in [Worker -> Conn \cup {NoConn}]
    /\ attempt \in [Worker -> 0..2]
    /\ cancelled \in [Worker -> BOOLEAN]
    /\ got \in [Worker -> Worker \cup {NoAnswer}]

(* Two exchanges never work on the same connection, and none on one that   *)
(* is in the pool, where another would find it.                            *)
OneOwner ==
    \A w \in Worker : conn[w] # NoConn =>
        /\ conn[w] \notin pool
        /\ \A v \in Worker : conn[v] = conn[w] => v = w

(* No connection is forgotten: each open one is in the pool or worked on,  *)
(* and these are open.                                                     *)
NoOrphan == Open = pool \cup ({conn[w] : w \in Worker} \ {NoConn})

(* An idle connection carries no answer of an earlier exchange.            *)
CleanPool == \A c \in pool : unread[c] = <<>>

(* An Exchange never returns the answer to somebody else's query, though   *)
(* the code does not compare the Ids.                                      *)
OwnAnswer == \A w \in Worker : got[w] \in {w, NoAnswer}

(* However long the calls go on and however a dial races with a putConn,   *)
(* no more connections are open than the pool has room for: the branch of  *)
(* putConn for a full pool is never taken.                                 *)
OpenBound == Cardinality(Open) <= PoolSize

(* A slot of the semaphore is held exactly while an Exchange is between    *)
(* Acquire and its return, whatever fails or is cancelled on the way:      *)
(* none is lost, and none is freed that was never taken.                   *)
SlotsFreed == sem = {w \in Worker : pc[w] \notin {"idle", "wait"}}

===============================================================================
