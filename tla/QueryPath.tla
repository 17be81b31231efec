-------------------------------- MODULE QueryPath --------------------------------
(***************************************************************************)
(* How the server of dns/server.go answers queries while it is being       *)
(* stopped: ServeDNS with the cache and the coalescing of equal questions, *)
(* resolveRace with one exchange per upstream, and Stop.                   *)
(*                                                                         *)
(* Each query is one handler goroutine, each exchange another.  A step is  *)
(* one operation on what they share: the cache, the table of flights of    *)
(* golang.org/x/sync/singleflight, the channel of a race, a context.  The  *)
(* cache (module LruCache) may forget an entry at any time here.           *)
(***************************************************************************)
EXTENDS Naturals, Sequences, SequencesExt, FiniteSets

CONSTANTS
    Query,      \* queries received, a handler each
    Ask,        \* Ask[q]: what q asks, a record of Question
    Name,       \* names as a client may spell them (with class and type)
    Canonical,  \* Canonical[n]: the name n, whatever the case of its letters
    Upstreams,  \* number of upstreams; they are numbered in configured order
    Healthy,    \* the upstreams that answer every exchange left to run
    Answer,     \* Answer[u]: what upstream u may answer, records of AnswerKind
    None,       \* no response, no query
    Failure,    \* the error a race returns
    Servfail,   \* a reply of SERVFAIL, after a race that failed
    Rejected    \* a reply of FORMERR, REFUSED or SERVFAIL by an early check

Upstream == 1..Upstreams

(* do: the DNSSEC OK bit; wide: the EDNS0 size the client offers is enough *)
(* for a big answer.                                                       *)
Question == [name : Name, do : BOOLEAN, tcp : BOOLEAN, wide : BOOLEAN]

(* cacheable: NOERROR or NXDOMAIN with a TTL (Cache.Put); otherwise it may *)
(* be any response but SERVFAIL.                                           *)
AnswerKind == [cacheable : BOOLEAN, big : BOOLEAN]

ASSUME QueryPathAssumption ==
    /\ Upstreams \in Nat \ {0}
    /\ Ask \in [Query -> Question] /\ Canonical \in [Name -> Name]
    /\ Healthy \subseteq Upstream
    /\ Answer \in [Upstream -> SUBSET AnswerKind]
    /\ \A u \in Healthy : Answer[u] # {}
    /\ None \notin Query /\ Failure # None

VARIABLES
    cache,      \* cache[k]: the response stored under key k
    flight,     \* flight[k]: the query whose call resolves k
    listener,   \* each listener: "bound" by Listen, "serving", "failed", "closing"
    stop,       \* Stop: "no", "cancelled", "udp" or "tcp" (shutting it), "done"
    pc,         \* where each handler is
    leader,     \* the query whose race a handler waits for, its own or another's
    racing,     \* racing[q]: the upstreams whose exchange for q still runs
    ch,         \* ch[q]: the results in the channel of q's race
    failed,     \* failed[q]: the upstreams whose failure the race has received
    cancelled,  \* cancelled[q]: rcancel of q's race was called
    result,     \* what q's race returned: a response or Failure
    reply       \* what was written to the client of q

vars == <<cache, flight, listener, stop, pc, leader, racing, ch, failed, cancelled, result, reply>>
-------------------------------------------------------------------------------
KeyWithoutDo(q) == <<Canonical[Ask[q].name], FALSE>>
(* cacheKey: dns.CanonicalName makes one name of its spellings.            *)
KeyOf(q) == <<Canonical[Ask[q].name], Ask[q].do>>

Key == Name \X BOOLEAN

(* A response to q's question, with q's Id and DO bit and, in its question *)
(* section, the name as q spells it.                                       *)
Responses == [id : Query, name : Name, do : BOOLEAN, cacheable : BOOLEAN, big : BOOLEAN]
ASSUME NotResponses == None \notin Responses /\ Failure \notin Responses

ResponseTo(q, a) == [id |-> q, name |-> Ask[q].name, do |-> Ask[q].do,
                     cacheable |-> a.cacheable, big |-> a.big]

(* What a client is sent: tc says that it was truncated.                   *)
Replies == [id : Query, name : Name, do : BOOLEAN, tc : BOOLEAN]

(* raceResult: what one exchange ended with.                               *)
RaceResult == [from : Upstream, resp : Responses \cup {Failure}]

(* resp.Copy with the Id of q, then applyEDNSTruncation.  The question     *)
(* section is left as it was received.                                     *)
CopyFor(q, r) == [id |-> q, name |-> r.name, do |-> r.do, tc |-> r.big /\ ~Ask[q].wide]

Busy == {"lookup", "join", "race", "leave", "wait", "reply"}
Steps == {"new", "done"} \cup Busy
Go(q, s) == pc' = [pc EXCEPT ![q] = s]

Init ==
    /\ cache = [k \in Key |-> None]
    /\ flight = [k \in Key |-> None]
    /\ listener = [l \in {"udp", "tcp"} |-> "bound"] /\ stop = "no"
    /\ pc = [q \in Query |-> "new"]
    /\ leader = [q \in Query |-> None]
    /\ racing = [q \in Query |-> {}]
    /\ ch = [q \in Query |-> <<>>]
    /\ failed = [q \in Query |-> {}]
    /\ cancelled = [q \in Query |-> FALSE]
    /\ result = [q \in Query |-> None]
    /\ reply = [q \in Query |-> None]

race == <<racing, ch, failed, cancelled>>

Via(q) == IF Ask[q].tcp THEN "tcp" ELSE "udp"
Listening(q) == listener[Via(q)] = "serving"

(* ServeDNS is entered and its early checks pass...                        *)
Receive(q) ==
    /\ pc[q] = "new" /\ Listening(q) /\ Go(q, "lookup")
    /\ UNCHANGED <<cache, flight, listener, stop, leader, race, result, reply>>

(* ... or not: an oversized message, one over the rate limit, or one       *)
(* without a question.                                                     *)
Reject(q) ==
    /\ pc[q] = "new" /\ Listening(q) /\ Go(q, "done")
    /\ reply' = [reply EXCEPT ![q] = Rejected]
    /\ UNCHANGED <<cache, flight, listener, stop, leader, race, result>>

(* s.cache.Get: an entry of q's key is answered with at once.              *)
Lookup(q) ==
    /\ pc[q] = "lookup"
    /\ IF cache[KeyOf(q)] # None
         THEN /\ reply' = [reply EXCEPT ![q] = CopyFor(q, cache[KeyOf(q)])]
              /\ Go(q, "done")
         ELSE Go(q, "join") /\ UNCHANGED reply
    /\ UNCHANGED <<cache, flight, listener, stop, leader, race, result>>

(* The entry of k expires or is evicted.                                   *)
Forget(k) ==
    /\ cache[k] # None
    /\ cache' = [cache EXCEPT ![k] = None]
    /\ UNCHANGED <<flight, listener, stop, pc, leader, race, result, reply>>

(* s.sf.Do: wait for the flight of the same key, or lead a new one, which  *)
(* starts one exchange per upstream.  The cache is not looked at again.    *)
Join(q) ==
    /\ pc[q] = "join"
    /\ IF flight[KeyOf(q)] # None
         THEN /\ leader' = [leader EXCEPT ![q] = flight[KeyOf(q)]]
              /\ Go(q, "wait") /\ UNCHANGED <<flight, racing>>
         ELSE /\ leader' = [leader EXCEPT ![q] = q]
              /\ flight' = [flight EXCEPT ![KeyOf(q)] = q]
              /\ racing' = [racing EXCEPT ![q] = Upstream]
              /\ Go(q, "race")
    /\ UNCHANGED <<cache, listener, stop, ch, failed, cancelled, result, reply>>

Interrupted(q) == cancelled[q] \/ stop # "no"

(* The channel has room for every result; nobody reads those that come     *)
(* when the race is over.                                                  *)
Send(q, u, r) ==
    ch' = IF cancelled[q] THEN ch ELSE [ch EXCEPT ![q] = Append(@, [from |-> u, resp |-> r])]

ExchangeUnbuffered(q, u) ==
    /\ u \in racing[q] /\ ~cancelled[q]
    /\ racing' = [racing EXCEPT ![q] = @ \ {u}]
    /\ \/ \E a \in Answer[u] : Send(q, u, ResponseTo(q, a))
       \/ (u \notin Healthy \/ Interrupted(q)) /\ Send(q, u, Failure)
    /\ UNCHANGED <<cache, flight, listener, stop, pc, leader, failed, cancelled, result, reply>>
(* An exchange ends, with an answer or with a failure: an error, an empty  *)
(* response, SERVFAIL, the context cancelled or timed out.                 *)
Exchange(q, u) ==
    /\ u \in racing[q]
    /\ racing' = [racing EXCEPT ![q] = @ \ {u}]
    /\ \/ \E a \in Answer[u] : Send(q, u, ResponseTo(q, a))
       \/ (u \notin Healthy \/ Interrupted(q)) /\ Send(q, u, Failure)
    /\ UNCHANGED <<cache, flight, listener, stop, pc, leader, failed, cancelled, result, reply>>

Won(q) == pc[q] = "race" /\ ch[q] # <<>> /\ Head(ch[q]).resp # Failure
Lost(q) == pc[q] = "race" /\ ch[q] # <<>> /\ Head(ch[q]).resp = Failure

(* s.cache.Put *)
Put(q, r) == cache' = IF r.cacheable THEN [cache EXCEPT ![KeyOf(q)] = r] ELSE cache

(* resolveRace receives its first response: the others are cancelled, the  *)
(* response is stored and returned.                                        *)
Win(q) ==
    /\ Won(q) /\ Go(q, "leave")
    /\ cancelled' = [cancelled EXCEPT ![q] = TRUE]
    /\ result' = [result EXCEPT ![q] = Head(ch[q]).resp]
    /\ Put(q, Head(ch[q]).resp)
    /\ ch' = [ch EXCEPT ![q] = <<>>]
    /\ UNCHANGED <<flight, listener, stop, leader, racing, failed, reply>>

LoseAtOnce(q) ==
    /\ Lost(q)
    /\ failed' = [failed EXCEPT ![q] = @ \cup {Head(ch[q]).from}]
    /\ ch' = [ch EXCEPT ![q] = Tail(@)]
    /\ Go(q, "leave")
    /\ cancelled' = [cancelled EXCEPT ![q] = TRUE]
    /\ result' = [result EXCEPT ![q] = Failure]
    /\ UNCHANGED <<cache, flight, listener, stop, leader, racing, reply>>
(* resolveRace receives a failure; the last one ends the race, and the     *)
(* deferred rcancel runs.                                                  *)
Lose(q) ==
    /\ Lost(q)
    /\ failed' = [failed EXCEPT ![q] = @ \cup {Head(ch[q]).from}]
    /\ ch' = [ch EXCEPT ![q] = Tail(@)]
    /\ IF failed'[q] = Upstream
         THEN /\ Go(q, "leave")
              /\ cancelled' = [cancelled EXCEPT ![q] = TRUE]
              /\ result' = [result EXCEPT ![q] = Failure]
         ELSE UNCHANGED <<pc, cancelled, result>>
    /\ UNCHANGED <<cache, flight, listener, stop, leader, racing, reply>>

LeaveOccupied(q) ==
    /\ pc[q] = "leave" /\ Go(q, "reply")
    /\ flight' = IF result[q] = Failure THEN flight ELSE [flight EXCEPT ![KeyOf(q)] = None]
    /\ failed' = [failed EXCEPT ![q] = {}]
    /\ UNCHANGED <<cache, listener, stop, leader, racing, ch, cancelled, result, reply>>
(* singleflight takes the call out of its table.                           *)
Leave(q) ==
    /\ pc[q] = "leave" /\ Go(q, "reply")
    /\ flight' = [flight EXCEPT ![KeyOf(q)] = None]
    /\ failed' = [failed EXCEPT ![q] = {}]
    /\ UNCHANGED <<cache, listener, stop, leader, racing, ch, cancelled, result, reply>>

(* A coalesced handler is given the result, once the leader has left.      *)
Wake(q) ==
    /\ pc[q] = "wait" /\ pc[leader[q]] \in {"reply", "done"} /\ Go(q, "reply")
    /\ UNCHANGED <<cache, flight, listener, stop, leader, race, result, reply>>

(* ServeDNS writes SERVFAIL, or its own copy of the shared response.       *)
Reply(q) ==
    /\ pc[q] = "reply" /\ Go(q, "done")
    /\ LET r == result[leader[q]]
       IN reply' = [reply EXCEPT ![q] = IF r = Failure THEN Servfail ELSE CopyFor(q, r)]
    /\ UNCHANGED <<cache, flight, listener, stop, leader, race, result>>

(* A goroutine of Serve enters ActivateAndServe, however late...           *)
Activate(l) ==
    /\ listener[l] = "bound" /\ listener' = [listener EXCEPT ![l] = "serving"]
    /\ UNCHANGED <<cache, flight, stop, pc, leader, race, result, reply>>

(* ... and its loop ends by itself, with an error.                         *)
Break(l) ==
    /\ listener[l] = "serving" /\ listener' = [listener EXCEPT ![l] = "failed"]
    /\ UNCHANGED <<cache, flight, stop, pc, leader, race, result, reply>>

Idle(l) == \A q \in Query : Via(q) = l => pc[q] \notin Busy

(* Stop closes the DoT clients and cancels the context of every race.      *)
Cancel ==
    /\ stop = "no" /\ stop' = "cancelled"
    /\ UNCHANGED <<cache, flight, listener, pc, leader, race, result, reply>>

(* It is called by Serve, when its context is done...                      *)
StopCancel == Cancel

ServeErrorOfBoth == (\A l \in DOMAIN listener : listener[l] = "failed" /\ Idle(l)) /\ Cancel
(* ... or when either loop has ended and waited for its handlers.          *)
ServeError == (\E l \in DOMAIN listener : listener[l] = "failed" /\ Idle(l)) /\ Cancel

(* Shutdown of a listener that does not serve yet is an ignored error and  *)
(* leaves it bound; one that serves takes no more queries.                 *)
BeginShutdown(l) ==
    /\ stop' = l
    /\ listener' = IF listener[l] = "bound" THEN listener ELSE [listener EXCEPT ![l] = "closing"]

(* It ends when the handlers are done.                                     *)
EndShutdown(l) == listener[l] = "closing" => Idle(l)

(* Stop shuts the UDP listener, then the TCP one.                          *)
Shutdown ==
    /\ \/ stop = "cancelled" /\ BeginShutdown("udp")
       \/ stop = "udp" /\ EndShutdown("udp") /\ BeginShutdown("tcp")
       \/ stop = "tcp" /\ EndShutdown("tcp") /\ stop' = "done" /\ UNCHANGED listener
    /\ UNCHANGED <<cache, flight, pc, leader, race, result, reply>>

Handle(q) ==
    \/ Lookup(q) \/ Join(q) \/ Win(q) \/ Lose(q) \/ Leave(q) \/ Wake(q) \/ Reply(q)

(* What the goroutines started for q do.                                   *)
Work(q) == Handle(q) \/ \E u \in Upstream : Exchange(q, u)

Next ==
    \/ \E q \in Query : Receive(q) \/ Reject(q) \/ Work(q)
    \/ \E k \in Key : Forget(k)
    \/ \E l \in DOMAIN listener : Activate(l) \/ Break(l)
    \/ StopCancel \/ ServeError \/ Shutdown

Spec == Init /\ [][Next]_vars

(* One of the goroutines that can run does, every exchange having a        *)
(* deadline; Serve sees a loop that ended, and Stop goes on once begun.    *)
(* Nothing is obliged to come, to break or to expire.                      *)
Fairness ==
    /\ WF_vars(\E q \in Query : Work(q))
    /\ WF_vars(ServeError \/ Shutdown)
-------------------------------------------------------------------------------
(* Properties                                                              *)

Answered(q) == reply[q] \notin {None, Servfail, Rejected}

(* Type invariant. *)
TypeOK ==
    /\ cache \in [Key -> Responses \cup {None}]
    /\ flight \in [Key -> Query \cup {None}]
    /\ listener \in [{"udp", "tcp"} -> {"bound", "serving", "failed", "closing"}]
    /\ stop \in {"no", "cancelled", "udp", "tcp", "done"}
    /\ pc \in [Query -> Steps]
    /\ leader \in [Query -> Query \cup {None}]
    /\ racing \in [Query -> SUBSET Upstream]
    /\ ch \in [Query -> Seq(RaceResult)]
    /\ failed \in [Query -> SUBSET Upstream]
    /\ cancelled \in [Query -> BOOLEAN]
    /\ result \in [Query -> Responses \cup {None, Failure}]
    /\ reply \in [Query -> Replies \cup {None, Servfail, Rejected}]

(* Whether from its own race, another handler's or the cache, a client     *)
(* gets an answer with its own Id, for the name and the DO bit it asked    *)
(* for.  The name is in its own letters when the answer is from its own    *)
(* race; otherwise it is spelled as by whoever led the race.               *)
OwnReply ==
    \A q \in Query : Answered(q) =>
        /\ reply[q].id = q
        /\ Canonical[reply[q].name] = Canonical[Ask[q].name]
        /\ reply[q].do = Ask[q].do
        /\ leader[q] = q => reply[q].name = Ask[q].name

(* One upstream that answers is enough: until Stop, no client that passed  *)
(* the early checks is told SERVFAIL while an upstream is healthy.         *)
NoFalseServfail ==
    Healthy # {} /\ stop = "no" => \A q \in Query : result[q] # Failure

(* The races that go on are those of singleflight's table: equal questions *)
(* are never raced twice at the same time, and what a query is coalesced   *)
(* into is a race under way, so that no result of the past is served but   *)
(* through the cache.                                                      *)
RacesAreFlights ==
    \A q \in Query : pc[q] \in {"race", "leave"} <=> flight[KeyOf(q)] = q

(* Every query received is answered, also while the server stops, and what *)
(* was started for it ends: no loser of its race waits to send for ever.   *)
QueryEnds == []<>(\A q \in Query : pc[q] \notin Busy /\ racing[q] = {})

(* A listener that breaks, like a stop, ends both: Serve comes back from   *)
(* Stop however many queries are in flight, so that its caller can restore *)
(* the system's DNS.                                                       *)
ServeReturns ==
    (stop = "cancelled" \/ \E l \in DOMAIN listener : listener[l] = "failed") ~> (stop = "done")

(* "This signals the client to retry over TCP for the full response": a    *)
(* TCP client is given the full response.                                  *)
TcpIsWhole == \A q \in Query : Answered(q) /\ Ask[q].tcp => ~reply[q].tc

===============================================================================
