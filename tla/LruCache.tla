-------------------------------- MODULE LruCache --------------------------------
(***************************************************************************)
(* The response cache of dns/cache.go: a map and a recency list under one  *)
(* mutex (each of Get and Put is one step), entries that expire after      *)
(* their TTL clamped to [MinTtl, MaxTtl], the least recently used one      *)
(* evicted when the cache is full.                                         *)
(***************************************************************************)
EXTENDS Integers, Sequences, FiniteSets, SequencesExt

CONSTANTS
    Key,        \* cache keys: class, type, name and DO bit of a question
    Size,       \* capacity; a cache of size 0 is disabled
    Ttl,        \* the TTLs upstream records carry
    MinTtl,     \* lower clamp (30 s), in ticks
    MaxTtl,     \* upper clamp (1 h), in ticks
    MaxTime,    \* bound on the clock
    NoTtl       \* a response that carries no record (minTTL and negativeTTL: 0)

ASSUME LruCacheAssumption ==
    /\ Size \in Nat /\ MaxTime \in Nat
    /\ Ttl \subseteq Nat
    /\ MinTtl \in Nat \ {0} /\ MaxTtl \in Nat /\ MinTtl <= MaxTtl
    /\ NoTtl \notin Nat

VARIABLES
    now,        \* the clock
    m,          \* the keys of the map
    ll,         \* the recency list, most recently used key first
    entry,      \* entry[k]: what the list's element for k holds
    served,     \* ghost: the age and the TTL of the last answer Get returned
    used        \* ghost: the keys in the order of their last use, latest first

vars == <<now, m, ll, entry, served, used>>
-------------------------------------------------------------------------------
(* Responses.  rcode: NOERROR with answers, NXDOMAIN or no answers (the    *)
(* negative answers), or anything else.                                    *)
Rcodes == {"success", "negative", "other"}
Response == [rcode : Rcodes, ttl : Ttl \cup {NoTtl}]

Clamp(t) == IF t < MinTtl THEN MinTtl ELSE IF t > MaxTtl THEN MaxTtl ELSE t

(* The TTL Put stores r for, 0 when it does not store it.  minTTL of 0, as *)
(* of a record (or an OPT pseudo-record) with TTL 0, is not stored, while  *)
(* negativeTTL clamps before the test.                                     *)
StoredTtl(r) ==
    CASE r.rcode = "other" \/ r.ttl = NoTtl -> 0
      [] r.rcode = "success" /\ r.ttl = 0 -> 0
      [] OTHER -> Clamp(r.ttl)

NoEntry == [fetched |-> 0, ttl |-> 0, expiry |-> 0]

Init ==
    /\ now = 0
    /\ m = {} /\ ll = <<>>
    /\ entry = [k \in Key |-> NoEntry]
    /\ served = [age |-> 0, ttl |-> 0]
    /\ used = <<>>

(* s without its element k: list.Remove.                                   *)
Without(s, k) ==
    IF k \in ToSet(s) THEN RemoveAt(s, CHOOSE i \in DOMAIN s : s[i] = k) ELSE s

(* s with k moved, or pushed, to its front.                                *)
ToFront(s, k) == <<k>> \o Without(s, k)

Use(k) == used' = ToFront(used, k) /\ UNCHANGED now
Serve(k) == served' = [age |-> now - entry[k].fetched, ttl |-> entry[k].ttl]

GetStale(k) ==
    /\ Size > 0 /\ k \in m /\ ll' = ToFront(ll, k)
    /\ Serve(k)
    /\ Use(k) /\ UNCHANGED <<m, entry>>
GetNoTouch(k) ==
    /\ Size > 0 /\ k \in m /\ now <= entry[k].expiry
    /\ Serve(k)
    /\ Use(k) /\ UNCHANGED <<m, ll, entry>>
(* Get finds a fresh entry: it moves to the front, and a copy is returned  *)
(* with the TTLs the upstream sent.                                        *)
GetHit(k) ==
    /\ Size > 0 /\ k \in m /\ now <= entry[k].expiry
    /\ ll' = ToFront(ll, k)
    /\ Serve(k)
    /\ Use(k) /\ UNCHANGED <<m, entry>>

GetExpiredKeepsList(k) ==
    /\ Size > 0 /\ k \in m /\ now > entry[k].expiry
    /\ m' = m \ {k} /\ entry' = [entry EXCEPT ![k] = NoEntry]
    /\ UNCHANGED <<now, ll, served, used>>
(* Get finds an expired entry and removes it.                              *)
GetExpired(k) ==
    /\ Size > 0 /\ k \in m /\ now > entry[k].expiry
    /\ m' = m \ {k} /\ ll' = Without(ll, k)
    /\ entry' = [entry EXCEPT ![k] = NoEntry]
    /\ UNCHANGED <<now, served, used>>

(* The entry Put makes of response r.                                      *)
Stored(r) == [fetched |-> now, ttl |-> r.ttl, expiry |-> now + StoredTtl(r)]

(* Put replaces the entry of its key.                                      *)
PutAgain(k, r) ==
    /\ Size > 0 /\ k \in m /\ StoredTtl(r) # 0
    /\ ll' = ToFront(ll, k)
    /\ entry' = [entry EXCEPT ![k] = Stored(r)]
    /\ Use(k) /\ UNCHANGED <<m, served>>

(* Put makes a new entry and, when there is one too many, evicts the last. *)
PutNew(k, r) ==
    /\ Size > 0 /\ k \notin m /\ StoredTtl(r) # 0
    /\ LET longer == <<k>> \o ll IN
       IF Len(longer) > Size
         THEN /\ ll' = Front(longer)
              /\ m' = (m \cup {k}) \ {Last(longer)}
              /\ entry' = [entry EXCEPT ![k] = Stored(r), ![Last(longer)] = NoEntry]
         ELSE /\ ll' = longer /\ m' = m \cup {k}
              /\ entry' = [entry EXCEPT ![k] = Stored(r)]
    /\ Use(k) /\ UNCHANGED served

Tick ==
    /\ now < MaxTime /\ now' = now + 1
    /\ UNCHANGED <<m, ll, entry, served, used>>

Next ==
    \/ Tick
    \/ \E k \in Key : GetHit(k) \/ GetExpired(k)
    \/ \E k \in Key, r \in Response : PutAgain(k, r) \/ PutNew(k, r)

Spec == Init /\ [][Next]_vars
-------------------------------------------------------------------------------
(* Properties                                                              *)

(* Type invariant. *)
TypeOK ==
    /\ now \in 0..MaxTime
    /\ m \subseteq Key /\ ll \in Seq(Key) /\ used \in Seq(Key)
    /\ entry \in [Key -> [fetched : Nat, ttl : Ttl \cup {0}, expiry : Nat]]
    /\ served \in [age : Int, ttl : Ttl \cup {0}]

(* The map and the list agree: every key of the map is in the list, once,  *)
(* nothing else is, and there are never more than Size of them.            *)
MapMatchesList ==
    /\ ToSet(ll) = m /\ Cardinality(m) = Len(ll)
    /\ Len(ll) <= Size

(* A fresh entry is lost only to the insertion that needs its place, and   *)
(* every entry that stays was used more recently.                          *)
EvictsLeastRecent ==
    [][\A k \in m \ m' : now <= entry[k].expiry =>
         /\ Cardinality(m) = Size
         /\ \A i, j \in DOMAIN used : used[i] \in m \cap m' /\ used[j] = k => i < j]_vars

(* Get never returns an answer later than its clamped TTL after the        *)
(* upstream gave it.                                                       *)
NeverServedLate == served.age <= Clamp(served.ttl)

===============================================================================
