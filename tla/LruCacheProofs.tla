----------------------------- MODULE LruCacheProofs -----------------------------
(***************************************************************************)
(* Proofs about LruCache, for any keys and capacity, any TTLs and clamps   *)
(* and a bound on the clock as high as one likes.                          *)
(***************************************************************************)
EXTENDS LruCache, SequenceTheorems, FiniteSetTheorems, TLAPS

(* No element of s comes twice.                                            *)
Distinct(s) == \A i, j \in 1..Len(s) : s[i] = s[j] => i = j

(* x comes before y in s.                                                  *)
Before(s, x, y) == \E i, j \in 1..Len(s) : i < j /\ s[i] = x /\ s[j] = y

(* The list and the map have the same keys.                                *)
Linked == Distinct(ll) /\ ToSet(ll) = m /\ Len(ll) <= Size

(* The list has its keys in the order of their last use.                   *)
Ordered ==
    /\ Distinct(used) /\ m \subseteq ToSet(used)
    /\ \A x, y \in Key : Before(ll, x, y) => Before(used, x, y)

(* An entry of the map expires when its clamped TTL has passed.            *)
Dated ==
    \A k \in m : /\ entry[k].ttl \in Ttl
                 /\ entry[k].expiry = entry[k].fetched + Clamp(entry[k].ttl)

(* The inductive invariant.                                                *)
IInv == TypeOK /\ Linked /\ Ordered /\ Dated /\ NeverServedLate

-------------------------------------------------------------------------------
(* Lists                                                                   *)

(* The elements of a list are what its places hold.                        *)
LEMMA ToSetIs ==
    ASSUME NEW s \in Seq(Key)
    PROVE  /\ Len(s) \in Nat
           /\ \A i \in 1..Len(s) : s[i] \in ToSet(s) /\ s[i] \in Key
           /\ \A x \in ToSet(s) : \E i \in 1..Len(s) : s[i] = x
BY LenProperties DEF ToSet

(* What is left of a list, place by place.                                 *)
LEMMA WithoutPlaces ==
    ASSUME NEW s \in Seq(Key), NEW k \in ToSet(s)
    PROVE  /\ Without(s, k) \in Seq(Key) /\ Len(Without(s, k)) = Len(s) - 1
           /\ \E p \in 1..Len(s) :
                /\ s[p] = k
                /\ \A i \in 1..(Len(s) - 1) :
                     Without(s, k)[i] = IF i < p THEN s[i] ELSE s[i + 1]
<1>1. PICK p : p = CHOOSE i \in DOMAIN s : s[i] = k
  OBVIOUS
<1>2. p \in 1..Len(s) /\ s[p] = k /\ Len(s) \in Nat
  BY <1>1, LenProperties DEF ToSet
<1>3. PICK a, b : a = SubSeq(s, 1, p - 1) /\ b = SubSeq(s, p + 1, Len(s))
  OBVIOUS
<1>4. Without(s, k) = a \o b
  BY <1>1, <1>3 DEF Without, RemoveAt
<1>5. /\ a \in Seq(Key) /\ Len(a) = p - 1
      /\ \A i \in 1..(p - 1) : a[i] = s[i]
  <2>1. \A i \in 1..(p - 1) : s[i] \in Key
    BY <1>2
  <2>2. /\ a \in Seq(Key) /\ Len(a) = IF 1 <= p - 1 THEN p - 1 - 1 + 1 ELSE 0
        /\ \A i \in 1..(p - 1 - 1 + 1) : a[i] = s[1 + i - 1]
    BY <1>2, <1>3, <2>1, SubSeqProperties
  <2> QED BY <1>2, <2>2
<1>6. /\ b \in Seq(Key) /\ Len(b) = Len(s) - p
      /\ \A i \in 1..(Len(s) - p) : b[i] = s[p + i]
  <2>1. \A i \in (p + 1)..Len(s) : s[i] \in Key
    BY <1>2
  <2>2. /\ b \in Seq(Key) /\ Len(b) = IF p + 1 <= Len(s) THEN Len(s) - (p + 1) + 1 ELSE 0
        /\ \A i \in 1..(Len(s) - (p + 1) + 1) : b[i] = s[p + 1 + i - 1]
    BY <1>2, <1>3, <2>1, SubSeqProperties
  <2> QED BY <1>2, <2>2
<1>7. /\ a \o b \in Seq(Key) /\ Len(a \o b) = Len(a) + Len(b)
      /\ \A i \in 1..(Len(a) + Len(b)) : (a \o b)[i] = IF i <= Len(a) THEN a[i] ELSE b[i - Len(a)]
  BY <1>5, <1>6, ConcatProperties
<1>8. Len(a) + Len(b) = Len(s) - 1
  BY <1>2, <1>5, <1>6
<1>9. ASSUME NEW i \in 1..(Len(s) - 1)
      PROVE  Without(s, k)[i] = IF i < p THEN s[i] ELSE s[i + 1]
  <2>1. (a \o b)[i] = IF i <= p - 1 THEN a[i] ELSE b[i - (p - 1)]
    BY <1>5, <1>7, <1>8
  <2>2. CASE i < p
    BY <1>2, <1>4, <1>5, <2>1, <2>2
  <2>3. CASE ~(i < p)
    <3>1. i - (p - 1) \in 1..(Len(s) - p) /\ p + (i - (p - 1)) = i + 1 /\ ~(i <= p - 1)
      BY <1>2, <2>3
    <3> QED BY <1>4, <1>6, <2>1, <2>3, <3>1
  <2> QED BY <2>2, <2>3
<1> QED BY <1>2, <1>4, <1>7, <1>8, <1>9

(* list.Remove takes one key out and leaves the others as they were.       *)
LEMMA Removed ==
    ASSUME NEW s \in Seq(Key), Distinct(s), NEW k,
           NEW t, t = Without(s, k)
    PROVE  /\ t \in Seq(Key) /\ Distinct(t) /\ ToSet(t) = ToSet(s) \ {k}
           /\ Len(t) = IF k \in ToSet(s) THEN Len(s) - 1 ELSE Len(s)
           /\ \A x, y : Before(t, x, y) <=> Before(s, x, y) /\ x # k /\ y # k
<1>1. CASE k \notin ToSet(s)
  <2>1. t = s
    BY <1>1 DEF Without
  <2> QED BY <1>1, <2>1, ToSetIs DEF Before
<1>2. CASE k \in ToSet(s)
  <2>1. PICK p \in 1..Len(s) :
          s[p] = k /\ \A i \in 1..(Len(s) - 1) : t[i] = IF i < p THEN s[i] ELSE s[i + 1]
    BY <1>2, WithoutPlaces
  <2>2. t \in Seq(Key) /\ Len(t) = Len(s) - 1 /\ Len(s) \in Nat
    BY <1>2, WithoutPlaces, ToSetIs
  (* Where an element of t was, and where one of s has gone.               *)
  <2>3. ASSUME NEW i \in 1..Len(t)
        PROVE  \E h \in 1..Len(s) : h = (IF i < p THEN i ELSE i + 1) /\ t[i] = s[h] /\ h # p
    BY <2>1, <2>2
  <2>4. ASSUME NEW h \in 1..Len(s), h # p
        PROVE  \E i \in 1..Len(t) : i = (IF h < p THEN h ELSE h - 1) /\ t[i] = s[h]
    <3>1. CASE h < p
      BY <2>1, <2>2, <3>1
    <3>2. CASE h > p
      <4>1. h - 1 \in 1..(Len(s) - 1) /\ ~(h - 1 < p) /\ h - 1 + 1 = h /\ ~(h < p)
        BY <2>2, <3>2
      <4> QED BY <2>1, <2>2, <4>1
    <3> QED BY <2>2, <2>4, <3>1, <3>2
  <2>5. \A h \in 1..Len(s) : s[h] = k <=> h = p
    BY <2>1 DEF Distinct
  <2>6. Distinct(t)
    BY <2>2, <2>3 DEF Distinct
  <2>7. ToSet(t) = ToSet(s) \ {k}
    <3>1. ToSet(s) = {s[h] : h \in 1..Len(s)} /\ ToSet(t) = {t[i] : i \in 1..Len(t)}
      BY <2>2, LenProperties DEF ToSet
    <3>2. \A i \in 1..Len(t) : t[i] \in ToSet(s) \ {k}
      BY <2>3, <2>5, <3>1
    <3>3. \A h \in 1..Len(s) : s[h] # k => s[h] \in ToSet(t)
      BY <2>4, <2>5, <3>1
    <3>4. ToSet(t) \subseteq ToSet(s) \ {k}
      BY <3>1, <3>2
    <3>5. ToSet(s) \ {k} \subseteq ToSet(t)
      BY <3>1, <3>3
    <3> QED BY <3>4, <3>5
  <2>8. ASSUME NEW x, NEW y
        PROVE  Before(t, x, y) <=> Before(s, x, y) /\ x # k /\ y # k
    <3>1. ASSUME Before(t, x, y) PROVE Before(s, x, y) /\ x # k /\ y # k
      <4>1. PICK i, j \in 1..Len(t) : i < j /\ t[i] = x /\ t[j] = y
        BY <3>1 DEF Before
      <4>2. PICK g \in 1..Len(s) : g = (IF i < p THEN i ELSE i + 1) /\ t[i] = s[g] /\ g # p
        BY <2>3
      <4>3. PICK h \in 1..Len(s) : h = (IF j < p THEN j ELSE j + 1) /\ t[j] = s[h] /\ h # p
        BY <2>3
      <4>4. g < h
        BY <2>2, <4>1, <4>2, <4>3
      <4> QED BY <2>5, <4>1, <4>2, <4>3, <4>4 DEF Before
    <3>2. ASSUME Before(s, x, y), x # k, y # k PROVE Before(t, x, y)
      <4>1. PICK g, h \in 1..Len(s) : g < h /\ s[g] = x /\ s[h] = y
        BY <3>2 DEF Before
      <4>2. PICK i \in 1..Len(t) : i = (IF g < p THEN g ELSE g - 1) /\ t[i] = s[g]
        BY <2>4, <2>5, <3>2, <4>1
      <4>3. PICK j \in 1..Len(t) : j = (IF h < p THEN h ELSE h - 1) /\ t[j] = s[h]
        BY <2>4, <2>5, <3>2, <4>1
      <4>4. g # p /\ h # p
        BY <2>5, <3>2, <4>1
      <4>5. i < j
        BY <2>2, <4>1, <4>2, <4>3, <4>4
      <4> QED BY <4>1, <4>2, <4>3, <4>5 DEF Before
    <3> QED BY <3>1, <3>2
  <2> QED BY <1>2, <2>2, <2>6, <2>7, <2>8
<1> QED BY <1>1, <1>2

Push(s, k) == <<k>> \o s

(* list.PushFront of a key that is not in the list.                        *)
LEMMA Pushed ==
    ASSUME NEW s \in Seq(Key), Distinct(s), NEW k \in Key, k \notin ToSet(s),
           NEW t, t = Push(s, k)
    PROVE  /\ t \in Seq(Key) /\ Distinct(t) /\ ToSet(t) = ToSet(s) \cup {k}
           /\ Len(t) = Len(s) + 1
           /\ Len(s) > 0 => t[Len(t)] = s[Len(s)]
           /\ \A x, y : Before(t, x, y) <=> Before(s, x, y) \/ (x = k /\ y \in ToSet(s))
<1>1. <<k>> \in Seq(Key) /\ Len(<<k>>) = 1 /\ <<k>>[1] = k
  OBVIOUS
<1>2. /\ t \in Seq(Key) /\ Len(t) = Len(s) + 1 /\ Len(s) \in Nat
      /\ \A i \in 1..(Len(s) + 1) : t[i] = IF i <= 1 THEN <<k>>[i] ELSE s[i - 1]
  <2>1. /\ t \in Seq(Key) /\ Len(t) = 1 + Len(s)
        /\ \A i \in 1..(1 + Len(s)) : t[i] = IF i <= 1 THEN <<k>>[i] ELSE s[i - 1]
    BY <1>1, ConcatProperties DEF Push
  <2> QED BY <2>1, LenProperties
<1>3. t[1] = k
  BY <1>1, <1>2
<1>4. \A i \in 1..Len(s) : t[i + 1] = s[i] /\ i + 1 \in 1..Len(t)
  <2> TAKE i \in 1..Len(s)
  <2>1. i + 1 \in 1..(Len(s) + 1) /\ ~(i + 1 <= 1) /\ i + 1 - 1 = i
    BY <1>2
  <2> QED BY <1>2, <2>1
<1>5. \A i \in 1..Len(t) : i = 1 \/ (i - 1 \in 1..Len(s) /\ t[i] = s[i - 1])
  BY <1>2
<1>6. \A i \in 1..Len(s) : s[i] # k
  BY ToSetIs
<1>7. Distinct(t)
  <2> SUFFICES ASSUME NEW i \in 1..Len(t), NEW j \in 1..Len(t), t[i] = t[j] PROVE i = j
    BY DEF Distinct
  <2>1. CASE i = 1 \/ j = 1
    BY <1>3, <1>5, <1>6, <2>1
  <2>2. CASE i # 1 /\ j # 1
    <3>1. i - 1 \in 1..Len(s) /\ j - 1 \in 1..Len(s) /\ s[i - 1] = s[j - 1]
      BY <1>5, <2>2
    <3>2. i - 1 = j - 1
      BY <3>1 DEF Distinct
    <3> QED BY <1>2, <3>2
  <2> QED BY <2>1, <2>2
<1>8. ToSet(t) = ToSet(s) \cup {k}
  <2>1. ToSet(s) = {s[h] : h \in 1..Len(s)} /\ ToSet(t) = {t[i] : i \in 1..Len(t)}
    BY <1>2, LenProperties DEF ToSet
  <2>2. 1 \in 1..Len(t)
    BY <1>2
  <2> QED BY <1>3, <1>4, <1>5, <2>1, <2>2
<1>9. ASSUME NEW x, NEW y
      PROVE  Before(t, x, y) <=> Before(s, x, y) \/ (x = k /\ y \in ToSet(s))
  <2>1. ASSUME Before(t, x, y) PROVE Before(s, x, y) \/ (x = k /\ y \in ToSet(s))
    <3>1. PICK i, j \in 1..Len(t) : i < j /\ t[i] = x /\ t[j] = y
      BY <2>1 DEF Before
    <3>2. j - 1 \in 1..Len(s) /\ y = s[j - 1]
      BY <1>2, <1>5, <3>1
    <3>3. CASE i = 1
      BY <1>3, <3>1, <3>2, <3>3, ToSetIs
    <3>4. CASE i # 1
      <4>1. i - 1 \in 1..Len(s) /\ x = s[i - 1] /\ i - 1 < j - 1
        BY <1>2, <1>5, <3>1, <3>4
      <4> QED BY <3>2, <4>1 DEF Before
    <3> QED BY <3>3, <3>4
  <2>2. ASSUME Before(s, x, y) PROVE Before(t, x, y)
    <3>1. PICK i, j \in 1..Len(s) : i < j /\ s[i] = x /\ s[j] = y
      BY <2>2 DEF Before
    <3>2. i + 1 \in 1..Len(t) /\ j + 1 \in 1..Len(t) /\ i + 1 < j + 1
      BY <1>2, <3>1
    <3> QED BY <1>4, <3>1, <3>2 DEF Before
  <2>3. ASSUME x = k, y \in ToSet(s) PROVE Before(t, x, y)
    <3>1. PICK j \in 1..Len(s) : s[j] = y
      BY <2>3, ToSetIs
    <3>2. 1 \in 1..Len(t) /\ j + 1 \in 1..Len(t) /\ 1 < j + 1
      BY <1>2
    <3> QED BY <1>3, <1>4, <2>3, <3>1, <3>2 DEF Before
  <2> QED BY <2>1, <2>2, <2>3
<1>10. Len(s) > 0 => t[Len(t)] = s[Len(s)]
  BY <1>2, <1>4
<1> QED BY <1>2, <1>7, <1>8, <1>9, <1>10

(* The list without duplicates is as long as its set is large.             *)
LEMMA DistinctCount ==
    ASSUME NEW s \in Seq(Key), Distinct(s)
    PROVE  Cardinality(ToSet(s)) = Len(s)
<1>1. Len(s) \in Nat /\ s \in [1..Len(s) -> ToSet(s)]
  BY LenProperties DEF ToSet
<1>2. s \in Bijection(1..Len(s), ToSet(s))
  BY <1>1, ToSetIs DEF Bijection, Injection, Surjection, IsInjective, Distinct
<1>3. /\ IsFiniteSet(1..Len(s))
      /\ Cardinality(1..Len(s)) = IF 1 > Len(s) THEN 0 ELSE Len(s) - 1 + 1
  BY <1>1, FS_Interval
<1>4. ExistsBijection(1..Len(s), ToSet(s))
  BY <1>2 DEF ExistsBijection
<1>5. Cardinality(ToSet(s)) = Cardinality(1..Len(s))
  BY <1>3, <1>4, FS_Bijection
<1> QED BY <1>1, <1>3, <1>5

(* What a use of a key does to the order of uses, and what a move to the   *)
(* front does to the list.                                                 *)
LEMMA ToFrontIs ==
    ASSUME NEW s \in Seq(Key), Distinct(s), NEW k \in Key
    PROVE  /\ ToFront(s, k) \in Seq(Key) /\ Distinct(ToFront(s, k))
           /\ ToSet(ToFront(s, k)) = ToSet(s) \cup {k}
           /\ Len(ToFront(s, k)) = IF k \in ToSet(s) THEN Len(s) ELSE Len(s) + 1
           /\ \A x, y : Before(ToFront(s, k), x, y) <=>
                \/ Before(s, x, y) /\ x # k /\ y # k
                \/ x = k /\ y \in ToSet(s) \ {k}
<1>1. PICK r, t : r = Without(s, k) /\ t = ToFront(s, k)
  OBVIOUS
<1>2. /\ r \in Seq(Key) /\ Distinct(r) /\ ToSet(r) = ToSet(s) \ {k}
      /\ Len(r) = IF k \in ToSet(s) THEN Len(s) - 1 ELSE Len(s)
      /\ \A x, y : Before(r, x, y) <=> Before(s, x, y) /\ x # k /\ y # k
  BY <1>1, Removed
<1>3. /\ t \in Seq(Key) /\ Distinct(t) /\ ToSet(t) = ToSet(r) \cup {k}
      /\ Len(t) = Len(r) + 1
      /\ \A x, y : Before(t, x, y) <=> Before(r, x, y) \/ (x = k /\ y \in ToSet(r))
  <2>1. k \notin ToSet(r)
    BY <1>2
  <2>2. t = Push(r, k)
    BY <1>1 DEF ToFront, Push
  <2>3. r \in Seq(Key) /\ Distinct(r)
    BY <1>2
  <2> QED BY <2>1, <2>2, <2>3, Pushed
<1>4. Len(t) = IF k \in ToSet(s) THEN Len(s) ELSE Len(s) + 1
  BY <1>2, <1>3, ToSetIs
<1>5. ToSet(t) = ToSet(s) \cup {k}
  BY <1>2, <1>3
<1>6. ASSUME NEW x, NEW y
      PROVE  Before(t, x, y) <=> \/ Before(s, x, y) /\ x # k /\ y # k
                                 \/ x = k /\ y \in ToSet(s) \ {k}
  BY <1>2, <1>3
<1> QED BY <1>1, <1>3, <1>4, <1>5, <1>6

(* The list's last element is used least recently.                         *)
LEMMA LastIsOldest ==
    ASSUME NEW s \in Seq(Key), Distinct(s), Len(s) > 0
    PROVE  /\ s[Len(s)] \in ToSet(s)
           /\ \A x \in ToSet(s) \ {s[Len(s)]} : Before(s, x, s[Len(s)])
<1>1. Len(s) \in 1..Len(s)
  BY ToSetIs
<1>2. ASSUME NEW x \in ToSet(s), x # s[Len(s)] PROVE Before(s, x, s[Len(s)])
  <2>1. PICK i \in 1..Len(s) : s[i] = x
    BY ToSetIs
  <2>2. i < Len(s)
    BY <1>1, <1>2, <2>1
  <2> QED BY <1>1, <2>1, <2>2 DEF Before
<1> QED BY <1>1, <1>2, ToSetIs

(* The list without its last element.                                      *)
LEMMA Popped ==
    ASSUME NEW s \in Seq(Key), Distinct(s), Len(s) > 0,
           NEW t, t = Front(s)
    PROVE  /\ t \in Seq(Key) /\ Distinct(t) /\ ToSet(t) = ToSet(s) \ {s[Len(s)]}
           /\ Len(t) = Len(s) - 1
           /\ \A x, y : Before(t, x, y) => Before(s, x, y)
<1>1. Len(s) \in Nat /\ \A i \in 1..(Len(s) - 1) : s[i] \in Key
  BY ToSetIs
<1>2. /\ t \in Seq(Key) /\ Len(t) = Len(s) - 1
      /\ \A i \in 1..(Len(s) - 1) : t[i] = s[i]
  <2>1. /\ t \in Seq(Key)
        /\ Len(t) = IF 1 <= Len(s) - 1 THEN Len(s) - 1 - 1 + 1 ELSE 0
        /\ \A i \in 1..(Len(s) - 1 - 1 + 1) : t[i] = s[1 + i - 1]
    BY <1>1, SubSeqProperties DEF Front
  <2>2. Len(t) = Len(s) - 1
    <3>1. ASSUME NEW n \in Nat, n > 0
          PROVE  (IF 1 <= n - 1 THEN n - 1 - 1 + 1 ELSE 0) = n - 1
      BY <3>1
    <3> QED BY <1>1, <2>1, <3>1
  <2>3. \A i \in 1..(Len(s) - 1) : i \in 1..(Len(s) - 1 - 1 + 1) /\ 1 + i - 1 = i
    BY <1>1
  <2> QED BY <2>1, <2>2, <2>3
<1>3. Distinct(t) /\ \A x, y : Before(t, x, y) => Before(s, x, y)
  BY <1>1, <1>2 DEF Distinct, Before
<1>4. ToSet(t) = ToSet(s) \ {s[Len(s)]}
  <2>1. ToSet(s) = {s[h] : h \in 1..Len(s)} /\ ToSet(t) = {t[i] : i \in 1..Len(t)}
    BY <1>2, LenProperties DEF ToSet
  <2>2. \A i \in 1..Len(t) : t[i] \in ToSet(s) \ {s[Len(s)]}
    BY <1>1, <1>2, <2>1 DEF Distinct
  <2>3. \A h \in 1..Len(s) : s[h] # s[Len(s)] => s[h] \in ToSet(t)
    <3> TAKE h \in 1..Len(s)
    <3>1. s[h] # s[Len(s)] => h \in 1..Len(t) /\ t[h] = s[h]
      BY <1>1, <1>2
    <3> QED BY <2>1, <3>1
  <2> QED BY <2>1, <2>2, <2>3
<1> QED BY <1>2, <1>3, <1>4

-------------------------------------------------------------------------------
(* Steps                                                                   *)

(* The clamps, of a TTL and of what Put stores.                            *)
LEMMA Clamped == \A t \in Nat : Clamp(t) \in Nat
BY LruCacheAssumption DEF Clamp

(* Two lists in the same order, the first a part of the second, stay so    *)
(* when k moves to the front of both.                                      *)
LEMMA InStep ==
    ASSUME NEW s \in Seq(Key), Distinct(s), NEW u \in Seq(Key), Distinct(u),
           ToSet(s) \subseteq ToSet(u),
           \A x, y \in Key : Before(s, x, y) => Before(u, x, y),
           NEW k \in Key
    PROVE  \A x, y \in Key : Before(ToFront(s, k), x, y) => Before(ToFront(u, k), x, y)
<1> TAKE x, y \in Key
<1>1. Before(ToFront(s, k), x, y) <=>
        \/ Before(s, x, y) /\ x # k /\ y # k
        \/ x = k /\ y \in ToSet(s) \ {k}
  BY ToFrontIs
<1>2. Before(ToFront(u, k), x, y) <=>
        \/ Before(u, x, y) /\ x # k /\ y # k
        \/ x = k /\ y \in ToSet(u) \ {k}
  BY ToFrontIs
<1> QED BY <1>1, <1>2

(* The list a use of k leaves, its order and that of the uses.             *)
LEMMA Used ==
    ASSUME IInv, NEW k \in Key, Use(k), NEW t, t = ToFront(ll, k)
    PROVE  /\ t \in Seq(Key) /\ Distinct(t) /\ ToSet(t) = m \cup {k}
           /\ Len(t) = IF k \in m THEN Len(ll) ELSE Len(ll) + 1
           /\ used' \in Seq(Key) /\ Distinct(used')
           /\ m \cup {k} \subseteq ToSet(used')
           /\ \A x, y \in Key : Before(t, x, y) => Before(used', x, y)
<1>1. used' = ToFront(used, k)
  BY DEF Use
<1>2. ll \in Seq(Key) /\ Distinct(ll) /\ ToSet(ll) = m
  BY DEF IInv, TypeOK, Linked
<1>3. used \in Seq(Key) /\ Distinct(used) /\ m \subseteq ToSet(used)
  BY DEF IInv, TypeOK, Ordered
<1>4. \A x, y \in Key : Before(ll, x, y) => Before(used, x, y)
  BY DEF IInv, Ordered
<1>5. /\ t \in Seq(Key) /\ Distinct(t) /\ ToSet(t) = ToSet(ll) \cup {k}
      /\ Len(t) = IF k \in ToSet(ll) THEN Len(ll) ELSE Len(ll) + 1
  BY <1>2, ToFrontIs
<1>6. /\ used' \in Seq(Key) /\ Distinct(used') /\ ToSet(used') = ToSet(used) \cup {k}
  BY <1>1, <1>3, ToFrontIs
<1>7. \A x, y \in Key : Before(t, x, y) => Before(used', x, y)
  <2>1. ToSet(ll) \subseteq ToSet(used)
    BY <1>2, <1>3
  <2> QED BY <1>1, <1>2, <1>3, <1>4, <2>1, InStep
<1> QED BY <1>2, <1>3, <1>5, <1>6, <1>7

(* What Put stores has a TTL, and expires when its clamp has passed.       *)
LEMMA StoredIs ==
    ASSUME now \in Nat, NEW r \in Response, StoredTtl(r) # 0
    PROVE  /\ Stored(r) \in [fetched : Nat, ttl : Ttl \cup {0}, expiry : Nat]
           /\ Stored(r).ttl \in Ttl
           /\ Stored(r).expiry = Stored(r).fetched + Clamp(Stored(r).ttl)
<1>1. r.ttl \in Ttl /\ StoredTtl(r) = Clamp(r.ttl)
  BY DEF StoredTtl, Response
<1>2. Clamp(r.ttl) \in Nat
  BY <1>1, LruCacheAssumption, Clamped
<1> QED BY <1>1, <1>2 DEF Stored

(* The cache starts empty.                                                 *)
LEMMA Initially == Init => IInv
<1> SUFFICES ASSUME Init PROVE IInv
  OBVIOUS
<1>1. TypeOK
  BY LruCacheAssumption DEF Init, TypeOK, NoEntry
<1>2. ToSet(<<>>) = {}
  BY DEF ToSet
<1>3. Linked /\ Ordered /\ Dated
  BY <1>2, LruCacheAssumption DEF Init, Linked, Ordered, Dated, Distinct, Before
<1>4. NeverServedLate
  BY LruCacheAssumption DEF Init, NeverServedLate, Clamp
<1> QED BY <1>1, <1>3, <1>4 DEF IInv

(* The clock moves and nothing else.                                       *)
LEMMA TickStep == IInv /\ (Tick \/ UNCHANGED vars) => IInv'
<1> SUFFICES ASSUME IInv, Tick \/ UNCHANGED vars PROVE IInv'
  OBVIOUS
<1>1. UNCHANGED <<m, ll, entry, served, used>>
  BY DEF Tick, vars
<1>2. TypeOK'
  BY <1>1, LruCacheAssumption DEF IInv, TypeOK, Tick, vars
<1>3. Linked' /\ Ordered' /\ Dated' /\ NeverServedLate'
  BY <1>1 DEF IInv, Linked, Ordered, Dated, NeverServedLate
<1> QED BY <1>2, <1>3 DEF IInv

(* A hit moves its key to the front and serves what is not too old.        *)
LEMMA GetHitStep == ASSUME IInv, NEW k \in Key, GetHit(k) PROVE IInv'
<1>1. /\ k \in m /\ now <= entry[k].expiry /\ ll' = ToFront(ll, k) /\ Serve(k) /\ Use(k)
      /\ UNCHANGED <<m, entry, now>>
  BY DEF GetHit, Use
<1>2. /\ ll' \in Seq(Key) /\ Distinct(ll') /\ ToSet(ll') = m /\ Len(ll') = Len(ll)
      /\ used' \in Seq(Key) /\ Distinct(used') /\ m \subseteq ToSet(used')
      /\ \A x, y \in Key : Before(ll', x, y) => Before(used', x, y)
  <2>1. PICK t : t = ToFront(ll, k)
    OBVIOUS
  <2>2. ll' = t /\ m \cup {k} = m
    BY <1>1, <2>1
  <2>3. /\ t \in Seq(Key) /\ Distinct(t) /\ ToSet(t) = m \cup {k}
        /\ Len(t) = IF k \in m THEN Len(ll) ELSE Len(ll) + 1
        /\ used' \in Seq(Key) /\ Distinct(used')
        /\ m \cup {k} \subseteq ToSet(used')
        /\ \A x, y \in Key : Before(t, x, y) => Before(used', x, y)
    BY <1>1, <2>1, Used
  <2> QED BY <1>1, <2>2, <2>3
<1>3. /\ entry[k] \in [fetched : Nat, ttl : Ttl \cup {0}, expiry : Nat] /\ now \in Nat
      /\ entry[k].ttl \in Ttl /\ entry[k].expiry = entry[k].fetched + Clamp(entry[k].ttl)
  BY <1>1, LruCacheAssumption DEF IInv, TypeOK, Dated
<1>4. now - entry[k].fetched \in Int /\ now - entry[k].fetched <= Clamp(entry[k].ttl)
  <2>1. Clamp(entry[k].ttl) \in Nat
    BY <1>3, LruCacheAssumption, Clamped
  <2> QED BY <1>1, <1>3, <2>1
<1>5. served' = [age |-> now - entry[k].fetched, ttl |-> entry[k].ttl]
  BY <1>1 DEF Serve
<1>6. TypeOK'
  BY <1>1, <1>2, <1>3, <1>4, <1>5 DEF IInv, TypeOK
<1>7. Linked' /\ Ordered' /\ Dated'
  BY <1>1, <1>2 DEF IInv, Linked, Ordered, Dated
<1>8. NeverServedLate'
  BY <1>4, <1>5 DEF NeverServedLate, Clamp
<1> QED BY <1>6, <1>7, <1>8 DEF IInv

(* An expired entry leaves the map and the list.                           *)
LEMMA GetExpiredStep == ASSUME IInv, NEW k \in Key, GetExpired(k) PROVE IInv'
<1>1. /\ k \in m /\ ll' = Without(ll, k) /\ m' = m \ {k}
      /\ entry' = [entry EXCEPT ![k] = NoEntry] /\ UNCHANGED <<now, served, used>>
  BY DEF GetExpired
<1>2. ll \in Seq(Key) /\ Distinct(ll) /\ ToSet(ll) = m /\ Len(ll) <= Size
  BY DEF IInv, TypeOK, Linked
<1>3. PICK t : t = ll'
  OBVIOUS
<1>4. /\ t \in Seq(Key) /\ Distinct(t) /\ ToSet(t) = m \ {k} /\ Len(t) = Len(ll) - 1
      /\ \A x, y : Before(t, x, y) <=> Before(ll, x, y) /\ x # k /\ y # k
  <2>1. t = Without(ll, k)
    BY <1>1, <1>3
  <2> QED BY <1>1, <1>2, <2>1, Removed
<1>5. Len(t) <= Size
  BY <1>2, <1>4, ToSetIs, LruCacheAssumption
<1>6. TypeOK'
  BY <1>1, <1>3, <1>4 DEF IInv, TypeOK, NoEntry
<1>7. Linked' /\ Ordered'
  BY <1>1, <1>3, <1>4, <1>5 DEF IInv, Linked, Ordered
<1>8. \A j \in m' : j \in m /\ entry'[j] = entry[j]
  BY <1>1 DEF IInv, TypeOK
<1>9. Dated' /\ NeverServedLate'
  BY <1>1, <1>8 DEF IInv, Dated, NeverServedLate
<1> QED BY <1>6, <1>7, <1>9 DEF IInv

(* Put over an entry of the same key.                                      *)
LEMMA PutAgainStep ==
    ASSUME IInv, NEW k \in Key, NEW r \in Response, PutAgain(k, r)
    PROVE  IInv'
<1>1. /\ k \in m /\ StoredTtl(r) # 0 /\ ll' = ToFront(ll, k) /\ Use(k)
      /\ entry' = [entry EXCEPT ![k] = Stored(r)] /\ UNCHANGED <<m, served, now>>
  BY DEF PutAgain, Use
<1>2. /\ ll' \in Seq(Key) /\ Distinct(ll') /\ ToSet(ll') = m /\ Len(ll') = Len(ll)
      /\ used' \in Seq(Key) /\ Distinct(used') /\ m \subseteq ToSet(used')
      /\ \A x, y \in Key : Before(ll', x, y) => Before(used', x, y)
  <2>1. PICK t : t = ToFront(ll, k)
    OBVIOUS
  <2>2. ll' = t /\ m \cup {k} = m
    BY <1>1, <2>1
  <2>3. /\ t \in Seq(Key) /\ Distinct(t) /\ ToSet(t) = m \cup {k}
        /\ Len(t) = IF k \in m THEN Len(ll) ELSE Len(ll) + 1
        /\ used' \in Seq(Key) /\ Distinct(used')
        /\ m \cup {k} \subseteq ToSet(used')
        /\ \A x, y \in Key : Before(t, x, y) => Before(used', x, y)
    BY <1>1, <2>1, Used
  <2> QED BY <1>1, <2>2, <2>3
<1>3. /\ Stored(r) \in [fetched : Nat, ttl : Ttl \cup {0}, expiry : Nat]
      /\ Stored(r).ttl \in Ttl
      /\ Stored(r).expiry = Stored(r).fetched + Clamp(Stored(r).ttl)
  BY <1>1, StoredIs, LruCacheAssumption DEF IInv, TypeOK
<1>4. \A j \in m : entry'[j] = IF j = k THEN Stored(r) ELSE entry[j]
  BY <1>1 DEF IInv, TypeOK
<1>5. TypeOK'
  BY <1>1, <1>2, <1>3 DEF IInv, TypeOK
<1>6. Linked' /\ Ordered' /\ NeverServedLate'
  BY <1>1, <1>2 DEF IInv, Linked, Ordered, NeverServedLate
<1>7. Dated'
  BY <1>1, <1>3, <1>4 DEF IInv, Dated
<1> QED BY <1>5, <1>6, <1>7 DEF IInv

(* What a new entry makes of the list: the key goes to the front, and when *)
(* the list gets too long, its last key, another one, goes.                *)
LEMMA Inserted ==
    ASSUME IInv, NEW k \in Key, NEW r \in Response, PutNew(k, r),
           NEW t, t = Push(ll, k)
    PROVE  /\ t = ToFront(ll, k) /\ Use(k) /\ Len(ll) \in Nat /\ Len(t) = Len(ll) + 1
           /\ t \in Seq(Key) /\ Distinct(t) /\ ToSet(t) = m \cup {k}
           /\ Len(t) > Size => /\ Len(ll) = Size /\ Size > 0
                               /\ t[Len(t)] = ll[Len(ll)] /\ ll[Len(ll)] \in m
<1>1. k \notin m /\ Use(k) /\ Size > 0
  BY DEF PutNew
<1>2. /\ ll \in Seq(Key) /\ Distinct(ll) /\ ToSet(ll) = m /\ Len(ll) <= Size
      /\ Len(ll) \in Nat
  BY ToSetIs DEF IInv, TypeOK, Linked
<1>3. t = ToFront(ll, k)
  BY <1>1, <1>2 DEF ToFront, Without, Push
<1>4. /\ t \in Seq(Key) /\ Distinct(t) /\ ToSet(t) = m \cup {k}
      /\ Len(t) = Len(ll) + 1 /\ (Len(ll) > 0 => t[Len(t)] = ll[Len(ll)])
  <2>1. ll \in Seq(Key) /\ Distinct(ll) /\ k \notin ToSet(ll)
    BY <1>1, <1>2
  <2>2. /\ t \in Seq(Key) /\ Distinct(t) /\ ToSet(t) = ToSet(ll) \cup {k}
        /\ Len(t) = Len(ll) + 1
        /\ Len(ll) > 0 => t[Len(t)] = ll[Len(ll)]
    BY <2>1, Pushed
  <2> QED BY <1>2, <2>2
<1>5. ASSUME Len(t) > Size PROVE Len(ll) = Size /\ Len(ll) > 0
  BY <1>1, <1>2, <1>4, <1>5, LruCacheAssumption
<1>6. Len(ll) > 0 => ll[Len(ll)] \in m
  BY <1>2, LastIsOldest
<1> QED BY <1>1, <1>2, <1>3, <1>4, <1>5, <1>6

(* Put of a new key, with or without an eviction.                          *)
LEMMA PutNewStep ==
    ASSUME IInv, NEW k \in Key, NEW r \in Response, PutNew(k, r)
    PROVE  IInv'
<1>1. PICK t : t = Push(ll, k)
  OBVIOUS
<1>2. /\ t = ToFront(ll, k) /\ Use(k) /\ Len(ll) \in Nat /\ Len(t) = Len(ll) + 1
      /\ t \in Seq(Key) /\ Distinct(t) /\ ToSet(t) = m \cup {k}
      /\ Len(t) > Size => /\ Len(ll) = Size /\ Size > 0
                          /\ t[Len(t)] = ll[Len(ll)] /\ ll[Len(ll)] \in m
  BY <1>1, Inserted
<1>3. /\ used' \in Seq(Key) /\ Distinct(used') /\ m \cup {k} \subseteq ToSet(used')
      /\ \A x, y \in Key : Before(t, x, y) => Before(used', x, y)
  BY <1>2, Used
<1>4. /\ Stored(r) \in [fetched : Nat, ttl : Ttl \cup {0}, expiry : Nat]
      /\ Stored(r).ttl \in Ttl
      /\ Stored(r).expiry = Stored(r).fetched + Clamp(Stored(r).ttl)
  BY StoredIs, LruCacheAssumption DEF IInv, TypeOK, PutNew
<1>5. UNCHANGED <<now, served>> /\ k \notin m
  BY DEF PutNew, Use
<1>6. entry \in [Key -> [fetched : Nat, ttl : Ttl \cup {0}, expiry : Nat]]
  BY DEF IInv, TypeOK
<1>7. CASE ~(Len(t) > Size)
  <2>1. /\ ll' = t /\ m' = m \cup {k} /\ entry' = [entry EXCEPT ![k] = Stored(r)]
    BY <1>1, <1>7 DEF PutNew, Push
  <2>2. Len(t) <= Size
    BY <1>2, <1>7, LruCacheAssumption
  <2>3. TypeOK'
    BY <1>2, <1>3, <1>4, <1>5, <2>1 DEF IInv, TypeOK
  <2>4. Linked' /\ Ordered' /\ NeverServedLate'
    BY <1>2, <1>3, <1>5, <2>1, <2>2 DEF IInv, Linked, Ordered, NeverServedLate
  <2>5. \A j \in m' : (j = k /\ entry'[j] = Stored(r)) \/ (j \in m /\ entry'[j] = entry[j])
    BY <1>6, <2>1 DEF IInv, TypeOK
  <2>6. Dated'
    BY <1>4, <2>5 DEF IInv, Dated
  <2> QED BY <2>3, <2>4, <2>6 DEF IInv
<1>8. CASE Len(t) > Size
  <2>1. PICK e : e = t[Len(t)]
    OBVIOUS
  <2>2. e \in m /\ e \in Key /\ e # k /\ Len(t) > 0 /\ Len(t) - 1 = Size
    BY <1>2, <1>5, <1>8, <2>1 DEF IInv, TypeOK
  <2>3. /\ ll' = Front(t) /\ m' = (m \cup {k}) \ {e}
        /\ entry' = [entry EXCEPT ![k] = Stored(r), ![e] = NoEntry]
    BY <1>1, <1>8, <2>1 DEF PutNew, Push, Last
  <2>4. PICK f : f = ll'
    OBVIOUS
  <2>5. /\ f \in Seq(Key) /\ Distinct(f) /\ ToSet(f) = (m \cup {k}) \ {e}
        /\ Len(f) = Size
        /\ \A x, y : Before(f, x, y) => Before(t, x, y)
    <3>1. t \in Seq(Key) /\ Distinct(t) /\ Len(t) > 0 /\ f = Front(t)
      BY <1>2, <2>2, <2>3, <2>4
    <3>2. /\ f \in Seq(Key) /\ Distinct(f) /\ ToSet(f) = ToSet(t) \ {t[Len(t)]}
          /\ Len(f) = Len(t) - 1
          /\ \A x, y : Before(f, x, y) => Before(t, x, y)
      BY <3>1, Popped
    <3> QED BY <1>2, <2>1, <2>2, <3>2
  <2>6. TypeOK'
    <3>1. entry' \in [Key -> [fetched : Nat, ttl : Ttl \cup {0}, expiry : Nat]]
      BY <1>4, <1>6, <2>3 DEF NoEntry
    <3>2. m' \subseteq Key
      BY <2>3 DEF IInv, TypeOK
    <3> QED BY <1>3, <1>5, <2>4, <2>5, <3>1, <3>2 DEF IInv, TypeOK
  <2>7. Linked'
    BY <2>3, <2>4, <2>5, LruCacheAssumption DEF Linked
  <2>8. Ordered'
    BY <1>3, <2>3, <2>4, <2>5 DEF Ordered
  <2>9. \A j \in m' : (j = k /\ entry'[j] = Stored(r)) \/ (j \in m /\ entry'[j] = entry[j])
    BY <1>6, <2>2, <2>3 DEF IInv, TypeOK
  <2>10. Dated' /\ NeverServedLate'
    BY <1>4, <1>5, <2>9 DEF IInv, Dated, NeverServedLate
  <2> QED BY <2>6, <2>7, <2>8, <2>10 DEF IInv
<1> QED BY <1>7, <1>8

-------------------------------------------------------------------------------
(* Theorems                                                                *)

(* The inductive invariant, of every cache.                                *)
THEOREM Invariance == Spec => []IInv
<1>1. IInv /\ [Next]_vars => IInv'
  <2> SUFFICES ASSUME IInv, [Next]_vars PROVE IInv'
    OBVIOUS
  <2>1. CASE Tick \/ UNCHANGED vars
    BY <2>1, TickStep
  <2>2. CASE \E k \in Key : GetHit(k) \/ GetExpired(k)
    BY <2>2, GetHitStep, GetExpiredStep
  <2>3. CASE \E k \in Key, r \in Response : PutAgain(k, r) \/ PutNew(k, r)
    BY <2>3, PutAgainStep, PutNewStep
  <2> QED BY <2>1, <2>2, <2>3 DEF Next
<1> QED BY <1>1, Initially, PTL DEF Spec

(* The types of the cache's state.                                         *)
THEOREM Typing == Spec => []TypeOK
<1>1. IInv => TypeOK
  BY DEF IInv
<1> QED BY <1>1, Invariance, PTL

(* The map and the recency list always hold the same keys, each once, and  *)
(* no more than Size of them.                                              *)
THEOREM MapMatches == Spec => []MapMatchesList
<1>1. IInv => MapMatchesList
  BY DistinctCount DEF IInv, TypeOK, Linked, MapMatchesList
<1> QED BY <1>1, Invariance, PTL

(* No answer Get returns is older than the clamp of its TTL.               *)
THEOREM ServedInTime == Spec => []NeverServedLate
<1>1. IInv => NeverServedLate
  BY DEF IInv
<1> QED BY <1>1, Invariance, PTL

(* A fresh entry leaves only a full cache, for a new key, and all that     *)
(* stay were used after it.                                                *)
THEOREM EvictionOrder == Spec => EvictsLeastRecent
<1> DEFINE OldestGoes ==
           \A k \in m \ m' : now <= entry[k].expiry =>
                /\ Cardinality(m) = Size
                /\ \A i, j \in DOMAIN used : used[i] \in m \cap m' /\ used[j] = k => i < j
<1>1. IInv /\ [Next]_vars => OldestGoes
  <2> SUFFICES ASSUME IInv, [Next]_vars, NEW e \in m \ m', now <= entry[e].expiry
               PROVE  /\ Cardinality(m) = Size
                      /\ \A i, j \in DOMAIN used : used[i] \in m \cap m' /\ used[j] = e => i < j
    OBVIOUS
  <2>1. ~(Tick \/ UNCHANGED vars)
    BY DEF Tick, vars
  <2>2. ASSUME NEW k \in Key PROVE ~GetHit(k)
    BY DEF GetHit
  <2>3. ASSUME NEW k \in Key PROVE ~GetExpired(k)
    <3>1. SUFFICES ASSUME GetExpired(k) PROVE FALSE
      OBVIOUS
    <3>2. e = k /\ now > entry[e].expiry
      BY <3>1 DEF GetExpired
    <3>3. now \in Nat /\ entry[e].expiry \in Nat
      BY LruCacheAssumption DEF IInv, TypeOK
    <3> QED BY <3>2, <3>3
  <2>4. ASSUME NEW k \in Key, NEW r \in Response PROVE ~PutAgain(k, r)
    BY DEF PutAgain
  <2>5. PICK k \in Key, r \in Response : PutNew(k, r)
    BY <2>1, <2>2, <2>3, <2>4 DEF Next
  <2>6. PICK t : t = Push(ll, k)
    OBVIOUS
  <2>7. Len(t) > Size => /\ Len(ll) = Size /\ Size > 0 /\ t[Len(t)] = ll[Len(ll)]
    BY <2>5, <2>6, Inserted
  <2>8. Len(t) > Size /\ e = t[Len(t)]
    BY <2>5, <2>6 DEF PutNew, Push, Last
  <2>9. /\ ll \in Seq(Key) /\ Distinct(ll) /\ ToSet(ll) = m /\ m \subseteq Key
        /\ Distinct(used) /\ used \in Seq(Key)
    BY DEF IInv, TypeOK, Linked, Ordered
  <2>10. Cardinality(m) = Size
    BY <2>7, <2>8, <2>9, DistinctCount
  <2>11. ASSUME NEW i \in DOMAIN used, NEW j \in DOMAIN used,
                used[i] \in m \cap m', used[j] = e
         PROVE  i < j
    <3>1. Before(ll, used[i], e)
      <4>1. Len(ll) > 0 /\ e = ll[Len(ll)]
        BY <2>7, <2>8
      <4>2. used[i] \in ToSet(ll) \ {ll[Len(ll)]}
        BY <2>9, <2>11, <4>1
      <4> QED BY <2>9, <4>1, <4>2, LastIsOldest
    <3>2. Before(used, used[i], e)
      BY <2>9, <2>11, <3>1 DEF IInv, Ordered
    <3>3. PICK g, h \in 1..Len(used) : g < h /\ used[g] = used[i] /\ used[h] = e
      BY <3>2 DEF Before
    <3>4. DOMAIN used = 1..Len(used)
      BY <2>9, LenProperties
    <3>5. g = i /\ h = j
      BY <2>9, <2>11, <3>3, <3>4 DEF Distinct
    <3> QED BY <3>3, <3>5
  <2> QED BY <2>10, <2>11
<1>2. [][OldestGoes]_vars => EvictsLeastRecent
  BY PTL DEF EvictsLeastRecent
<1> QED BY <1>1, <1>2, Invariance, PTL DEF Spec

===============================================================================
