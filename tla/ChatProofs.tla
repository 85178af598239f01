----------------------------- MODULE ChatProofs -----------------------------
(***************************************************************************)
(* What is proved of a chat request: its way through the cache, the        *)
(* sessions, the router and the stream (Gateway), the model its name       *)
(* stands for (Naming), what is left of a long conversation (Compression)  *)
(* and what becomes of it in another format (Translation).                 *)
(***************************************************************************)
EXTENDS MCChat, DataLemmas

-----------------------------------------------------------------------------
(***************************************************************************)
(* Gateway.                                                                *)
(***************************************************************************)
(* The keys of a cache in its order. *)
KeysOf(s) == [i \in DOMAIN s |-> s[i].key]

(* An entry as put makes it: of what was asked, for no longer than the ttl. *)
Good == {e \in Entry : e.answer.key = e.key /\ e.until <= e.answer.made + CacheTtl}

LEMMA Bounds ==
  /\ Asked \subseteq AskedFields /\ MaxSize \in Nat /\ MaxSize > 0
  /\ CacheTtl \in Nat /\ SessionTtl \in Nat /\ MaxClock \in Nat /\ MaxFrames \in Nat
  /\ CleanupInterval \in Nat /\ CleanupInterval > 0
  BY GatewayAssumption DEF GatewayAssumption

LEMMA KeysType ==
  ASSUME NEW s \in Seq(Good)
  PROVE  KeysOf(s) \in Seq(Keys) /\ Len(KeysOf(s)) = Len(s)
         /\ \A i \in 1..Len(s) : KeysOf(s)[i] = s[i].key
<1>1. Len(s) \in Nat /\ DOMAIN s = 1..Len(s) /\ \A i \in 1..Len(s) : s[i] \in Good
  BY LenProperties
<1>2. \A i \in 1..Len(s) : s[i].key \in Keys
  BY <1>1 DEF Good, Entry
<1>3. KeysOf(s) = [i \in 1..Len(s) |-> s[i].key]
  BY <1>1 DEF KeysOf
<1>4. KeysOf(s) \in [1..Len(s) -> Keys]
  BY <1>2, <1>3
<1> HIDE DEF KeysOf
<1>5. KeysOf(s) \in Seq(Keys)
  BY <1>1, <1>4, SeqDef
<1> QED
  BY <1>1, <1>3, <1>4, <1>5, LenProperties DEF KeysOf

LEMMA KeysEmpty == KeysOf(<<>>) = <<>>
<1>1. <<>> \in Seq(Good) /\ Len(<<>>) = 0
  BY EmptySeq
<1>2. KeysOf(<<>>) \in Seq(Keys) /\ Len(KeysOf(<<>>)) = 0
  BY <1>1, KeysType
<1> QED
  BY <1>2, EmptySeq

LEMMA KeysAppend ==
  ASSUME NEW s \in Seq(Good), NEW e \in Good
  PROVE  KeysOf(Append(s, e)) = Append(KeysOf(s), e.key)
<1>1. /\ Append(s, e) \in Seq(Good) /\ Len(Append(s, e)) = Len(s) + 1 /\ Append(s, e)[Len(s) + 1] = e
      /\ \A i \in 1..Len(s) : Append(s, e)[i] = s[i]
  BY AppendProperties
<1> DEFINE t == Append(s, e)
           a == KeysOf(t)
           b == Append(KeysOf(s), e.key)
<1>2. e.key \in Keys
  BY DEF Good, Entry
<1>3. KeysOf(s) \in Seq(Keys) /\ Len(KeysOf(s)) = Len(s) /\ \A i \in 1..Len(s) : KeysOf(s)[i] = s[i].key
  BY KeysType
<1>4. a \in Seq(Keys) /\ Len(a) = Len(t) /\ \A i \in 1..Len(t) : a[i] = t[i].key
  BY <1>1, KeysType
<1>5. b \in Seq(Keys) /\ Len(b) = Len(s) + 1 /\ b[Len(s) + 1] = e.key
      /\ \A i \in 1..Len(s) : b[i] = KeysOf(s)[i]
  BY <1>2, <1>3, AppendProperties
<1>6. Len(s) \in Nat
  BY LenProperties
<1> HIDE DEF t, a, b
<1>7. \A i \in 1..(Len(s) + 1) : i \in 1..Len(s) \/ i = Len(s) + 1
  BY <1>6
<1>8. Len(a) = Len(s) + 1 /\ \A i \in 1..Len(a) : a[i] = b[i]
  BY <1>1, <1>3, <1>4, <1>5, <1>7 DEF t
<1>9. a = b
  BY <1>4, <1>5, <1>8, SeqEqual
<1> QED
  BY <1>9 DEF a, b, t

LEMMA KeysTail ==
  ASSUME NEW s \in Seq(Good), s # <<>>
  PROVE  KeysOf(Tail(s)) = Tail(KeysOf(s)) /\ KeysOf(s) # <<>> /\ Head(KeysOf(s)) = s[1].key
<1> DEFINE t == Tail(s)
           k == KeysOf(s)
           a == KeysOf(t)
           b == Tail(k)
<1>1. t \in Seq(Good) /\ Len(t) = Len(s) - 1 /\ \A i \in 1..Len(t) : t[i] = s[i + 1]
  BY HeadTailProperties
<1>2. Len(s) \in Nat /\ Len(s) > 0
  BY EmptySeq
<1>3. k \in Seq(Keys) /\ Len(k) = Len(s) /\ \A i \in 1..Len(s) : k[i] = s[i].key
  BY KeysType
<1>4. a \in Seq(Keys) /\ Len(a) = Len(t) /\ \A i \in 1..Len(t) : a[i] = t[i].key
  BY <1>1, KeysType
<1> HIDE DEF t, k, a
<1>5. k # <<>>
  BY <1>2, <1>3, EmptySeq
<1>6. b \in Seq(Keys) /\ Len(b) = Len(k) - 1 /\ \A i \in 1..Len(b) : b[i] = k[i + 1]
  BY <1>3, <1>5, HeadTailProperties
<1> HIDE DEF b
<1>7. Len(a) = Len(b) /\ \A i \in 1..Len(a) : a[i] = b[i]
  <2>1. Len(a) = Len(s) - 1 /\ Len(b) = Len(s) - 1 /\ Len(t) = Len(s) - 1
    BY <1>1, <1>2, <1>3, <1>4, <1>6
  <2>2. ASSUME NEW i \in 1..(Len(s) - 1) PROVE a[i] = b[i]
    <3>1. i + 1 \in 1..Len(s)
      BY <1>2
    <3>2. a[i] = t[i].key /\ t[i] = s[i + 1] /\ b[i] = k[i + 1]
      BY <1>1, <1>4, <1>6, <2>1
    <3> QED
      BY <1>3, <3>1, <3>2
  <2> QED
    BY <2>1, <2>2
<1>8. a = b
  BY <1>4, <1>6, <1>7, SeqEqual
<1>9. Head(k) = k[1] /\ 1 \in 1..Len(s)
  BY <1>2, <1>5
<1> QED
  BY <1>3, <1>5, <1>8, <1>9 DEF a, b, t, k

LEMMA KeysAre ==
  ASSUME NEW s \in Seq(Good)
  PROVE  ToSet(KeysOf(s)) = {e.key : e \in ToSet(s)} /\ ToSet(s) \subseteq Good
<1>1. DOMAIN s = 1..Len(s) /\ DOMAIN KeysOf(s) = 1..Len(s) /\ \A i \in 1..Len(s) : s[i] \in Good
  BY LenProperties DEF KeysOf
<1>2. \A i \in 1..Len(s) : KeysOf(s)[i] = s[i].key
  BY KeysType
<1> QED
  BY <1>1, <1>2 DEF ToSet

(* What is kept by its entries is kept by their keys. *)
LEMMA KeysOnly ==
  ASSUME NEW s \in Seq(Good), NEW S, NEW K, \A e \in ToSet(s) : e \in S <=> e.key \in K
  PROVE  KeysOf(Only(s, S)) = Only(KeysOf(s), K)
<1> DEFINE Fits(r) == \A e \in ToSet(r) : e \in S <=> e.key \in K
           good == {r \in Seq(Good) : Fits(r) => KeysOf(Only(r, S)) = Only(KeysOf(r), K)}
<1>1. <<>> \in good
  BY OnlyEmpty, KeysEmpty
<1>2. ASSUME NEW r \in Seq(Good), NEW e \in Good, r \in good PROVE Append(r, e) \in good
  <2>1. Append(r, e) \in Seq(Good) /\ Only(r, S) \in Seq(Good) /\ ToSet(Append(r, e)) = ToSet(r) \cup {e}
    BY AppendProperties, OnlyType, ToSetAppend
  <2>2. Only(Append(r, e), S) = IF e \in S THEN Append(Only(r, S), e) ELSE Only(r, S)
    BY OnlyAppend
  <2>3. KeysOf(Append(r, e)) = Append(KeysOf(r), e.key)
        /\ KeysOf(Append(Only(r, S), e)) = Append(KeysOf(Only(r, S)), e.key)
    BY <2>1, KeysAppend
  <2>4. e.key \in Keys /\ KeysOf(r) \in Seq(Keys)
    BY KeysType DEF Good, Entry
  <2>5. Only(Append(KeysOf(r), e.key), K) =
          IF e.key \in K THEN Append(Only(KeysOf(r), K), e.key) ELSE Only(KeysOf(r), K)
    <3> DEFINE p == KeysOf(r)
               q == e.key
    <3>1. p \in Seq(Keys) /\ q \in Keys
      BY <2>4
    <3> HIDE DEF p, q
    <3>2. Only(Append(p, q), K) = IF q \in K THEN Append(Only(p, K), q) ELSE Only(p, K)
      BY <3>1, OnlyAppend
    <3> QED
      BY <3>2 DEF p, q
  <2>6. ASSUME Fits(Append(r, e)) PROVE KeysOf(Only(Append(r, e), S)) = Only(KeysOf(Append(r, e)), K)
    <3>1. KeysOf(Only(r, S)) = Only(KeysOf(r), K) /\ (e \in S <=> e.key \in K)
      BY <1>2, <2>1, <2>6
    <3>2. CASE e \in S
      BY <2>2, <2>3, <2>5, <3>1, <3>2
    <3>3. CASE e \notin S
      BY <2>2, <2>3, <2>5, <3>1, <3>3
    <3> QED
      BY <3>2, <3>3
  <2> QED
    BY <2>1, <2>6
<1> HIDE DEF good
<1>3. \A r \in Seq(Good) : r \in good
  BY <1>1, <1>2, ByAppending
<1> QED
  BY <1>3 DEF good

(* In a cache that has a key once, its key tells an entry. *)
LEMMA KeyTells ==
  ASSUME NEW s \in Seq(Good), NoneTwice(KeysOf(s)), NEW d \in ToSet(s), NEW e \in ToSet(s), d.key = e.key
  PROVE  d = e
<1>1. DOMAIN s = 1..Len(s)
  BY LenProperties
<1>2. PICK i \in 1..Len(s), j \in 1..Len(s) : s[i] = d /\ s[j] = e
  BY <1>1 DEF ToSet
<1>3. Len(KeysOf(s)) = Len(s) /\ KeysOf(s)[i] = d.key /\ KeysOf(s)[j] = e.key
  BY <1>2, KeysType
<1> QED
  BY <1>2, <1>3 DEF NoneTwice
-----------------------------------------------------------------------------
(* The cache, and the history of its keys. *)
CacheInOrder ==
  /\ cache \in Seq(Good) /\ Len(cache) <= MaxSize
  /\ recent = KeysOf(cache) /\ NoneTwice(recent)

KeysCached(s) == {k \in Keys : \E i \in DOMAIN s : s[i].key = k}

LEMMA CachedKeys ==
  ASSUME NEW s \in Seq(Good)
  PROVE  KeysCached(s) = ToSet(KeysOf(s))
<1>1. KeysOf(s) \in Seq(Keys) /\ DOMAIN s = 1..Len(s) /\ DOMAIN KeysOf(s) = DOMAIN s
      /\ \A i \in 1..Len(s) : KeysOf(s)[i] = s[i].key /\ KeysOf(s)[i] \in Keys
  BY KeysType, LenProperties
<1> QED
  BY <1>1 DEF KeysCached, ToSet

LEMMA InCacheIs == \A s : InCache(s) = Only(s, KeysCached(cache)')
  BY DEF InCache, KeysCached

(* Some entries go, and no other. *)
LEMMA ShrunkInOrder ==
  ASSUME CacheInOrder, NEW S, cache' = Only(cache, S), recent' = InCache(recent)
  PROVE  CacheInOrder'
<1> DEFINE c == Only(cache, S)
           K == KeysCached(c)
<1>1. cache \in Seq(Good) /\ Len(cache) <= MaxSize /\ recent = KeysOf(cache) /\ NoneTwice(recent)
  BY DEF CacheInOrder
<1>2. c \in Seq(Good) /\ ToSet(c) = ToSet(cache) \cap S
  BY <1>1, OnlyType, OnlyElements
<1>3. recent' = Only(recent, K) /\ cache' = c
  BY InCacheIs
<1>4. K = {e.key : e \in ToSet(c)}
  BY <1>2, CachedKeys, KeysAre
<1> HIDE DEF K
<1>5. \A e \in ToSet(cache) : e \in S <=> e.key \in K
  <2> SUFFICES ASSUME NEW e \in ToSet(cache) PROVE e \in S <=> e.key \in K
    OBVIOUS
  <2>1. ASSUME e.key \in K PROVE e \in S
    <3>1. PICK d \in ToSet(c) : d.key = e.key
      BY <1>4, <2>1
    <3>2. d \in ToSet(cache) /\ d \in S
      BY <1>2, <3>1
    <3> QED
      BY <1>1, <3>1, <3>2, KeyTells
  <2> QED
    BY <1>2, <1>4, <2>1
<1>6. KeysOf(c) = Only(KeysOf(cache), K)
  BY <1>1, <1>5, KeysOnly
<1>7. NoneTwice(Only(recent, K))
  BY <1>1, KeysType, OnlyNoneTwice
<1>8. Len(c) <= Len(cache)
  <2>1. KeysOf(c) \in Seq(Keys) /\ Len(KeysOf(c)) = Len(c) /\ recent \in Seq(Keys) /\ Len(recent) = Len(cache)
    BY <1>1, <1>2, KeysType
  <2>2. Len(Only(cache, S)) <= Len(cache)
    BY <1>1, OnlyNoLonger
  <2> QED
    BY <2>2
<1>9. Len(c) <= MaxSize
  BY <1>1, <1>2, <1>8, LenProperties, Bounds
<1> HIDE DEF c
<1> QED
  BY <1>1, <1>2, <1>3, <1>6, <1>7, <1>9 DEF CacheInOrder

LEMMA WithoutIs ==
  ASSUME CacheInOrder, NEW k \in Keys
  PROVE  /\ Without(k) \in Seq(Good)
         /\ KeysOf(Without(k)) = Only(recent, Keys \ {k})
         /\ k \notin ToSet(Only(recent, Keys \ {k}))
         /\ Len(Without(k)) <= Len(cache)
         /\ CachedAt(k) # {} => Len(Without(k)) + 1 <= Len(cache)
         /\ CachedAt(k) = {} => Without(k) = cache /\ k \notin ToSet(recent)
<1> DEFINE S == {e \in Entry : e.key # k}
<1>1. cache \in Seq(Good) /\ recent = KeysOf(cache) /\ recent \in Seq(Keys)
  BY KeysType DEF CacheInOrder
<1>2. ToSet(cache) \subseteq Good /\ ToSet(recent) = {e.key : e \in ToSet(cache)}
  BY <1>1, KeysAre
<1>3. \A e \in ToSet(cache) : e \in Entry /\ e.key \in Keys
  BY <1>2 DEF Good, Entry
<1>4. \A e \in ToSet(cache) : e \in S <=> e.key \in Keys \ {k}
  BY <1>3
<1>5. Without(k) = Only(cache, S)
  BY DEF Without
<1> HIDE DEF S
<1>6. Only(cache, S) \in Seq(Good) /\ KeysOf(Only(cache, S)) = Only(recent, Keys \ {k})
  BY <1>1, <1>4, OnlyType, KeysOnly
<1>7. ToSet(Only(recent, Keys \ {k})) = ToSet(recent) \cap (Keys \ {k})
  BY <1>1, OnlyElements
<1>8. Len(Only(cache, S)) <= Len(cache)
  BY <1>1, OnlyNoLonger
<1>9. ASSUME CachedAt(k) # {} PROVE Len(Only(cache, S)) + 1 <= Len(cache)
  <2>1. PICK e \in ToSet(cache) : e.key = k
    BY <1>9 DEF CachedAt, ToSet
  <2>2. e \notin S
    BY <1>4, <2>1
  <2> QED
    BY <1>1, <2>1, <2>2, OnlyShorter
<1>10. ASSUME CachedAt(k) = {} PROVE Only(cache, S) = cache /\ k \notin ToSet(recent)
  <2>1. \A e \in ToSet(cache) : e.key # k
    BY <1>10 DEF CachedAt, ToSet
  <2>2. \A e \in ToSet(cache) : e \in S
    BY <1>3, <1>4, <2>1
  <2> QED
    BY <1>1, <1>2, <2>1, <2>2, OnlyAll
<1> QED
  BY <1>5, <1>6, <1>7, <1>8, <1>9, <1>10

(* An entry goes last, where there is room. *)
LEMMA UsedInOrder ==
  ASSUME CacheInOrder, NEW k \in Keys, NEW e \in Good, e.key = k,
         cache' = Append(Without(k), e), recent' = UsedNow(k),
         CachedAt(k) # {} \/ Len(cache) + 1 <= MaxSize
  PROVE  CacheInOrder'
<1> DEFINE w == Without(k)
           o == Only(recent, Keys \ {k})
           c == Append(w, e)
           r == Append(o, k)
           K == KeysCached(c)
<1>1. w \in Seq(Good) /\ KeysOf(w) = o /\ k \notin ToSet(o)
  BY WithoutIs
<1>2. cache \in Seq(Good) /\ recent = KeysOf(cache) /\ recent \in Seq(Keys) /\ NoneTwice(recent)
      /\ Len(cache) <= MaxSize /\ MaxSize \in Nat
  BY KeysType, Bounds DEF CacheInOrder
<1>3. o \in Seq(Keys) /\ NoneTwice(o)
  BY <1>2, OnlyType, OnlyNoneTwice
<1>4. Len(w) + 1 <= MaxSize /\ Len(w) \in Nat
  <2>1. Len(w) <= Len(cache) /\ (CachedAt(k) # {} => Len(w) + 1 <= Len(cache))
    BY WithoutIs
  <2>2. Len(w) \in Nat /\ Len(cache) \in Nat
    BY <1>1, <1>2, LenProperties
  <2> HIDE DEF w
  <2> QED
    BY <1>2, <2>1, <2>2
<1>5. recent' = Only(r, K) /\ cache' = c
  BY InCacheIs DEF UsedNow
<1> HIDE DEF w, o
<1>6. c \in Seq(Good) /\ Len(c) = Len(w) + 1 /\ KeysOf(c) = r
  BY <1>1, AppendProperties, KeysAppend
<1>7. K = ToSet(r)
  BY <1>6, CachedKeys
<1>8. r \in Seq(Keys) /\ NoneTwice(r)
  BY <1>1, <1>3, AppendProperties, NoneTwiceAppend
<1> HIDE DEF c, r, K
<1>9. Only(r, K) = r
  BY <1>7, <1>8, OnlyAll
<1> QED
  BY <1>4, <1>5, <1>6, <1>8, <1>9 DEF CacheInOrder

(* The first entry makes room. *)
LEMMA EvictedInOrder ==
  ASSUME CacheInOrder, NEW k \in Keys, NEW e \in Good, e.key = k, CachedAt(k) = {},
         Len(cache) >= MaxSize, cache' = Append(Tail(cache), e), recent' = UsedNow(k)
  PROVE  CacheInOrder'
<1> DEFINE t == Tail(cache)
           o == Only(recent, Keys \ {k})
           c == Append(t, e)
           r == Append(recent, k)
           K == KeysCached(c)
<1>1. cache \in Seq(Good) /\ recent = KeysOf(cache) /\ recent \in Seq(Keys) /\ NoneTwice(recent)
      /\ Len(cache) <= MaxSize /\ MaxSize \in Nat /\ MaxSize > 0
  BY KeysType, Bounds DEF CacheInOrder
<1>2. cache # <<>>
  BY <1>1, EmptySeq
<1>3. t \in Seq(Good) /\ Len(t) = Len(cache) - 1 /\ KeysOf(t) = Tail(recent) /\ recent # <<>>
  BY <1>1, <1>2, HeadTailProperties, KeysTail
<1>4. Tail(recent) \in Seq(Keys) /\ Head(recent) \in Keys
  BY <1>1, <1>3, HeadTailProperties
<1>5. k \notin ToSet(recent) /\ o = recent
  <2>1. k \notin ToSet(recent) /\ Without(k) = cache /\ KeysOf(Without(k)) = o
    BY WithoutIs
  <2> QED
    BY <1>1, <2>1
<1>6. recent' = Only(r, K) /\ cache' = c
  <2>1. recent' = Only(Append(o, k), K) /\ cache' = c
    BY InCacheIs DEF UsedNow
  <2> QED
    BY <1>5, <2>1
<1>7. Head(recent) \notin ToSet(Tail(recent)) /\ NoneTwice(Tail(recent))
      /\ ToSet(recent) = ToSet(Tail(recent)) \cup {Head(recent)}
  BY <1>1, <1>3, HeadApart
<1> HIDE DEF t, o
<1>8. c \in Seq(Good) /\ Len(c) = Len(t) + 1 /\ KeysOf(c) = Append(Tail(recent), k)
  BY <1>3, AppendProperties, KeysAppend
<1>9. K = ToSet(Tail(recent)) \cup {k}
  <2>1. ToSet(Append(Tail(recent), k)) = ToSet(Tail(recent)) \cup {k}
    <3> DEFINE q == Tail(recent)
    <3>1. q \in Seq(Keys) /\ k \in Keys
      BY <1>4
    <3> HIDE DEF q
    <3>2. ToSet(Append(q, k)) = ToSet(q) \cup {k}
      BY ONLY <3>1, ToSetAppend
    <3> QED
      BY <3>2 DEF q
  <2>2. KeysCached(c) = ToSet(KeysOf(c))
    BY <1>8, CachedKeys
  <2> QED
    BY <1>8, <2>1, <2>2 DEF K
<1> HIDE DEF c, K
<1>10. Only(recent, K) = Tail(recent)
  <2>1. Head(recent) \notin K
    <3>1. Head(recent) # k
      BY <1>5, <1>7
    <3> QED
      BY <1>7, <1>9, <3>1
  <2>2. \A x \in ToSet(Tail(recent)) : x \in K
    BY <1>9
  <2> QED
    BY <1>1, <1>3, <2>1, <2>2, OnlyTail
<1>11. Only(r, K) = Append(Tail(recent), k)
  <2>1. Only(Append(recent, k), K) = IF k \in K THEN Append(Only(recent, K), k) ELSE Only(recent, K)
    BY <1>1, OnlyAppend
  <2> QED
    BY <1>9, <1>10, <2>1
<1>12. NoneTwice(Append(Tail(recent), k))
  BY <1>4, <1>5, <1>7, NoneTwiceAppend
<1>13. Len(c) <= MaxSize
  BY <1>1, <1>3, <1>8, LenProperties
<1> QED
  BY <1>6, <1>8, <1>11, <1>12, <1>13 DEF CacheInOrder

-----------------------------------------------------------------------------
(* A session is never kept over the time to live and the wait for the      *)
(* cleanup loop, which is at most an interval away.                        *)
Session == [provider : Providers, used : 0..clock]

SessionsInOrder ==
  /\ clock \in 0..MaxClock /\ cleanup \in 0..(MaxClock + CleanupInterval)
  /\ clock <= cleanup /\ cleanup <= clock + CleanupInterval
  /\ sessions \in [Convs -> Session \cup {None}]
  /\ \A s \in Convs : sessions[s] # None => cleanup <= sessions[s].used + SessionTtl + CleanupInterval

(* A call that is under way has asked something. *)
CallsInOrder ==
  /\ calls \in [Calls -> Call]
  /\ \A c \in Calls : calls[c].stage = "routing" => calls[c].req \in AskedFields

GatewayInv == CacheInOrder /\ SessionsInOrder /\ CallsInOrder

LEMMA Clocked ==
  ASSUME SessionsInOrder
  PROVE  /\ clock \in Nat /\ cleanup \in Nat /\ clock <= MaxClock /\ clock <= cleanup
         /\ cleanup <= clock + CleanupInterval
         /\ \A s \in Convs : sessions[s] # None =>
              sessions[s] \in Session /\ sessions[s].used \in Nat /\ sessions[s].used <= clock
<1>1. clock \in Nat /\ cleanup \in Nat /\ clock <= MaxClock
  BY Bounds DEF SessionsInOrder
<1>2. \A x \in Session : x.used \in Nat /\ x.used <= clock
  BY <1>1 DEF Session
<1>3. \A s \in Convs : sessions[s] # None => sessions[s] \in Session
  BY DEF SessionsInOrder
<1> QED
  BY <1>1, <1>2, <1>3 DEF SessionsInOrder

LEMMA GatewayStarts == GatewayInit => GatewayInv
<1> SUFFICES ASSUME GatewayInit PROVE GatewayInv
  OBVIOUS
<1> DEFINE E == <<>>
<1>1. (\A S : E \in Seq(S)) /\ Len(E) = 0 /\ KeysOf(E) = E
  BY KeysEmpty
<1>2. cache = E /\ recent = E
  BY DEF GatewayInit
<1>3. NoneTwice(E)
  BY <1>1 DEF NoneTwice
<1>4. NoCall \in Call
  BY <1>1 DEF NoCall, Call, Stages
<1> HIDE DEF E
<1>5. CacheInOrder
  BY <1>1, <1>2, <1>3, Bounds DEF CacheInOrder
<1>6. SessionsInOrder
  BY Bounds DEF GatewayInit, SessionsInOrder
<1>7. CallsInOrder
  BY <1>4 DEF GatewayInit, CallsInOrder, NoCall
<1> QED
  BY <1>5, <1>6, <1>7 DEF GatewayInv

(* An answer from the cache is what was made for its key, within the ttl.  *)
LEMMA HitIs ==
  ASSUME CacheInOrder, clock \in Nat, NEW q \in AskedFields, Hit(q.key), NEW i \in CachedAt(q.key)
  PROVE  /\ cache[i] \in Good /\ cache[i].key = q.key /\ cache[i].answer \in Answers
         /\ cache[i].answer.key = q.key /\ clock - cache[i].answer.made <= CacheTtl
<1>1. cache \in Seq(Good) /\ NoneTwice(KeysOf(cache)) /\ DOMAIN cache = 1..Len(cache)
  BY LenProperties DEF CacheInOrder
<1>2. cache[i] \in Good /\ cache[i].key = q.key /\ cache[i] \in ToSet(cache)
  BY <1>1, ElementOfSeq DEF CachedAt, ToSet
<1>3. PICK j \in CachedAt(q.key) : clock <= cache[j].until
  BY DEF Hit
<1>4. cache[j].key = q.key /\ cache[j] \in ToSet(cache)
  BY <1>3 DEF CachedAt, ToSet
<1>5. cache[j] = cache[i]
  BY <1>1, <1>2, <1>4, KeyTells
<1>6. cache[i].answer \in Answers /\ cache[i].answer.key = q.key
      /\ cache[i].until \in Int /\ cache[i].until <= cache[i].answer.made + CacheTtl
  BY <1>2, Bounds DEF Good, Entry
<1>7. cache[i].answer.made \in Nat
  BY <1>6, Bounds DEF Answers
<1>8. clock - cache[i].answer.made <= CacheTtl
  BY <1>3, <1>5, <1>6, <1>7, Bounds
<1> QED
  BY <1>2, <1>6, <1>8

LEMMA AllKept == CacheInOrder => cache = Only(cache, Entry)
<1> SUFFICES ASSUME CacheInOrder PROVE cache = Only(cache, Entry)
  OBVIOUS
<1>1. cache \in Seq(Good)
  BY DEF CacheInOrder
<1>2. \A e \in ToSet(cache) : e \in Entry
  BY <1>1, KeysAre DEF Good
<1> QED
  BY <1>1, <1>2, OnlyAll

LEMMA NoneKept == CacheInOrder => <<>> = Only(cache, {})
<1> SUFFICES ASSUME CacheInOrder PROVE <<>> = Only(cache, {})
  OBVIOUS
<1>1. cache \in Seq(Good)
  BY DEF CacheInOrder
<1> QED
  BY <1>1, OnlyNone

LEMMA SameCache == CacheInOrder /\ UNCHANGED <<cache, recent>> => CacheInOrder'
  BY DEF CacheInOrder

LEMMA SameSessions == SessionsInOrder /\ UNCHANGED <<clock, cleanup, sessions>> => SessionsInOrder'
  BY DEF SessionsInOrder, Session

(* A call starts, changes or ends; the others stay as they are. *)
LEMMA CallChanges ==
  ASSUME CallsInOrder, NEW c \in Calls, NEW r \in Call, calls' = [calls EXCEPT ![c] = r],
         r.stage = "routing" => r.req \in AskedFields
  PROVE  CallsInOrder'
<1>1. calls \in [Calls -> Call]
  BY DEF CallsInOrder
<1>2. calls' \in [Calls -> Call] /\ calls'[c] = r /\ \A d \in Calls \ {c} : calls'[d] = calls[d]
  BY <1>1
<1> QED
  BY <1>2 DEF CallsInOrder

LEMMA NoCallIs ==
  /\ NoCall \in Call /\ NoCall.stage = "idle"
<1>1. <<>> \in Seq({"chunk", "done", "error"})
  OBVIOUS
<1> QED
  BY <1>1 DEF NoCall, Call, Stages

LEMMA CallEnds ==
  ASSUME CallsInOrder, NEW c \in Calls, calls' = [calls EXCEPT ![c] = NoCall]
  PROVE  CallsInOrder'
  BY NoCallIs, CallChanges

LEMMA CallEnters ==
  ASSUME CallsInOrder, NEW c \in Calls, NEW q \in AskedFields, calls' = [calls EXCEPT ![c] = Enters(q)]
  PROVE  CallsInOrder'
<1> DEFINE r == Enters(q)
<1> DEFINE n == NoCall
<1>1. n \in Call /\ r = [n EXCEPT !.stage = "routing", !.req = q]
  BY NoCallIs DEF Enters
<1> HIDE DEF n, r
<1>3. r \in Call /\ r.stage = "routing" /\ r.req = q
  BY <1>1 DEF Call, Stages
<1> HIDE DEF r
<1>4. calls' = [calls EXCEPT ![c] = r]
  BY DEF r
<1> QED
  BY <1>3, <1>4, CallChanges

LEMMA AnswerKeeps ==
  ASSUME GatewayInv, NEW c \in Calls, NEW q \in Asked, AnswerFromCache(c, q)
  PROVE  GatewayInv'
<1>1. q \in AskedFields /\ q.key \in Keys
  BY Bounds DEF AskedFields
<1>2. clock \in Nat /\ CacheInOrder /\ SessionsInOrder /\ CallsInOrder
  BY Clocked DEF GatewayInv
<1>3. PICK i \in CachedAt(q.key) :
        /\ cache' = Moved(cache[i])
        /\ calls' = [calls EXCEPT ![c] =
             [NoCall EXCEPT !.stage = "cached", !.req = q, !.answer = cache[i].answer]]
  BY DEF AnswerFromCache
<1>4. cache[i] \in Good /\ cache[i].key = q.key /\ cache[i].answer \in Answers
  BY <1>1, <1>2, HitIs DEF AnswerFromCache
<1>5. CacheInOrder'
  BY <1>1, <1>2, <1>3, <1>4, UsedInOrder DEF AnswerFromCache, Moved
<1>6. SessionsInOrder'
  BY <1>2, SameSessions DEF AnswerFromCache
<1> DEFINE r == [NoCall EXCEPT !.stage = "cached", !.req = q, !.answer = cache[i].answer]
<1>7. r \in Call /\ r.stage = "cached"
  <2> DEFINE n == NoCall
             a == cache[i].answer
  <2>1. n \in Call /\ a \in Answers /\ r = [n EXCEPT !.stage = "cached", !.req = q, !.answer = a]
    BY <1>4, NoCallIs
  <2> HIDE DEF n, r, a
  <2> QED
    BY <1>1, <2>1 DEF Call, Stages
<1>8. calls' = [calls EXCEPT ![c] = r]
  BY <1>3
<1> HIDE DEF r
<1>9. CallsInOrder'
  BY <1>2, <1>7, <1>8, CallChanges
<1> QED
  BY <1>5, <1>6, <1>9 DEF GatewayInv

(* A session that is looked up, or stuck to a provider, is used now. *)
LEMMA SessionUsed ==
  ASSUME SessionsInOrder, UNCHANGED <<clock, cleanup>>, NEW s \in Convs, NEW x \in Session \cup {None},
         sessions' = [sessions EXCEPT ![s] = x], x # None => x.used = clock
  PROVE  SessionsInOrder'
<1>1. sessions \in [Convs -> Session \cup {None}]
  BY DEF SessionsInOrder
<1>2. sessions' \in [Convs -> Session \cup {None}] /\ sessions'[s] = x
      /\ \A u \in Convs \ {s} : sessions'[u] = sessions[u]
  BY <1>1
<1>3. cleanup <= clock + SessionTtl + CleanupInterval
  BY Clocked, Bounds
<1>4. \A u \in Convs : sessions'[u] # None => cleanup <= sessions'[u].used + SessionTtl + CleanupInterval
  BY <1>2, <1>3 DEF SessionsInOrder
<1>5. Session' = Session
  BY DEF Session
<1> QED
  BY <1>2, <1>4, <1>5 DEF SessionsInOrder

LEMMA ArriveKeeps ==
  ASSUME GatewayInv, NEW c \in Calls, NEW q \in Asked, Arrive(c, q)
  PROVE  GatewayInv'
<1>1. q \in AskedFields /\ q.key \in Keys /\ q.conv \in Convs \cup {None}
  BY Bounds DEF AskedFields
<1>2. CacheInOrder /\ SessionsInOrder /\ CallsInOrder
  BY DEF GatewayInv
<1>3. CacheInOrder'
  <2>1. recent' = InCache(recent) /\ (cache' = cache \/ cache' = Without(q.key))
    BY DEF Arrive
  <2>2. \E S : cache' = Only(cache, S)
    BY <1>2, <2>1, AllKept DEF Without
  <2> QED
    BY <1>2, <2>1, <2>2, ShrunkInOrder
<1>4. CallsInOrder'
  BY <1>1, <1>2, CallEnters DEF Arrive
<1>5. SessionsInOrder'
  <2>1. UNCHANGED <<clock, cleanup>> /\ sessions' = Touched(q.conv)
    BY DEF Arrive
  <2>2. CASE q.conv = None \/ sessions[q.conv] = None
    BY <1>2, <2>1, <2>2, SameSessions DEF Touched
  <2>3. CASE ~(q.conv = None \/ sessions[q.conv] = None)
    <3> DEFINE o == sessions[q.conv]
               x == IF Expired(o) THEN None ELSE [o EXCEPT !.used = clock]
    <3>1. q.conv \in Convs /\ sessions[q.conv] # None
      BY <1>1, <2>3
    <3>2. o \in Session /\ sessions \in [Convs -> Session \cup {None}]
      BY <1>2, <3>1, Clocked DEF SessionsInOrder
    <3>3. sessions' = [sessions EXCEPT ![q.conv] = x]
      BY <2>1, <2>3, <3>1, <3>2 DEF Touched
    <3>4. clock \in 0..clock
      BY <1>2, Clocked
    <3>5. [o EXCEPT !.used = clock] \in Session /\ [o EXCEPT !.used = clock].used = clock
      BY <3>2, <3>4 DEF Session
    <3>6. x \in Session \cup {None} /\ (x # None => x.used = clock)
      BY <3>5
    <3> HIDE DEF x
    <3> QED
      BY <1>2, <2>1, <3>1, <3>3, <3>6, SessionUsed
  <2> QED
    BY <2>2, <2>3
<1> QED
  BY <1>3, <1>4, <1>5 DEF GatewayInv

LEMMA ElsewhereKeeps ==
  ASSUME GatewayInv, NEW c \in Calls, NEW q \in Asked, ArriveElsewhere(c, q)
  PROVE  GatewayInv'
<1> DEFINE r == [q EXCEPT !.stream = q.path = "playground" /\ @]
<1>1. q \in AskedFields
  BY Bounds
<1>2. r \in AskedFields
  BY <1>1 DEF AskedFields
<1>3. CallsInOrder /\ calls' = [calls EXCEPT ![c] = Enters(r)]
  BY DEF ArriveElsewhere, GatewayInv
<1> HIDE DEF r
<1>4. CallsInOrder'
  BY <1>2, <1>3, CallEnters
<1> QED
  BY <1>4, SameCache, SameSessions DEF ArriveElsewhere, GatewayInv

LEMMA RoutedKeeps ==
  ASSUME GatewayInv, NEW c \in Calls, NEW p \in Providers, NEW streams \in BOOLEAN, Routed(c, p, streams)
  PROVE  GatewayInv'
<1> DEFINE q == calls[c].req
           r == [calls[c] EXCEPT !.stage = IF streams THEN "streaming" ELSE "answered"]
<1>1. CacheInOrder /\ SessionsInOrder /\ CallsInOrder
  BY DEF GatewayInv
<1>2. calls \in [Calls -> Call] /\ calls[c].stage = "routing" /\ q \in AskedFields
  BY <1>1 DEF Routed, CallsInOrder
<1>3. q.key \in Keys /\ q.conv \in Convs \cup {None}
  BY <1>2 DEF AskedFields
<1>4. clock \in Nat /\ clock <= MaxClock
  BY <1>1, Clocked
<1>5. CallsInOrder'
  <2>1. calls' = [calls EXCEPT ![c] = r]
    BY <1>2 DEF Routed
  <2>2. r \in Call /\ r.stage \in {"streaming", "answered"}
    <3> DEFINE o == calls[c]
    <3>1. o \in Call
      BY <1>2
    <3> HIDE DEF o
    <3>2. /\ [o EXCEPT !.stage = "streaming"] \in Call /\ [o EXCEPT !.stage = "answered"] \in Call
          /\ [o EXCEPT !.stage = "streaming"].stage = "streaming"
          /\ [o EXCEPT !.stage = "answered"].stage = "answered"
      BY <3>1 DEF Call, Stages
    <3>3. r = [o EXCEPT !.stage = "streaming"] \/ r = [o EXCEPT !.stage = "answered"]
      BY DEF o
    <3> QED
      BY <3>2, <3>3 DEF o
  <2> HIDE DEF r
  <2> QED
    BY <1>1, <2>1, <2>2, CallChanges
<1>6. UNCHANGED <<clock, cleanup>>
  BY DEF Routed
<1>7. SessionsInOrder'
  <2>1. sessions' = sessions \/ sessions' = Stuck(q.conv, p)
    BY DEF Routed
  <2>2. CASE sessions' = sessions
    BY <1>1, <1>6, <2>2, SameSessions
  <2>3. CASE sessions' # sessions
    <3> DEFINE x == [provider |-> p, used |-> clock]
    <3>1. q.conv # None /\ sessions' = [sessions EXCEPT ![q.conv] = x]
      BY <2>1, <2>3 DEF Stuck
    <3>2. x \in Session /\ x.used = clock /\ q.conv \in Convs
      BY <1>3, <1>4, <3>1 DEF Session
    <3> HIDE DEF x
    <3> QED
      BY <1>1, <1>6, <3>1, <3>2, SessionUsed
  <2> QED
    BY <2>2, <2>3
<1>8. CacheInOrder'
  <2> DEFINE a == [key |-> q.key, made |-> clock]
             e == [key |-> q.key, answer |-> a, until |-> clock + CacheTtl]
  <2>1. \/ cache' = cache /\ recent' = recent
        \/ cache' = Put(q.key, a) /\ recent' = UsedNow(q.key)
    BY DEF Routed
  <2>2. a \in Answers
    BY <1>3, <1>4, Bounds DEF Answers
  <2>3. clock + CacheTtl \in 0..(MaxClock + CacheTtl) /\ clock + CacheTtl <= clock + CacheTtl
    BY <1>4, Bounds
  <2>4. e \in Good /\ e.key = q.key
    BY <1>3, <2>2, <2>3 DEF Good, Entry
  <2>5. Put(q.key, a) = IF CachedAt(q.key) # {} THEN Append(Without(q.key), e)
                        ELSE IF Len(cache) >= MaxSize THEN Append(Tail(cache), e) ELSE Append(cache, e)
    BY DEF Put
  <2> HIDE DEF a, e
  <2>6. CASE cache' = cache /\ recent' = recent
    BY <1>1, <2>6, SameCache
  <2>7. CASE cache' = Put(q.key, a) /\ recent' = UsedNow(q.key)
    <3>1. CASE CachedAt(q.key) # {}
      BY <1>1, <1>3, <2>4, <2>5, <2>7, <3>1, UsedInOrder
    <3>2. CASE CachedAt(q.key) = {} /\ Len(cache) >= MaxSize
      BY <1>1, <1>3, <2>4, <2>5, <2>7, <3>2, EvictedInOrder
    <3>3. CASE CachedAt(q.key) = {} /\ ~(Len(cache) >= MaxSize)
      <4>1. Without(q.key) = cache
        BY <1>1, <1>3, <3>3, WithoutIs
      <4>2. cache' = Append(Without(q.key), e)
        BY <2>5, <2>7, <3>3, <4>1
      <4>3. Len(cache) + 1 <= MaxSize
        <5>1. Len(cache) \in Nat
          BY <1>1, LenProperties DEF CacheInOrder
        <5> QED
          BY <3>3, <5>1, Bounds
      <4> QED
        BY <1>1, <1>3, <2>4, <2>7, <4>2, <4>3, UsedInOrder
    <3> QED
      BY <3>1, <3>2, <3>3
  <2> QED
    BY <2>1, <2>6, <2>7
<1> QED
  BY <1>5, <1>7, <1>8 DEF GatewayInv

LEMMA CallEndsKeep ==
  ASSUME GatewayInv, NEW c \in Calls,
         (\E room \in BOOLEAN : Limited(c, room)) \/ Failed(c) \/ QueueEnds(c) \/ Leave(c)
  PROVE  GatewayInv'
<1>1. CacheInOrder /\ SessionsInOrder /\ CallsInOrder
  BY DEF GatewayInv
<1>2. UNCHANGED <<clock, cache, sessions, cleanup, recent>>
  BY DEF Limited, Failed, QueueEnds, Leave
<1>3. CallsInOrder'
  <2>1. CASE calls' = [calls EXCEPT ![c] = NoCall]
    BY <1>1, <2>1, CallEnds
  <2>2. CASE \E room \in BOOLEAN : Limited(c, room)
    <3> DEFINE o == calls[c]
               r == [o EXCEPT !.stage = "queued"]
    <3>1. o \in Call /\ o.stage = "routing" /\ o.req \in AskedFields /\ calls \in [Calls -> Call]
      BY <1>1, <2>2 DEF Limited, CallsInOrder
    <3>2. calls' = [calls EXCEPT ![c] = NoCall] \/ calls' = [calls EXCEPT ![c] = r]
      BY <2>2, <3>1 DEF Limited
    <3>3. r \in Call /\ r.stage = "queued"
      <4> HIDE DEF o
      <4> QED
        BY <3>1 DEF Call, Stages
    <3> HIDE DEF r, o
    <3>4. CASE calls' = [calls EXCEPT ![c] = r]
      BY <1>1, <3>3, <3>4, CallChanges
    <3> QED
      BY <2>1, <3>2, <3>4
  <2> QED
    BY <2>1, <2>2 DEF Failed, QueueEnds, Leave
<1> QED
  BY <1>1, <1>2, <1>3, SameCache, SameSessions DEF GatewayInv

Frames == {"chunk", "done", "error"}

LEMMA TwoMore ==
  ASSUME NEW T, NEW s \in Seq(T), NEW x \in T, NEW y \in T
  PROVE  s \o <<x, y>> \in Seq(T)
OBVIOUS

LEMMA FrameKeeps ==
  ASSUME GatewayInv, NEW c \in Calls, NEW f \in {"chunk", "done"}, Frame(c, f)
  PROVE  GatewayInv'
<1>1. CacheInOrder /\ SessionsInOrder /\ CallsInOrder
  BY DEF GatewayInv
<1>2. UNCHANGED <<clock, cache, sessions, cleanup, recent>>
  BY DEF Frame
<1> DEFINE o == calls[c]
           s == Append(o.frames, f)
           r == [o EXCEPT !.frames = s]
<1>3. o \in Call /\ o.stage = "streaming" /\ calls \in [Calls -> Call] /\ f \in Frames
  BY <1>1 DEF Frame, CallsInOrder, Frames
<1>4. o.frames \in Seq(Frames)
  BY <1>3 DEF Call, Frames
<1>5. s \in Seq(Frames)
  BY <1>3, <1>4, AppendProperties
<1>6. calls' = [calls EXCEPT ![c] = r]
  BY <1>3 DEF Frame
<1> HIDE DEF o, s
<1>7. r \in Call /\ r.stage = "streaming"
  BY <1>3, <1>5 DEF Call, Frames
<1> HIDE DEF r
<1>8. CallsInOrder'
  BY <1>1, <1>6, <1>7, CallChanges
<1> QED
  BY <1>1, <1>2, <1>8, SameCache, SameSessions DEF GatewayInv

LEMMA StreamEndsKeep ==
  ASSUME GatewayInv, NEW c \in Calls, NEW broken \in BOOLEAN, StreamEnds(c, broken)
  PROVE  GatewayInv'
<1>1. CacheInOrder /\ SessionsInOrder /\ CallsInOrder
  BY DEF GatewayInv
<1>2. UNCHANGED <<clock, cache, sessions, cleanup, recent>>
  BY DEF StreamEnds
<1> DEFINE o == calls[c]
           s == IF broken THEN AtError(o.frames) ELSE o.frames
           r == [o EXCEPT !.stage = "streamed", !.frames = s]
<1>3. o \in Call /\ calls \in [Calls -> Call]
  BY <1>1 DEF StreamEnds, CallsInOrder
<1>4. o.frames \in Seq(Frames)
  BY <1>3 DEF Call, Frames
<1>5. s \in Seq(Frames)
  <2> DEFINE f == o.frames
  <2>1. f \in Seq(Frames) /\ "error" \in Frames /\ "done" \in Frames
    BY <1>4 DEF Frames
  <2> HIDE DEF f
  <2>2. f \o <<"error", "done">> \in Seq(Frames)
    BY <2>1, TwoMore
  <2> QED
    BY <2>1, <2>2 DEF AtError, f
<1>6. calls' = [calls EXCEPT ![c] = r]
  <2>1. calls' = [calls EXCEPT ![c].stage = "streamed", ![c].frames = IF broken THEN AtError(@) ELSE @]
    BY DEF StreamEnds
  <2> QED
    BY <1>3, <2>1 DEF Call
<1> HIDE DEF o, s
<1>7. r \in Call /\ r.stage = "streamed"
  BY <1>3, <1>5 DEF Call, Frames, Stages
<1> HIDE DEF r
<1>8. CallsInOrder'
  BY <1>1, <1>6, <1>7, CallChanges
<1> QED
  BY <1>1, <1>2, <1>8, SameCache, SameSessions DEF GatewayInv

LEMMA ClearKeeps == ASSUME GatewayInv, ClearCache PROVE GatewayInv'
<1>1. CacheInOrder /\ SessionsInOrder /\ CallsInOrder
  BY DEF GatewayInv
<1>2. \E S : cache' = Only(cache, S)
  BY <1>1, NoneKept DEF ClearCache
<1>3. CacheInOrder'
  BY <1>1, <1>2, ShrunkInOrder DEF ClearCache
<1> QED
  BY <1>1, <1>3, SameSessions DEF ClearCache, GatewayInv, CallsInOrder

LEMMA Unexpired ==
  ASSUME SessionsInOrder
  PROVE  /\ UnexpiredSessions \in [Convs -> Session \cup {None}]
         /\ \A s \in Convs : UnexpiredSessions[s] # None =>
              /\ UnexpiredSessions[s] = sessions[s]
              /\ clock <= UnexpiredSessions[s].used + SessionTtl
<1>1. sessions \in [Convs -> Session \cup {None}]
  BY DEF SessionsInOrder
<1>2. \A s \in Convs : UnexpiredSessions[s] =
        IF sessions[s] # None /\ Expired(sessions[s]) THEN None ELSE sessions[s]
  BY DEF UnexpiredSessions
<1>3. UnexpiredSessions = [s \in Convs |-> UnexpiredSessions[s]]
  BY DEF UnexpiredSessions
<1>4. \A s \in Convs : UnexpiredSessions[s] \in Session \cup {None}
  BY <1>1, <1>2
<1>5. ASSUME NEW s \in Convs, UnexpiredSessions[s] # None
      PROVE  UnexpiredSessions[s] = sessions[s] /\ clock <= UnexpiredSessions[s].used + SessionTtl
  <2>1. sessions[s] # None /\ ~Expired(sessions[s]) /\ UnexpiredSessions[s] = sessions[s]
    BY <1>2, <1>5
  <2>2. sessions[s].used \in Nat /\ clock \in Nat
    BY <2>1, Clocked
  <2>3. ~(clock - sessions[s].used > SessionTtl)
    BY <2>1 DEF Expired
  <2>4. clock <= sessions[s].used + SessionTtl
    BY <2>2, <2>3, Bounds
  <2> QED
    BY <2>1, <2>4
<1> HIDE DEF UnexpiredSessions
<1> QED
  BY <1>3, <1>4, <1>5

LEMMA EndSessionsKeep == ASSUME GatewayInv, EndSessions PROVE GatewayInv'
<1>1. CacheInOrder /\ SessionsInOrder /\ CallsInOrder
  BY DEF GatewayInv
<1>2. UNCHANGED <<clock, cache, cleanup, calls, recent>>
  BY DEF EndSessions
<1>3. SessionsInOrder'
  <2>1. CASE sessions' = UnexpiredSessions
    BY <1>1, <1>2, <2>1, Unexpired DEF SessionsInOrder, Session
  <2>2. CASE \E s \in Convs : sessions' = [sessions EXCEPT ![s] = None]
    BY <1>1, <1>2, <2>2, SessionUsed
  <2> QED
    BY <2>1, <2>2 DEF EndSessions
<1> QED
  BY <1>1, <1>2, <1>3, SameCache DEF GatewayInv, CallsInOrder

LEMMA LoopKeeps == ASSUME GatewayInv, CleanupLoop PROVE GatewayInv'
<1>1. CacheInOrder /\ SessionsInOrder /\ CallsInOrder
  BY DEF GatewayInv
<1>2. UNCHANGED <<clock, cache, calls, recent>> /\ sessions' = UnexpiredSessions
      /\ cleanup' = clock + CleanupInterval
  BY DEF CleanupLoop
<1>3. clock \in Nat /\ clock \in 0..MaxClock
  BY <1>1, Clocked DEF SessionsInOrder
<1>4. /\ cleanup' \in 0..(MaxClock + CleanupInterval) /\ clock <= cleanup'
      /\ cleanup' <= clock + CleanupInterval
  BY <1>2, <1>3, Bounds
<1>5. ASSUME NEW s \in Convs, UnexpiredSessions[s] # None
      PROVE  cleanup' <= UnexpiredSessions[s].used + SessionTtl + CleanupInterval
  <2>1. clock <= UnexpiredSessions[s].used + SessionTtl /\ UnexpiredSessions[s].used \in Nat
    BY <1>1, <1>5, Unexpired, Clocked
  <2> HIDE DEF UnexpiredSessions
  <2> QED
    BY <1>2, <1>3, <2>1, Bounds
<1>6. SessionsInOrder'
  <2>1. sessions' \in [Convs -> Session' \cup {None}]
    BY <1>1, <1>2, Unexpired DEF Session
  <2> QED
    BY <1>2, <1>3, <1>4, <1>5, <2>1 DEF SessionsInOrder
<1> QED
  BY <1>1, <1>2, <1>6, SameCache DEF GatewayInv, CallsInOrder

LEMMA TickKeepsOrder == ASSUME GatewayInv, Tick PROVE GatewayInv'
<1>1. CacheInOrder /\ SessionsInOrder /\ CallsInOrder
  BY DEF GatewayInv
<1>2. UNCHANGED <<cache, sessions, cleanup, calls, recent>> /\ clock' = clock + 1
      /\ clock < MaxClock /\ clock < cleanup
  BY DEF Tick
<1>3. clock \in Nat /\ cleanup \in Nat /\ cleanup <= clock + CleanupInterval
  BY <1>1, Clocked
<1>4. clock' \in 0..MaxClock /\ clock' <= cleanup /\ cleanup <= clock' + CleanupInterval
      /\ 0..clock \subseteq 0..clock'
  BY <1>2, <1>3, Bounds
<1>5. Session \subseteq Session'
  BY <1>4 DEF Session
<1>6. sessions \in [Convs -> Session' \cup {None}]
  BY <1>1, <1>5 DEF SessionsInOrder
<1>7. SessionsInOrder'
  BY <1>1, <1>2, <1>4, <1>6 DEF SessionsInOrder
<1> QED
  BY <1>1, <1>2, <1>7, SameCache DEF GatewayInv, CallsInOrder

LEMMA GatewayStep == GatewayInv /\ [GatewayNext]_gatewayVars => GatewayInv'
<1> SUFFICES ASSUME GatewayInv, [GatewayNext]_gatewayVars PROVE GatewayInv'
  OBVIOUS
<1>1. CASE \E c \in Calls, q \in Asked : AnswerFromCache(c, q) \/ Arrive(c, q) \/ ArriveElsewhere(c, q)
  BY <1>1, AnswerKeeps, ArriveKeeps, ElsewhereKeeps
<1>2. CASE \E c \in Calls, p \in Providers, streams \in BOOLEAN : Routed(c, p, streams)
  BY <1>2, RoutedKeeps
<1>3. CASE \E c \in Calls : (\E room \in BOOLEAN : Limited(c, room)) \/ Failed(c) \/ QueueEnds(c) \/ Leave(c)
  BY <1>3, CallEndsKeep
<1>4. CASE \E c \in Calls : \/ \E f \in {"chunk", "done"} : Frame(c, f)
                            \/ \E broken \in BOOLEAN : StreamEnds(c, broken)
  BY <1>4, FrameKeeps, StreamEndsKeep
<1>5. CASE ClearCache \/ EndSessions \/ CleanupLoop \/ Tick
  BY <1>5, ClearKeeps, EndSessionsKeep, LoopKeeps, TickKeepsOrder
<1>6. CASE UNCHANGED gatewayVars
  BY <1>6, SameCache, SameSessions DEF gatewayVars, GatewayInv, CallsInOrder
<1> QED
  BY <1>1, <1>2, <1>3, <1>4, <1>5, <1>6 DEF GatewayNext

(* What requests leave behind is in order: the cache in the order of use,  *)
(* the sessions no longer than their time and the wait for the cleanup     *)
(* loop (ResponseCache, StickySessionManager).                             *)
THEOREM AllLeftInOrder == GatewaySpec => []LeftInOrder
<1>1. GatewayInv => LeftInOrder
  <2> SUFFICES ASSUME GatewayInv PROVE LeftInOrder
    OBVIOUS
  <2>1. OrderIsOfUse
    <3>1. cache \in Seq(Good) /\ recent = KeysOf(cache)
      BY DEF GatewayInv, CacheInOrder
    <3>2. DOMAIN recent = DOMAIN cache /\ \A i \in DOMAIN cache : recent[i] = cache[i].key
      BY <3>1 DEF KeysOf
    <3> QED
      BY <3>2 DEF OrderIsOfUse
  <2>2. IdleSessionsGo
    <3> SUFFICES ASSUME NEW s \in Convs, sessions[s] # None
                 PROVE  clock - sessions[s].used <= SessionTtl + CleanupInterval
      BY DEF IdleSessionsGo
    <3>1. cleanup <= sessions[s].used + SessionTtl + CleanupInterval /\ SessionsInOrder
      BY DEF GatewayInv, SessionsInOrder
    <3>2. clock \in Nat /\ cleanup \in Nat /\ clock <= cleanup /\ sessions[s].used \in Nat
      BY <3>1, Clocked
    <3> QED
      BY <3>1, <3>2, Bounds
  <2> QED
    BY <2>1, <2>2 DEF LeftInOrder
<1> QED
  BY <1>1, GatewayStarts, GatewayStep, PTL DEF GatewaySpec

(* A call is never answered from the cache with what was made for another  *)
(* key, or longer ago than the ttl (get: a hit does not renew an entry).   *)
THEOREM CachedStaysFresh == GatewaySpec => CachedIsFresh
<1>1. GatewayInv /\ [GatewayNext]_gatewayVars =>
        [\A c \in Calls : calls[c].stage = "idle" /\ calls'[c].stage = "cached" =>
           /\ calls'[c].answer.key = calls'[c].req.key
           /\ clock - calls'[c].answer.made <= CacheTtl]_gatewayVars
  <2> SUFFICES ASSUME GatewayInv, GatewayNext, NEW c \in Calls,
                      calls[c].stage = "idle", calls'[c].stage = "cached"
               PROVE  /\ calls'[c].answer.key = calls'[c].req.key
                      /\ clock - calls'[c].answer.made <= CacheTtl
    OBVIOUS
  <2>1. calls \in [Calls -> Call] /\ CacheInOrder /\ clock \in Nat
    BY Clocked DEF GatewayInv, CallsInOrder
  <2>2. CASE \E q \in Asked : AnswerFromCache(c, q)
    <3>1. PICK q \in Asked : AnswerFromCache(c, q)
      BY <2>2
    <3>2. PICK i \in CachedAt(q.key) : calls' = [calls EXCEPT ![c] =
             [NoCall EXCEPT !.stage = "cached", !.req = q, !.answer = cache[i].answer]]
      BY <3>1 DEF AnswerFromCache
    <3>3. q \in AskedFields /\ Hit(q.key)
      BY <3>1, Bounds DEF AnswerFromCache
    <3>4. cache[i].answer.key = q.key /\ clock - cache[i].answer.made <= CacheTtl
      BY <2>1, <3>3, HitIs
    <3>5. calls'[c].req = q /\ calls'[c].answer = cache[i].answer
      <4> DEFINE n == NoCall
      <4>1. n \in Call
        BY NoCallIs
      <4>2. calls'[c] = [n EXCEPT !.stage = "cached", !.req = q, !.answer = cache[i].answer]
        BY <2>1, <3>2
      <4> HIDE DEF n
      <4> QED
        BY <4>1, <4>2 DEF Call
    <3> QED
      BY <3>4, <3>5
  <2>3. CASE ~\E q \in Asked : AnswerFromCache(c, q)
    <3>1. ASSUME NEW d \in Calls, NEW r, calls' = [calls EXCEPT ![d] = r], r.stage # "cached" PROVE FALSE
      BY <2>1, <3>1
    <3>2. ASSUME NEW d \in Calls, NEW q \in Asked, AnswerFromCache(d, q) PROVE FALSE
      <4>1. d # c
        BY <2>3, <3>2
      <4>2. calls'[c] = calls[c]
        BY <2>1, <3>2, <4>1 DEF AnswerFromCache
      <4> QED
        BY <4>2
    <3>3. ASSUME NEW d \in Calls, NEW q, calls' = [calls EXCEPT ![d] = Enters(q)] PROVE FALSE
      <4> DEFINE n == NoCall
                 r == [n EXCEPT !.stage = "routing", !.req = q]
      <4>1. n \in Call /\ calls' = [calls EXCEPT ![d] = r]
        BY <3>3, NoCallIs DEF Enters
      <4>2. r.stage = "routing"
        <5> HIDE DEF n
        <5> QED
          BY <4>1 DEF Call
      <4> HIDE DEF r
      <4> QED
        BY <3>1, <4>1, <4>2
    <3>4. ASSUME NEW d \in Calls, calls' = [calls EXCEPT ![d] = NoCall] PROVE FALSE
      BY <3>1, <3>4, NoCallIs
    <3>5. ASSUME NEW d \in Calls, NEW p \in Providers, NEW streams \in BOOLEAN, Routed(d, p, streams) PROVE FALSE
      BY <2>1, <3>5 DEF Routed, Call
    <3>6. ASSUME NEW d \in Calls, NEW room \in BOOLEAN, Limited(d, room) PROVE FALSE
      BY <2>1, <3>4, <3>6 DEF Limited, Call
    <3>7. ASSUME NEW d \in Calls, NEW f, Frame(d, f) PROVE FALSE
      BY <2>1, <3>7 DEF Frame, Call
    <3>8. ASSUME NEW d \in Calls, NEW broken, StreamEnds(d, broken) PROVE FALSE
      BY <2>1, <3>8 DEF StreamEnds, Call
    <3>9. ASSUME ClearCache \/ EndSessions \/ CleanupLoop \/ Tick PROVE FALSE
      BY <3>9 DEF ClearCache, EndSessions, CleanupLoop, Tick
    <3>10. ASSUME NEW d \in Calls, Failed(d) \/ QueueEnds(d) \/ Leave(d) PROVE FALSE
      BY <3>4, <3>10 DEF Failed, QueueEnds, Leave
    <3>11. ASSUME NEW d \in Calls, NEW q \in Asked, Arrive(d, q) \/ ArriveElsewhere(d, q) PROVE FALSE
      BY <3>3, <3>11 DEF Arrive, ArriveElsewhere
    <3> QED
      BY <3>2, <3>5, <3>6, <3>7, <3>8, <3>9, <3>10, <3>11 DEF GatewayNext
  <2> QED
    BY <2>2, <2>3
<1>2. GatewaySpec => []GatewayInv
  BY GatewayStarts, GatewayStep, PTL DEF GatewaySpec
<1> QED
  BY <1>1, <1>2, PTL DEF GatewaySpec, CachedIsFresh

(* The cache is never over its limit and has a key once (put); sessions    *)
(* and calls have the shape the handlers give them (chat_completions).     *)
THEOREM RequestsTyped == GatewaySpec => []GatewayTypeOK
<1>1. GatewayInv => GatewayTypeOK
  <2> SUFFICES ASSUME GatewayInv PROVE GatewayTypeOK
    OBVIOUS
  <2>1. cache \in Seq(Good) /\ Len(cache) <= MaxSize /\ NoneTwice(KeysOf(cache))
    BY DEF GatewayInv, CacheInOrder
  <2>2. cache \in Seq(Entry)
    BY <2>1, SeqMonotonic DEF Good
  <2>3. ASSUME NEW k \in Keys PROVE Cardinality(CachedAt(k)) <= 1
    <3>1. CASE CachedAt(k) = {}
      BY <3>1, FS_EmptySet
    <3>2. CASE CachedAt(k) # {}
      <4>1. PICK i \in CachedAt(k) : TRUE
        BY <3>2
      <4>2. Len(KeysOf(cache)) = Len(cache) /\ \A j \in 1..Len(cache) : KeysOf(cache)[j] = cache[j].key
        BY <2>1, KeysType
      <4>3. \A j \in CachedAt(k) : j \in 1..Len(cache) /\ cache[j].key = k
        BY <2>1, LenProperties DEF CachedAt
      <4>4. \A j \in CachedAt(k) : j = i
        BY <2>1, <4>1, <4>2, <4>3 DEF NoneTwice
      <4>5. CachedAt(k) = {i}
        BY <4>1, <4>4
      <4>6. Cardinality({i}) = 1
        BY FS_Singleton
      <4> QED
        BY <4>5, <4>6
    <3> QED
      BY <3>1, <3>2
  <2> QED
    BY <2>1, <2>2, <2>3 DEF GatewayInv, GatewayTypeOK, SessionsInOrder, Session, CallsInOrder
<1> QED
  BY <1>1, GatewayStarts, GatewayStep, PTL DEF GatewaySpec
-----------------------------------------------------------------------------
(***************************************************************************)
(* Naming.                                                                 *)
(***************************************************************************)
LEMMA FirstIs ==
  ASSUME NEW T, NEW s \in Seq(T), s # <<>>
  PROVE  FirstOf(s) \in T
<1>1. s[1] \in T
  BY EmptySeq, ElementOfSeq, LenProperties
<1> QED
  BY <1>1 DEF FirstOf

LEMMA FirstOrNone ==
  ASSUME NEW T, NEW s \in Seq(T)
  PROVE  FirstOf(s) \in T \cup {NoName}
<1>1. CASE s = <<>>
  BY <1>1 DEF FirstOf
<1>2. CASE s # <<>>
  BY <1>2, FirstIs
<1> QED
  BY <1>1, <1>2

(* What is kept of a list is a list of what it may be. *)
LEMMA OnlyOf ==
  ASSUME NEW T, NEW s \in Seq(T), NEW S
  PROVE  Only(s, S) \in Seq(S)
<1> DEFINE e == Only(s, S)
<1>1. e \in Seq(T) /\ ToSet(e) \subseteq S
  BY OnlyType, OnlyElements
<1> HIDE DEF e
<1>2. Len(e) \in Nat /\ DOMAIN e = 1..Len(e) /\ e = [i \in 1..Len(e) |-> e[i]]
  BY <1>1, LenProperties
<1>3. \A i \in 1..Len(e) : e[i] \in S
  BY <1>1, <1>2 DEF ToSet
<1>4. e \in Seq(S)
  <2>1. e \in [1..Len(e) -> S]
    BY <1>2, <1>3
  <2> QED
    BY <1>2, <2>1, SeqDef
<1> QED
  BY <1>4 DEF e

LEMMA OnlySome ==
  ASSUME NEW T, NEW s \in Seq(T), NEW S, NEW x \in ToSet(s), x \in S
  PROVE  Only(s, S) # <<>>
<1>1. x \in ToSet(Only(s, S))
  BY OnlyElements
<1> QED
  BY <1>1, ToSetEmpty

LEMMA Joins ==
  ASSUME NEW T, NEW s \in Seq(T), NEW t \in Seq(T)
  PROVE  s \o t \in Seq(T) /\ (s # <<>> \/ t # <<>> => s \o t # <<>>)
<1>1. s \o t \in Seq(T) /\ Len(s \o t) = Len(s) + Len(t)
  BY ConcatProperties
<1>2. Len(s) \in Nat /\ Len(t) \in Nat /\ (s # <<>> => Len(s) # 0) /\ (t # <<>> => Len(t) # 0)
  BY LenProperties, EmptySeq
<1> QED
  BY <1>1, <1>2, EmptySeq

(* The lists of a catalog are of its models. *)
LEMMA Offered ==
  ASSUME offered \in Catalogs
  PROVE  /\ offered \in Seq(ToSet(offered)) /\ NoName \notin ToSet(offered)
         /\ <<>> \notin ToSet(offered)
         /\ \A S : Having(S) \in Seq(ToSet(offered)) /\ Having(S) \in Seq(S)
         /\ \A ms \in Seq(Names) : Within(ms) \in Seq(ToSet(offered))
<1>1. /\ offered \in Seq(ToSet(offered)) /\ NoName \notin ToSet(offered)
      /\ <<>> \notin ToSet(offered)
  BY NamingAssumption
<1>2. ASSUME NEW S PROVE Having(S) \in Seq(ToSet(offered)) /\ Having(S) \in Seq(S)
  BY <1>1, OnlyType, OnlyOf DEF Having
<1>3. ASSUME NEW ms \in Seq(Names) PROVE Within(ms) \in Seq(ToSet(offered))
  BY OnlyOf DEF Within
<1> QED
  BY <1>1, <1>2, <1>3

(* What lists of names leave of a catalog, one after another. *)
LEMMA AllWithin ==
  ASSUME offered \in Catalogs, NEW lists \in Seq(Seq(Names))
  PROVE  FlattenSeq([i \in DOMAIN lists |-> Within(lists[i])]) \in Seq(ToSet(offered))
<1> DEFINE T == ToSet(offered)
           seqs == [i \in DOMAIN lists |-> Within(lists[i])]
<1>1. Len(lists) \in Nat /\ DOMAIN lists = 1..Len(lists) /\ \A i \in 1..Len(lists) : lists[i] \in Seq(Names)
  BY LenProperties, ElementOfSeq
<1>2. \A i \in 1..Len(lists) : Within(lists[i]) \in Seq(T)
  BY <1>1, Offered
<1>3. seqs \in Seq(Seq(T)) /\ Len(seqs) = Len(lists)
  <2> HIDE DEF T
  <2>1. seqs \in [1..Len(lists) -> Seq(T)]
    BY <1>1, <1>2
  <2>2. seqs \in Seq(Seq(T))
    BY <1>1, <2>1, SeqDef
  <2> QED
    BY <1>1, <2>2, LenProperties
<1> HIDE DEF seqs, T
<1>4. CASE seqs # <<>>
  BY <1>3, <1>4, Flattened DEF seqs, T
<1>5. CASE seqs = <<>>
  <2>1. FlattenSeq(seqs) = <<>> /\ <<>> \in Seq(T)
    BY <1>5 DEF FlattenSeq
  <2> QED
    BY <2>1 DEF seqs, T
<1> QED
  BY <1>4, <1>5

LEMMA PrefixServes ==
  ASSUME offered \in Catalogs, NEW n
  PROVE  ByPrefix(n) \in ToSet(offered) \cup {NoName}
<1> DEFINE F == {f \in ToSet(Families) : Kin(f.prefix, n)}
           families == Only(Families, F)
           lists == [i \in DOMAIN families |-> families[i].models]
           members == FlattenSeq([i \in DOMAIN families |-> Within(families[i].models)])
           others == Having({m \in ToSet(offered) : Kin(m, n)})
<1>1. families \in Seq([prefix : Names, models : Seq(Names)])
  <2> HIDE DEF F
  <2> QED
    BY NamingAssumption, OnlyType
<1> HIDE DEF families
<1>2. lists \in Seq(Seq(Names)) /\ DOMAIN lists = DOMAIN families
  <2>1. Len(families) \in Nat /\ DOMAIN families = 1..Len(families)
        /\ \A i \in 1..Len(families) : families[i].models \in Seq(Names)
    <3> DEFINE Family == [prefix : Names, models : Seq(Names)]
    <3>1. \A f \in Family : f.models \in Seq(Names)
      OBVIOUS
    <3>2. families \in Seq(Family)
      BY <1>1
    <3> HIDE DEF Family
    <3> QED
      BY <3>1, <3>2, LenProperties, ElementOfSeq
  <2>2. lists \in [1..Len(families) -> Seq(Names)]
    BY <2>1
  <2> QED
    BY <2>1, <2>2, SeqDef
<1>3. members \in Seq(ToSet(offered))
  <2>1. members = FlattenSeq([i \in DOMAIN lists |-> Within(lists[i])])
    BY <1>2
  <2> HIDE DEF members, lists
  <2> QED
    BY <1>2, <2>1, AllWithin
<1>4. others \in Seq(ToSet(offered))
  BY Offered
<1>5. ByPrefix(n) = FirstOf(members \o others)
  BY DEF ByPrefix, families
<1> HIDE DEF members, others
<1> QED
  BY <1>3, <1>4, <1>5, Joins, FirstOrNone

LEMMA EquivalentServes ==
  ASSUME offered \in Catalogs, offered # <<>>, NEW n
  PROVE  Equivalent(n) \in ToSet(offered)
<1> DEFINE R == {t \in ToSet(Tiers) : \E m \in ToSet(t) : Related(m, n)}
           tiers == Only(Tiers, R)
           alike == FlattenSeq([i \in DOMAIN tiers |-> Within(tiers[i])])
           frontier == Within(Tiers[1])
<1>1. tiers \in Seq(Seq(Names))
  <2> HIDE DEF R
  <2> QED
    BY NamingAssumption, OnlyType
<1>2. Tiers[1] \in Seq(Names)
  BY NamingAssumption, EmptySeq, LenProperties, ElementOfSeq
<1>3. Equivalent(n) = FirstOf(alike \o frontier \o offered)
  BY DEF Equivalent
<1> HIDE DEF tiers
<1>4. alike \in Seq(ToSet(offered))
  BY <1>1, AllWithin
<1>5. frontier \in Seq(ToSet(offered)) /\ offered \in Seq(ToSet(offered))
  BY <1>2, Offered
<1> HIDE DEF alike, frontier
<1>6. (alike \o frontier) \o offered \in Seq(ToSet(offered)) /\ (alike \o frontier) \o offered # <<>>
  BY <1>4, <1>5, Joins
<1> QED
  BY <1>3, <1>6, FirstIs

(* A name stands for a model there is (resolve).                           *)
LEMMA ResolveServes ==
  ASSUME offered \in Catalogs, offered # <<>>, NEW n
  PROVE  Resolved(n) \in ToSet(offered) /\ (n \in ToSet(offered) => Resolved(n) = n)
<1>1. Equivalent(n) \in ToSet(offered) /\ Equivalent(n) # NoName
  BY EquivalentServes, Offered
<1>2. CASE Step(n) = "exact"
  BY <1>1, <1>2 DEF Step, Resolved
<1>3. CASE Step(n) = "alias"
  BY <1>3 DEF Step, Resolved
<1>4. CASE Step(n) = "prefix"
  BY <1>4, PrefixServes DEF Step, Resolved
<1>5. CASE Step(n) = "equivalent"
  BY <1>1, <1>5 DEF Step, Resolved
<1> QED
  BY <1>1, <1>2, <1>3, <1>4, <1>5 DEF Step

(* One for tools supports them (find_model_with_capability).               *)
LEMMA ToolsServed ==
  ASSUME offered \in Catalogs, NEW n, NEW m \in ToSet(offered)
  PROVE  ForTools(n, m) \in (Uses \cap ToSet(offered)) \cup {NoName}
<1>1. FirstOf(Having(Uses)) \in ToSet(offered) \cup {NoName} /\ FirstOf(Having(Uses)) \in Uses \cup {NoName}
  BY Offered, FirstOrNone
<1> QED
  BY <1>1 DEF ForTools

LEMMA TaskServes ==
  ASSUME offered \in Catalogs, offered # <<>>, NEW task
  PROVE  PickByTask(task) \in ToSet(offered)
<1> DEFINE scored == {m \in ToSet(offered) : Score(m, task) > 0 \/ task = "chat"}
           best == {m \in scored : \A x \in scored : Score(x, task) <= Score(m, task)}
           chat1 == Within(Preferred["chat"])
<1>1. PickByTask(task) = FirstOf(Having(best) \o chat1 \o offered)
  BY DEF PickByTask
<1>2. Preferred["chat"] \in Seq(Names)
  BY NamingAssumption
<1>3. chat1 \in Seq(ToSet(offered)) /\ offered \in Seq(ToSet(offered))
  BY <1>2, Offered
<1> HIDE DEF best, chat1
<1>4. Having(best) \in Seq(ToSet(offered))
  BY Offered
<1>5. /\ (Having(best) \o chat1) \o offered \in Seq(ToSet(offered))
      /\ (Having(best) \o chat1) \o offered # <<>>
  BY <1>3, <1>4, Joins
<1> QED
  BY <1>1, <1>5, FirstIs

(* The fastest is one there is, and none that was measured is faster.      *)
LEMMA FastestServes ==
  ASSUME offered \in Catalogs, times \in Measured
  PROVE  /\ PickFastest \in ToSet(offered) \cup {NoName}
         /\ \A m \in ToSet(offered) : times[m] # NoName =>
              /\ PickFastest \in ToSet(offered) /\ times[PickFastest] # NoName
              /\ times[PickFastest] <= times[m]
<1> DEFINE measured == {m \in ToSet(offered) : times[m] # NoName}
           fastest == {m \in measured : \A x \in measured : times[m] <= times[x]}
<1>1. PickFastest = FirstOf(IF measured = {} THEN Within(FastKnown) ELSE Having(fastest))
  BY DEF PickFastest
<1>2. \A m \in measured : times[m] \in Nat
  BY NamingAssumption
<1>3. CASE measured = {}
  <2>1. Within(FastKnown) \in Seq(ToSet(offered))
    BY NamingAssumption, Offered
  <2> QED
    BY <1>1, <1>3, <2>1, FirstOrNone
<1>4. CASE measured # {}
  <2> DEFINE T == {times[m] : m \in measured}
  <2>1. T \in SUBSET Nat /\ T # {}
    BY <1>2, <1>4
  <2>2. PICK t \in T : \A u \in T : t <= u
    BY <2>1, Least
  <2>3. PICK m \in measured : t = times[m]
    OBVIOUS
  <2>4. m \in fastest /\ m \in ToSet(offered) /\ offered \in Seq(ToSet(offered))
    BY <2>2, <2>3, Offered
  <2>5. fastest \subseteq ToSet(offered) /\ \A x \in fastest : times[x] # NoName /\ \A y \in measured : times[x] <= times[y]
    OBVIOUS
  <2> HIDE DEF fastest
  <2>6. Having(fastest) # <<>> /\ Having(fastest) \in Seq(fastest)
    BY <2>4, OnlySome, Offered DEF Having
  <2>7. PickFastest \in fastest
    BY <1>1, <1>4, <2>6, FirstIs
  <2> QED
    BY <2>5, <2>7
<1> QED
  BY <1>3, <1>4

LEMMA VisionServes ==
  ASSUME offered \in Catalogs
  PROVE  PickVision \in ToSet(offered) \cup {NoName}
<1>1. Within(Preferred["vision"]) \in Seq(ToSet(offered)) /\ offered \in Seq(ToSet(offered))
  BY NamingAssumption, Offered
<1> DEFINE all == Within(Preferred["vision"]) \o offered
<1>2. all \in Seq(ToSet(offered))
  BY <1>1, Joins
<1> HIDE DEF all
<1>3. Only(all, Sees) \in Seq(ToSet(offered))
  BY <1>2, OnlyType
<1> QED
  BY <1>3, FirstOrNone DEF PickVision, all

LEMMA DefaultServes ==
  ASSUME offered \in Catalogs, times \in Measured, offered # <<>>, NEW task
  PROVE  Default(task) \in ToSet(offered)
BY TaskServes, FastestServes, VisionServes DEF Default

NamingInv ==
  /\ wish \in Wishes /\ offered \in Catalogs /\ times \in Measured
  /\ NamesAreServed /\ (Known => named.resolved # NoName \/ offered = <<>>)

LEMMA NameServes == NamingInv /\ [NamingNext]_namingVars => NamingInv'
<1> SUFFICES ASSUME NamingInv, [NamingNext]_namingVars PROVE NamingInv'
  OBVIOUS
<1>1. CASE UNCHANGED namingVars
  BY <1>1 DEF NamingInv, namingVars, NamesAreServed, ResolvedIsServed, ToolsAreSupported,
              DefaultIsServed, Known
<1>2. CASE Name
  <2> DEFINE n == IF wish = <<>> THEN Default("chat") ELSE wish
             m == IF n = NoName THEN NoName ELSE Resolved(n)
             d == [t \in DOMAIN Preferred |-> Default(t)]
             f == IF m = NoName THEN m ELSE ForTools(n, m)
  <2>1. /\ named' = [resolved |-> m, forTools |-> f, default |-> d]
        /\ wish' = wish /\ offered' = offered /\ times' = times
    BY <1>2 DEF Name
  <2>2. offered \in Catalogs /\ times \in Measured /\ NoName \notin ToSet(offered) /\ <<>> \notin ToSet(offered)
    BY Offered DEF NamingInv
  <2>3. ASSUME offered # <<>>
        PROVE  /\ m \in ToSet(offered) /\ (wish \in ToSet(offered) => m = wish)
               /\ f \in (Uses \cap ToSet(offered)) \cup {NoName}
    <3>1. wish = <<>> => n \in ToSet(offered)
      BY <2>2, <2>3, DefaultServes
    <3>2. wish # <<>> => n = wish
      OBVIOUS
    <3> HIDE DEF n
    <3>3. n = NoName => wish \notin ToSet(offered) /\ wish # <<>>
      BY <2>2, <3>1, <3>2
    <3>4. n # NoName => m \in ToSet(offered) /\ (n \in ToSet(offered) => m = n)
      BY <2>2, <2>3, ResolveServes
    <3>5. n # NoName
      BY <3>3, <3>2, NamingAssumption DEF NamingInv
    <3> HIDE DEF m
    <3> QED
      BY <2>2, <3>1, <3>2, <3>4, <3>5, ToolsServed
  <2>4. ASSUME offered # <<>>
        PROVE  /\ \A t \in DOMAIN Preferred : d[t] \in ToSet(offered)
               /\ \A x \in ToSet(offered) : times[x] # NoName =>
                    times[d["fast"]] # NoName /\ times[d["fast"]] <= times[x]
    <3>1. \A t \in DOMAIN Preferred : d[t] \in ToSet(offered)
      BY <2>2, <2>4, DefaultServes
    <3>2. ASSUME NEW x \in ToSet(offered), times[x] # NoName
          PROVE  times[d["fast"]] # NoName /\ times[d["fast"]] <= times[x]
      <4>1. /\ PickFastest \in ToSet(offered) /\ times[PickFastest] # NoName
            /\ times[PickFastest] <= times[x]
        BY <2>2, <3>2, FastestServes
      <4>2. d["fast"] = PickFastest
        BY <2>2, <4>1, NamingAssumption DEF Default
      <4> QED
        BY <4>1, <4>2
    <3> QED
      BY <3>1, <3>2
  <2> HIDE DEF m, d, f
  <2>5. named'.resolved = m /\ named'.forTools = f /\ named'.default = d
    BY <2>1
  <2>6. NamesAreServed'
    BY <2>1, <2>3, <2>4, <2>5
    DEF NamesAreServed, ResolvedIsServed, ToolsAreSupported, DefaultIsServed
  <2>7. (Known => named.resolved # NoName \/ offered = <<>>)'
    BY <2>1, <2>2, <2>3, <2>5
  <2> QED
    BY <2>1, <2>6, <2>7 DEF NamingInv
<1> QED
  BY <1>1, <1>2 DEF NamingNext

LEMMA NamingInvHolds == NamingSpec => []NamingInv
<1>1. NamingInit => NamingInv
  BY DEF NamingInit, NamingInv, NamesAreServed, ResolvedIsServed, ToolsAreSupported,
         DefaultIsServed, Known
<1> QED
  BY <1>1, NameServes, PTL DEF NamingSpec

(* Whatever models, aliases, families, tiers, preferences and measurements *)
(* there are: a name stands for a model the gateway has, with tools for    *)
(* one that supports them, and the default of a task is one it has, for    *)
(* speed one that none measured is faster than (resolve, get_default).     *)
THEOREM NamesServed == NamingSpec => []NamesAreServed
<1>1. NamingInv => NamesAreServed
  BY DEF NamingInv
<1> QED
  BY <1>1, NamingInvHolds, PTL
-----------------------------------------------------------------------------
(***************************************************************************)
(* Compression.                                                            *)
(***************************************************************************)
(* Messages as clients send them. *)
Sendable == {m \in Messages :
  /\ m.calls # <<>> => m.role = "assistant"
  /\ m.of # 0 => m.role = "tool"
  /\ m.role = "system" => m.text # NoString}

LEMMA ChatsSendable == \A c \in Chats : c \in Seq(Sendable)
<1> SUFFICES ASSUME NEW c \in Chats PROVE c \in Seq(Sendable)
  OBVIOUS
<1>1. c \in Seq(Messages)
  BY CompressionAssumption
<1>2. Len(c) \in Nat /\ DOMAIN c = 1..Len(c) /\ \A i \in 1..Len(c) : c[i] \in Messages
  BY <1>1, LenProperties, ElementOfSeq
<1>3. \A i \in 1..Len(c) : c[i] \in ToSet(c)
  BY <1>2 DEF ToSet
<1>4. \A i \in 1..Len(c) : c[i] \in Sendable
  BY <1>2, <1>3, CompressionAssumption DEF Sendable
<1>5. c \in [1..Len(c) -> Sendable]
  BY <1>1, <1>2, <1>4, LenProperties
<1> QED
  BY <1>2, <1>5, SeqDef

LEMMA MessageIs ==
  \A m \in Sendable : /\ m \in Messages /\ m = [role |-> m.role, text |-> m.text, parts |-> m.parts,
                                               calls |-> m.calls, of |-> m.of]
                      /\ m.text \in Seq(STRING) \cup {NoString} /\ m.parts \in Seq(STRING) /\ m.calls \in Seq(Nat) /\ m.of \in Nat
BY DEF Sendable, Messages

LEMMA SystemMessageIs ==
  ASSUME NEW text \in Seq(STRING)
  PROVE  /\ SystemMessage(text) \in Sendable /\ SystemMessage(text) \in OfSystem
         /\ SystemMessage(text).of = 0 /\ SystemMessage(text).calls = <<>>
<1>1. <<>> \in Seq(Nat) /\ <<>> \in Seq(STRING) /\ 0 \in Nat
  OBVIOUS
<1>2. SystemMessage(text) \in Messages
  BY <1>1 DEF SystemMessage, Messages
<1> QED
  BY <1>2, CompressionAssumption DEF SystemMessage, Sendable, OfSystem

(* A message with more text. *)
LEMMA Longer ==
  ASSUME NEW l \in Sendable, NEW m \in Sendable, Alike(l, m)
  PROVE  /\ l.text \in Seq(STRING) /\ m.text \in Seq(STRING)
         /\ [l EXCEPT !.text = @ \o m.text] \in Sendable
         /\ [l EXCEPT !.text = @ \o m.text].text = l.text \o m.text
         /\ [l EXCEPT !.text = @ \o m.text].text # NoString
         /\ [l EXCEPT !.text = @ \o m.text].role = l.role /\ [l EXCEPT !.text = @ \o m.text].calls = l.calls
         /\ [l EXCEPT !.text = @ \o m.text].of = l.of
<1>1. l.text \in Seq(STRING) /\ m.text \in Seq(STRING)
  BY MessageIs DEF Alike
<1> DEFINE t == l.text \o m.text
           k == [l EXCEPT !.text = t]
<1>2. t \in Seq(STRING) /\ t # NoString
  BY <1>1, ConcatProperties, CompressionAssumption
<1> HIDE DEF t
<1>3. k = [role |-> l.role, text |-> t, parts |-> l.parts, calls |-> l.calls, of |-> l.of]
  BY MessageIs
<1>4. k \in Sendable
  BY <1>2, <1>3, MessageIs DEF Sendable, Messages
<1> HIDE DEF k
<1>5. k.text = t /\ k.role = l.role /\ k.calls = l.calls /\ k.of = l.of
  BY <1>3
<1> QED
  BY <1>1, <1>2, <1>4, <1>5 DEF k, t

(* A message is appended to a list, or goes into its last one. *)
LEMMA AppendedIs ==
  ASSUME NEW s \in Seq(Sendable), NEW m \in Sendable
  PROVE  /\ Appended(s, m) \in Seq(Sendable)
         /\ s = <<>> \/ ~Alike(Last(s), m) => Appended(s, m) = Append(s, m)
         /\ s # <<>> /\ Alike(Last(s), m) =>
              /\ Last(s) \in Sendable
              /\ \E f \in Seq(Sendable) :
                   /\ s = Append(f, Last(s))
                   /\ Appended(s, m) = Append(f, [Last(s) EXCEPT !.text = @ \o m.text])
<1>1. CASE s = <<>> \/ ~Alike(Last(s), m)
  BY <1>1, AppendProperties DEF Appended
<1>2. CASE s # <<>> /\ Alike(Last(s), m)
  <2> DEFINE l == Last(s)
             k == [l EXCEPT !.text = @ \o m.text]
             n == Len(s)
  <2>1. l \in Sendable /\ n \in Nat \ {0} /\ l = s[n]
    BY <1>2, FrontAndLastIs, EmptySeq DEF Last
  <2>2. k \in Sendable
    BY <1>2, <2>1, Longer
  <2>3. Appended(s, m) = [s EXCEPT ![n] = k]
    BY <1>2, <2>1 DEF Appended
  <2>4. PICK f \in Seq(Sendable) : s = Append(f, l)
    BY <1>2, FrontAndLastIs
  <2> HIDE DEF k, l, n
  <2>5. n = Len(f) + 1 /\ Len(f) \in Nat /\ \A i \in 1..Len(f) : s[i] = f[i]
    BY <2>1, <2>4, AppendProperties, LenProperties DEF n
  <2>6. /\ [s EXCEPT ![n] = k] \in Seq(Sendable) /\ Len([s EXCEPT ![n] = k]) = n
        /\ \A j \in 1..n : [s EXCEPT ![n] = k][j] = IF j = n THEN k ELSE s[j]
    <3>1. n \in 1..Len(s)
      BY <2>1 DEF n
    <3> QED
      BY <2>2, <3>1, ExceptSeq DEF n
  <2>7. /\ Append(f, k) \in Seq(Sendable) /\ Len(Append(f, k)) = n /\ Append(f, k)[n] = k
        /\ \A i \in 1..Len(f) : Append(f, k)[i] = f[i]
    BY <2>2, <2>4, <2>5, AppendProperties
  <2>8. \A j \in 1..n : [s EXCEPT ![n] = k][j] = Append(f, k)[j]
    <3>1. \A j \in 1..n : j = n \/ (j # n /\ j \in 1..Len(f))
      BY <2>5
    <3> QED
      BY <2>5, <2>6, <2>7, <3>1
  <2>9. [s EXCEPT ![n] = k] = Append(f, k)
    BY <2>6, <2>7, <2>8, SeqEqual
  <2> QED
    BY <1>2, <2>1, <2>3, <2>4, <2>7, <2>9 DEF k, l
<1> QED
  BY <1>1, <1>2

(* What _deduplicate_consecutive makes of the first i messages. *)
Merges(s, f) == f[0] = <<>> /\ \A i \in 1..Len(s) : f[i] = Appended(f[i - 1], s[i])

LEMMA DeduplicatedIs ==
  ASSUME NEW s \in Seq(Sendable)
  PROVE  \E f \in [0..Len(s) -> Seq(Sendable)] : Merges(s, f) /\ Deduplicated(s) = f[Len(s)]
<1> DEFINE n == Len(s)
           Fits(f) == f = [i \in 0..n |-> IF i = 0 THEN <<>> ELSE Appended(f[i - 1], s[i])]
           g == [i \in 1..n |-> [a \in Seq(Sendable) |-> Appended(a, s[i])]]
<1>1. n \in Nat /\ \A i \in 1..n : s[i] \in Sendable
  BY LenProperties, ElementOfSeq
<1>2. g \in [1..n -> [Seq(Sendable) -> Seq(Sendable)]]
  BY <1>1, AppendedIs
<1> HIDE DEF g
<1>3. PICK f \in [0..n -> Seq(Sendable)] : f[0] = <<>> /\ \A i \in 1..n : f[i] = g[i][f[i - 1]]
  <2>1. <<>> \in Seq(Sendable) /\ n \in Nat
    BY <1>1
  <2> HIDE DEF n, Fits
  <2>2. \E f \in [0..n -> Seq(Sendable)] : Recurs(f, n, <<>>, g)
    BY <1>2, <2>1, RecursionExists
  <2> QED
    BY <2>2 DEF Recurs
<1>4. \A i \in 1..n : f[i] = Appended(f[i - 1], s[i])
  <2> SUFFICES ASSUME NEW i \in 1..n PROVE f[i] = Appended(f[i - 1], s[i])
    OBVIOUS
  <2>1. i - 1 \in 0..n
    BY <1>1
  <2>2. f[i - 1] \in Seq(Sendable)
    BY <2>1
  <2> QED
    BY <1>3, <2>2 DEF g
<1>5. f = [i \in 0..n |-> IF i = 0 THEN <<>> ELSE Appended(f[i - 1], s[i])]
  <2>1. \A i \in 0..n : i = 0 \/ (i \in 1..n /\ i # 0)
    BY <1>1
  <2> DEFINE r(i) == IF i = 0 THEN <<>> ELSE Appended(f[i - 1], s[i])
  <2>2. \A i \in 0..n : f[i] = r(i)
    BY <1>3, <1>4, <2>1
  <2> HIDE DEF n, r
  <2>3. f = [i \in 0..n |-> r(i)]
    BY <1>3, <2>2
  <2> QED
    BY <2>3 DEF r
<1> DEFINE h == CHOOSE k : Fits(k)
<1>6. Fits(h)
  BY <1>5
<1>7. Deduplicated(s) = h[n]
  BY DEF Deduplicated
<1> HIDE DEF h
<1>8. h[0] = <<>> /\ \A i \in 1..n : h[i] = Appended(h[i - 1], s[i])
  <2>1. 0 \in 0..n /\ \A i \in 1..n : i \in 0..n /\ i # 0
    BY <1>1
  <2> HIDE DEF n
  <2> QED
    BY <1>6, <2>1
<1> DEFINE typed == {i \in 0..n : h[i] \in Seq(Sendable)}
<1>9. 0 \in typed
  <2>1. <<>> \in Seq(Sendable) /\ 0 \in 0..n
    BY <1>1
  <2> HIDE DEF n
  <2> QED
    BY <1>8, <2>1
<1>10. \A i \in 0..(n - 1) : i \in typed => i + 1 \in typed
  <2> SUFFICES ASSUME NEW i \in 0..(n - 1), i \in typed PROVE i + 1 \in typed
    OBVIOUS
  <2>1. i + 1 \in 1..n /\ i + 1 \in 0..n /\ (i + 1) - 1 = i
    BY <1>1
  <2>2. s[i + 1] \in Sendable /\ h[i] \in Seq(Sendable)
    BY <1>1, <2>1
  <2>3. Appended(h[i], s[i + 1]) \in Seq(Sendable)
    BY <2>2, AppendedIs
  <2> QED
    BY <1>8, <2>1, <2>2, <2>3
<1>11. \A i \in 0..n : h[i] \in Seq(Sendable)
  <2>1. n \in Nat
    BY <1>1
  <2>2. \A i \in 0..n : i \in typed
    <3> HIDE DEF typed, n
    <3> QED
      BY <1>9, <1>10, <2>1, UpTo
  <2> QED
    BY <2>2
<1>12. h \in [0..n -> Seq(Sendable)]
  <2> DEFINE r(i) == IF i = 0 THEN <<>> ELSE Appended(h[i - 1], s[i])
  <2>1. h = [i \in 0..n |-> r(i)]
    BY <1>6
  <2> HIDE DEF n, r
  <2> QED
    BY <1>11, <2>1
<1> QED
  BY <1>7, <1>8, <1>12 DEF Merges

LEMMA DeduplicatedType ==
  /\ Deduplicated(<<>>) = <<>>
  /\ \A s \in Seq(Sendable) : Deduplicated(s) \in Seq(Sendable)
<1>1. <<>> \in Seq(Sendable) /\ Len(<<>>) = 0
  OBVIOUS
<1>2. Deduplicated(<<>>) = <<>>
  BY <1>1, DeduplicatedIs DEF Merges
<1>3. ASSUME NEW s \in Seq(Sendable) PROVE Deduplicated(s) \in Seq(Sendable)
  <2>1. Len(s) \in 0..Len(s)
    BY LenProperties
  <2> QED
    BY <2>1, DeduplicatedIs
<1> QED
  BY <1>2, <1>3

LEMMA DeduplicatedAppend ==
  ASSUME NEW s \in Seq(Sendable), NEW x \in Sendable
  PROVE  Deduplicated(Append(s, x)) = Appended(Deduplicated(s), x)
<1> DEFINE n == Len(s)
           t == Append(s, x)
<1>1. n \in Nat /\ t \in Seq(Sendable) /\ Len(t) = n + 1 /\ t[n + 1] = x
      /\ \A i \in 1..n : t[i] = s[i]
  BY LenProperties, AppendProperties
<1>2. PICK f \in [0..Len(s) -> Seq(Sendable)] : Merges(s, f) /\ Deduplicated(s) = f[n]
  BY DeduplicatedIs
<1> HIDE DEF t
<1>3. PICK h \in [0..Len(t) -> Seq(Sendable)] : Merges(t, h) /\ Deduplicated(t) = h[n + 1]
  BY <1>1, DeduplicatedIs
<1> HIDE DEF n
<1>4. f[0] = <<>> /\ \A i \in 1..n : f[i] = Appended(f[i - 1], s[i])
  BY <1>2 DEF Merges, n
<1>5. h[0] = <<>> /\ \A i \in 1..(n + 1) : h[i] = Appended(h[i - 1], t[i])
  BY <1>1, <1>3 DEF Merges
<1>6. f[n] = h[n]
  <2>1. \A i \in 1..n : i \in 1..(n + 1)
    BY <1>1
  <2>2. \A i \in 1..n : f[i - 1] = h[i - 1] => f[i] = h[i]
    BY <1>1, <1>4, <1>5, <2>1
  <2>3. n \in Nat /\ f[0] = h[0]
    BY <1>1, <1>4, <1>5
  <2> QED
    BY <2>2, <2>3, SameRecursion
<1>7. n + 1 \in 1..(n + 1) /\ (n + 1) - 1 = n
  BY <1>1
<1>8. h[n + 1] = Appended(f[n], x)
  BY <1>1, <1>5, <1>6, <1>7
<1> QED
  BY <1>2, <1>3, <1>8 DEF t

(* Whether a list ends like s, before its last messages were merged. *)
EndsLike(d, s) ==
  /\ d = <<>> <=> s = <<>>
  /\ s # <<>> => Last(d).role = Last(s).role /\ (Last(d).text = NoString <=> Last(s).text = NoString)

LEMMA DeduplicatedEnds == \A s \in Seq(Sendable) : EndsLike(Deduplicated(s), s)
<1> DEFINE good == {s \in Seq(Sendable) : EndsLike(Deduplicated(s), s)}
<1>1. <<>> \in good
  <2>1. <<>> \in Seq(Sendable)
    OBVIOUS
  <2> QED
    BY <2>1, DeduplicatedType DEF EndsLike
<1>2. ASSUME NEW s \in Seq(Sendable), NEW m \in Sendable, s \in good PROVE Append(s, m) \in good
  <2> DEFINE d == Deduplicated(s)
             e == Appended(d, m)
             t == Append(s, m)
  <2>1. d \in Seq(Sendable) /\ Deduplicated(t) = e
    BY DeduplicatedType, DeduplicatedAppend
  <2>2. t \in Seq(Sendable) /\ t # <<>> /\ Last(t) = m
    BY AppendProperties, LastAppended
  <2> HIDE DEF d, t
  <2>3. CASE d = <<>> \/ ~Alike(Last(d), m)
    <3>1. e = Append(d, m) /\ e # <<>> /\ Last(e) = m
      <4>1. e = Append(d, m)
        BY <2>1, <2>3, AppendedIs
      <4>2. Append(d, m) # <<>> /\ Last(Append(d, m)) = m
        BY <2>1, AppendProperties, LastAppended
      <4> QED
        BY <4>1, <4>2
    <3> QED
      BY <2>1, <2>2, <3>1 DEF EndsLike, t
  <2>4. CASE d # <<>> /\ Alike(Last(d), m)
    <3> DEFINE l == Last(d)
               k == [l EXCEPT !.text = @ \o m.text]
    <3>1. PICK f \in Seq(Sendable) : d = Append(f, l) /\ e = Append(f, k) /\ l \in Sendable
      BY <2>1, <2>4, AppendedIs
    <3>2. k \in Sendable /\ k.text # NoString /\ k.role = l.role /\ l.role = m.role /\ m.text # NoString
      BY <2>4, <3>1, Longer DEF Alike
    <3> HIDE DEF k, l, e
    <3>3. e # <<>> /\ Last(e) = k
      BY <3>1, <3>2, AppendProperties, LastAppended
    <3> QED
      BY <2>1, <2>2, <3>2, <3>3 DEF EndsLike, t
  <2> QED
    BY <2>3, <2>4
<1> HIDE DEF good
<1>3. \A s \in Seq(Sendable) : s \in good
  BY <1>1, <1>2, ByAppending
<1> QED
  BY <1>3 DEF good

(* One more message for _deduplicate_consecutive: it is appended, or its   *)
(* text goes into the last one.                                            *)
LEMMA DeduplicatedStep ==
  ASSUME NEW s \in Seq(Sendable), NEW m \in Sendable
  PROVE  \/ /\ s = <<>> \/ ~Alike(Last(s), m)
            /\ Deduplicated(Append(s, m)) = Append(Deduplicated(s), m)
         \/ /\ s # <<>> /\ Alike(Last(s), m)
            /\ \E f \in Seq(Sendable), l \in Sendable :
                 /\ Alike(l, m)
                 /\ Deduplicated(s) = Append(f, l)
                 /\ Deduplicated(Append(s, m)) = Append(f, [l EXCEPT !.text = @ \o m.text])
<1> DEFINE d == Deduplicated(s)
<1>1. d \in Seq(Sendable) /\ EndsLike(d, s) /\ Deduplicated(Append(s, m)) = Appended(d, m)
  BY DeduplicatedType, DeduplicatedEnds, DeduplicatedAppend
<1> HIDE DEF d
<1>2. s # <<>> => d # <<>> /\ (Alike(Last(d), m) <=> Alike(Last(s), m))
  BY <1>1 DEF EndsLike, Alike
<1>3. s = <<>> => d = <<>>
  BY <1>1 DEF EndsLike
<1>4. CASE d = <<>> \/ ~Alike(Last(d), m)
  BY <1>1, <1>2, <1>3, <1>4, AppendedIs DEF d
<1>5. CASE d # <<>> /\ Alike(Last(d), m)
  <2>1. s # <<>> /\ Alike(Last(s), m)
    BY <1>2, <1>3, <1>5
  <2>2. \E f \in Seq(Sendable) :
          /\ d = Append(f, Last(d)) /\ Last(d) \in Sendable
          /\ Appended(d, m) = Append(f, [Last(d) EXCEPT !.text = @ \o m.text])
    <3>1. d \in Seq(Sendable) /\ m \in Sendable
      BY <1>1
    <3>2. d # <<>> /\ Alike(Last(d), m) =>
            /\ Last(d) \in Sendable
            /\ \E f \in Seq(Sendable) :
                 /\ d = Append(f, Last(d))
                 /\ Appended(d, m) = Append(f, [Last(d) EXCEPT !.text = @ \o m.text])
      BY ONLY <3>1, AppendedIs
    <3> QED
      BY <1>5, <3>2
  <2> QED
    BY <1>1, <1>5, <2>1, <2>2 DEF d
<1> QED
  BY <1>4, <1>5

(* Calls, answers and merges of a list with one more message. *)
HasCall(id, s) == \E j \in DOMAIN s : id \in ToSet(s[j].calls)

LEMMA CallsOfNone == \A id : ~HasCall(id, <<>>) /\ Follows(id, <<>>) /\ ~Merged(id, <<>>)
BY DEF HasCall, Follows, Merged

LEMMA CallsAppend ==
  ASSUME NEW s \in Seq(Sendable), NEW m \in Sendable, NEW id
  PROVE  /\ HasCall(id, Append(s, m)) <=> HasCall(id, s) \/ id \in ToSet(m.calls)
         /\ Follows(id, Append(s, m)) <=> Follows(id, s) /\ (m.of = id => HasCall(id, s))
         /\ Merged(id, s) => Merged(id, Append(s, m))
         /\ s # <<>> /\ Alike(Last(s), m) /\ id \in ToSet(m.calls) => Merged(id, Append(s, m))
<1> DEFINE n == Len(s)
           t == Append(s, m)
<1>1. /\ n \in Nat /\ DOMAIN s = 1..n /\ DOMAIN t = 1..(n + 1) /\ Len(t) = n + 1
      /\ t[n + 1] = m /\ (s # <<>> => n # 0)
      /\ \A i \in 1..n : t[i] = s[i]
  BY LenProperties, AppendProperties, EmptySeq
<1>2. \A i : i \in 1..(n + 1) <=> i \in 1..n \/ i = n + 1
  BY <1>1
<1> HIDE DEF t
<1>3. HasCall(id, t) <=> HasCall(id, s) \/ id \in ToSet(m.calls)
  <2> HIDE DEF n
  <2> QED
    BY <1>1, <1>2 DEF HasCall
<1>4. Follows(id, t) <=> Follows(id, s) /\ (m.of = id => HasCall(id, s))
  <2>1. (n + 1) - 1 = n /\ \A i \in 1..n : \A j \in 1..(i - 1) : j \in 1..n
    BY <1>1
  <2>2. \A i \in 1..n : (\E j \in 1..(i - 1) : id \in ToSet(t[j].calls)) <=>
                        (\E j \in 1..(i - 1) : id \in ToSet(s[j].calls))
    BY <1>1, <2>1
  <2>3. (\E j \in 1..n : id \in ToSet(t[j].calls)) <=> HasCall(id, s)
    BY <1>1 DEF HasCall
  <2> HIDE DEF n
  <2> QED
    BY <1>1, <1>2, <2>1, <2>2, <2>3 DEF Follows
<1>5. Merged(id, s) => Merged(id, t)
  <2>1. \A i \in 2..n : i \in 2..(n + 1) /\ t[i] = s[i] /\ t[i - 1] = s[i - 1]
    <3> SUFFICES ASSUME NEW i \in 2..n PROVE i \in 2..(n + 1) /\ t[i] = s[i] /\ t[i - 1] = s[i - 1]
      OBVIOUS
    <3>1. i \in 1..n /\ i - 1 \in 1..n /\ i \in 2..(n + 1)
      BY <1>1
    <3> QED
      BY <1>1, <3>1
  <2> QED
    BY <1>1, <2>1 DEF Merged, n
<1>6. s # <<>> /\ Alike(Last(s), m) /\ id \in ToSet(m.calls) => Merged(id, t)
  <2> SUFFICES ASSUME s # <<>>, Alike(Last(s), m), id \in ToSet(m.calls) PROVE Merged(id, t)
    OBVIOUS
  <2>1. n + 1 \in 2..(n + 1) /\ (n + 1) - 1 = n /\ n \in 1..n
    BY <1>1
  <2>2. t[n] = Last(s)
    BY <1>1, <2>1 DEF Last
  <2> QED
    BY <1>1, <2>1, <2>2 DEF Merged
<1> QED
  BY <1>3, <1>4, <1>5, <1>6 DEF t

(* Without the system's messages no call is missing and no answer early. *)
LEMMA WithoutSystemIs ==
  ASSUME NEW s \in Seq(Sendable), NEW m \in Sendable
  PROVE  /\ WithoutSystem(s) \in Seq(Sendable) /\ Systems(s) \in Seq(Sendable)
         /\ WithoutSystem(<<>>) = <<>> /\ Systems(<<>>) = <<>>
         /\ WithoutSystem(Append(s, m)) =
              IF m.role = "system" THEN WithoutSystem(s) ELSE Append(WithoutSystem(s), m)
         /\ Systems(Append(s, m)) =
              IF m.role = "system" THEN Append(Systems(s), m) ELSE Systems(s)
<1>1. m \in Messages /\ (m \in OfSystem <=> m.role = "system")
  BY DEF Sendable, OfSystem
<1>2. /\ Only(s, Messages \ OfSystem) \in Seq(Sendable) /\ Only(s, OfSystem) \in Seq(Sendable)
      /\ Only(<<>>, Messages \ OfSystem) = <<>> /\ Only(<<>>, OfSystem) = <<>>
  BY OnlyType, OnlyEmpty
<1>3. Only(Append(s, m), Messages \ OfSystem) =
        IF m \in Messages \ OfSystem THEN Append(Only(s, Messages \ OfSystem), m)
                                     ELSE Only(s, Messages \ OfSystem)
  BY OnlyAppend
<1>4. Only(Append(s, m), OfSystem) =
        IF m \in OfSystem THEN Append(Only(s, OfSystem), m) ELSE Only(s, OfSystem)
  BY OnlyAppend
<1> QED
  BY <1>1, <1>2, <1>3, <1>4 DEF WithoutSystem, Systems

LEMMA WithoutSystemKeepsCalls ==
  ASSUME NEW id \in Nat \ {0}
  PROVE  \A s \in Seq(Sendable) : /\ HasCall(id, s) => HasCall(id, WithoutSystem(s))
                                  /\ Follows(id, s) => Follows(id, WithoutSystem(s))
<1> DEFINE Keeping(s) == /\ HasCall(id, s) => HasCall(id, WithoutSystem(s))
                         /\ Follows(id, s) => Follows(id, WithoutSystem(s))
           good == {s \in Seq(Sendable) : Keeping(s)}
<1>1. <<>> \in good
  <2>1. <<>> \in Seq(Sendable) /\ WithoutSystem(<<>>) = <<>>
    BY OnlyEmpty DEF WithoutSystem
  <2> QED
    BY <2>1
<1>2. ASSUME NEW s \in Seq(Sendable), NEW m \in Sendable, s \in good PROVE Append(s, m) \in good
  <2> DEFINE w == WithoutSystem(s)
             t == Append(s, m)
  <2>1. w \in Seq(Sendable) /\ WithoutSystem(t) = IF m.role = "system" THEN w ELSE Append(w, m)
    BY WithoutSystemIs
  <2>2. /\ HasCall(id, t) <=> HasCall(id, s) \/ id \in ToSet(m.calls)
        /\ Follows(id, t) <=> Follows(id, s) /\ (m.of = id => HasCall(id, s))
    BY CallsAppend
  <2>3. Keeping(s)
    BY <1>2
  <2>4. t \in Seq(Sendable)
    BY AppendProperties
  <2>5. CASE m.role = "system"
    <3>1. m.calls = <<>>
      BY <2>5 DEF Sendable
    <3>2. id \notin ToSet(m.calls)
      BY <3>1, ToSetEmpty
    <3> QED
      BY <2>1, <2>2, <2>3, <2>4, <2>5, <3>2
  <2>6. CASE m.role # "system"
    <3> HIDE DEF w
    <3>1. /\ HasCall(id, Append(w, m)) <=> HasCall(id, w) \/ id \in ToSet(m.calls)
          /\ Follows(id, Append(w, m)) <=> Follows(id, w) /\ (m.of = id => HasCall(id, w))
      BY <2>1, CallsAppend
    <3> QED
      BY <2>1, <2>2, <2>3, <2>4, <2>6, <3>1 DEF w
  <2> QED
    BY <2>5, <2>6
<1> HIDE DEF good
<1>3. \A s \in Seq(Sendable) : s \in good
  BY <1>1, <1>2, ByAppending
<1> QED
  BY <1>3 DEF good

(* Nor is one with a message before them that neither calls nor answers. *)
LEMMA FrontKeepsCalls ==
  ASSUME NEW id \in Nat \ {0}, NEW x \in Sendable, x.of = 0
  PROVE  \A s \in Seq(Sendable) : /\ HasCall(id, s) => HasCall(id, <<x>> \o s)
                                  /\ Follows(id, s) => Follows(id, <<x>> \o s)
<1> DEFINE Keeping(s) == /\ HasCall(id, s) => HasCall(id, <<x>> \o s)
                         /\ Follows(id, s) => Follows(id, <<x>> \o s)
           good == {s \in Seq(Sendable) : Keeping(s)}
<1>0. <<x>> \in Seq(Sendable) /\ <<>> \in Seq(Sendable) /\ <<x>> = Append(<<>>, x)
  OBVIOUS
<1>1. <<>> \in good
  <2>1. <<x>> \o <<>> = Append(<<>>, x)
    BY <1>0, ConcatEmptySeq
  <2>2. Follows(id, Append(<<>>, x)) <=> Follows(id, <<>>) /\ (x.of = id => HasCall(id, <<>>))
    BY <1>0, CallsAppend
  <2> QED
    BY <1>0, <2>1, <2>2, CallsOfNone
<1>2. ASSUME NEW s \in Seq(Sendable), NEW m \in Sendable, s \in good PROVE Append(s, m) \in good
  <2> DEFINE w == <<x>> \o s
             t == Append(s, m)
  <2>1. w \in Seq(Sendable) /\ <<x>> \o t = Append(w, m)
    BY <1>0, ConcatProperties, JoinAppend
  <2>2. /\ HasCall(id, t) <=> HasCall(id, s) \/ id \in ToSet(m.calls)
        /\ Follows(id, t) <=> Follows(id, s) /\ (m.of = id => HasCall(id, s))
    BY CallsAppend
  <2>3. Keeping(s)
    BY <1>2
  <2>4. t \in Seq(Sendable)
    BY AppendProperties
  <2> HIDE DEF w
  <2>5. /\ HasCall(id, Append(w, m)) <=> HasCall(id, w) \/ id \in ToSet(m.calls)
        /\ Follows(id, Append(w, m)) <=> Follows(id, w) /\ (m.of = id => HasCall(id, w))
    BY <2>1, CallsAppend
  <2> QED
    BY <2>1, <2>2, <2>3, <2>4, <2>5 DEF w
<1> HIDE DEF good
<1>3. \A s \in Seq(Sendable) : s \in good
  BY <1>1, <1>2, ByAppending
<1> QED
  BY <1>3 DEF good

(* Merging messages loses only calls that are merged. *)
LEMMA DeduplicatedKeepsCalls ==
  ASSUME NEW id
  PROVE  \A s \in Seq(Sendable) : ~Merged(id, s) =>
           /\ HasCall(id, s) => HasCall(id, Deduplicated(s))
           /\ Follows(id, s) /\ id # 0 => Follows(id, Deduplicated(s))
<1> DEFINE Keeping(s) == ~Merged(id, s) =>
             /\ HasCall(id, s) => HasCall(id, Deduplicated(s))
             /\ Follows(id, s) /\ id # 0 => Follows(id, Deduplicated(s))
           good == {s \in Seq(Sendable) : Keeping(s)}
<1>1. <<>> \in good
  <2>1. <<>> \in Seq(Sendable) /\ Deduplicated(<<>>) = <<>>
    BY DeduplicatedType
  <2> QED
    BY <2>1
<1>2. ASSUME NEW s \in Seq(Sendable), NEW m \in Sendable, s \in good PROVE Append(s, m) \in good
  <2> DEFINE d == Deduplicated(s)
             t == Append(s, m)
  <2>1. d \in Seq(Sendable) /\ t \in Seq(Sendable)
    BY DeduplicatedType, AppendProperties
  <2>2. /\ HasCall(id, t) <=> HasCall(id, s) \/ id \in ToSet(m.calls)
        /\ Follows(id, t) <=> Follows(id, s) /\ (m.of = id => HasCall(id, s))
        /\ Merged(id, s) => Merged(id, t)
        /\ s # <<>> /\ Alike(Last(s), m) /\ id \in ToSet(m.calls) => Merged(id, t)
    BY CallsAppend
  <2>3. Keeping(s)
    BY <1>2
  <2> HIDE DEF d
  <2>4. CASE Deduplicated(t) = Append(d, m)
    <3>1. /\ HasCall(id, Append(d, m)) <=> HasCall(id, d) \/ id \in ToSet(m.calls)
          /\ Follows(id, Append(d, m)) <=> Follows(id, d) /\ (m.of = id => HasCall(id, d))
      BY <2>1, CallsAppend
    <3> QED
      BY <2>1, <2>2, <2>3, <2>4, <3>1 DEF d
  <2>5. CASE /\ s # <<>> /\ Alike(Last(s), m)
             /\ \E f \in Seq(Sendable), l \in Sendable :
                  /\ Alike(l, m) /\ d = Append(f, l)
                  /\ Deduplicated(t) = Append(f, [l EXCEPT !.text = @ \o m.text])
    <3>1. PICK f \in Seq(Sendable), l \in Sendable :
            /\ Alike(l, m) /\ d = Append(f, l)
            /\ Deduplicated(t) = Append(f, [l EXCEPT !.text = @ \o m.text])
      BY <2>5
    <3> DEFINE k == [l EXCEPT !.text = @ \o m.text]
    <3>2. k \in Sendable /\ k.calls = l.calls /\ k.of = l.of
      BY <3>1, Longer
    <3> HIDE DEF k
    <3>3. /\ HasCall(id, Append(f, k)) <=> HasCall(id, f) \/ id \in ToSet(k.calls)
          /\ Follows(id, Append(f, k)) <=> Follows(id, f) /\ (k.of = id => HasCall(id, f))
      BY <3>2, CallsAppend
    <3>4. /\ HasCall(id, Append(f, l)) <=> HasCall(id, f) \/ id \in ToSet(l.calls)
          /\ Follows(id, Append(f, l)) <=> Follows(id, f) /\ (l.of = id => HasCall(id, f))
      BY CallsAppend
    <3>5. /\ HasCall(id, Deduplicated(t)) <=> HasCall(id, d)
          /\ Follows(id, Deduplicated(t)) <=> Follows(id, d)
      BY <3>1, <3>2, <3>3, <3>4 DEF k
    <3> QED
      BY <2>1, <2>2, <2>3, <2>5, <3>5 DEF d
  <2> QED
    BY <2>4, <2>5, DeduplicatedStep DEF d
<1> HIDE DEF good
<1>3. \A s \in Seq(Sendable) : s \in good
  BY <1>1, <1>2, ByAppending
<1> QED
  BY <1>3 DEF good

(* Merging messages leaves the system's alone and the last word the last;  *)
(* there are no more messages than before.                                 *)
LastSaid(d, s) ==
  s # <<>> => /\ d # <<>>
              /\ Last(s).text # NoString => /\ Last(d).text \in Seq(STRING)
                                            /\ IsSuffix(Last(s).text, Last(d).text)

LEMMA DeduplicatedSystems ==
  \A s \in Seq(Sendable) :
    /\ Systems(Deduplicated(s)) = Systems(s)
    /\ Len(WithoutSystem(Deduplicated(s))) <= Len(WithoutSystem(s))
    /\ LastSaid(WithoutSystem(Deduplicated(s)), WithoutSystem(s))
<1> DEFINE Kept(s) == /\ Systems(Deduplicated(s)) = Systems(s)
                      /\ Len(WithoutSystem(Deduplicated(s))) <= Len(WithoutSystem(s))
                      /\ LastSaid(WithoutSystem(Deduplicated(s)), WithoutSystem(s))
           good == {s \in Seq(Sendable) : Kept(s)}
<1>1. <<>> \in good
  <2>1. <<>> \in Seq(Sendable) /\ Deduplicated(<<>>) = <<>> /\ WithoutSystem(<<>>) = <<>> /\ Len(<<>>) <= Len(<<>>)
    BY DeduplicatedType, OnlyEmpty DEF WithoutSystem
  <2> QED
    BY <2>1 DEF LastSaid
<1>2. ASSUME NEW s \in Seq(Sendable), NEW m \in Sendable, s \in good PROVE Append(s, m) \in good
  <2> DEFINE d == Deduplicated(s)
             t == Append(s, m)
             w == WithoutSystem(s)
             v == WithoutSystem(d)
  <2>1. /\ d \in Seq(Sendable) /\ t \in Seq(Sendable) /\ w \in Seq(Sendable) /\ v \in Seq(Sendable)
        /\ WithoutSystem(t) = IF m.role = "system" THEN w ELSE Append(w, m)
        /\ Systems(t) = IF m.role = "system" THEN Append(Systems(s), m) ELSE Systems(s)
    BY DeduplicatedType, AppendProperties, WithoutSystemIs
  <2>2. Systems(d) = Systems(s) /\ Len(v) <= Len(w) /\ LastSaid(v, w)
    BY <1>2
  <2>3. Len(w) \in Nat /\ Len(v) \in Nat
    BY <2>1, LenProperties
  <2>4. /\ Append(w, m) # <<>> /\ Len(Append(w, m)) = Len(w) + 1 /\ Last(Append(w, m)) = m
    BY <2>1, AppendProperties, LastAppended
  <2>5. m.text \in Seq(STRING) \cup {NoString}
    BY MessageIs
  <2> HIDE DEF d, w, v
  <2>6. CASE Deduplicated(t) = Append(d, m)
    <3>1. /\ WithoutSystem(Append(d, m)) = IF m.role = "system" THEN v ELSE Append(v, m)
          /\ Systems(Append(d, m)) = IF m.role = "system" THEN Append(Systems(d), m) ELSE Systems(d)
      BY <2>1, WithoutSystemIs DEF v
    <3>2. CASE m.role = "system"
      BY <2>1, <2>2, <2>6, <3>1, <3>2
    <3>3. CASE m.role # "system"
      <4>1. Append(v, m) # <<>> /\ Len(Append(v, m)) = Len(v) + 1 /\ Last(Append(v, m)) = m
        BY <2>1, AppendProperties, LastAppended
      <4>2. m.text # NoString => IsSuffix(m.text, m.text) /\ m.text \in Seq(STRING)
        <5> SUFFICES ASSUME m.text # NoString PROVE IsSuffix(m.text, m.text) /\ m.text \in Seq(STRING)
          OBVIOUS
        <5> DEFINE a == m.text
        <5>1. a \in Seq(STRING) /\ <<>> \in Seq(STRING)
          BY <2>5
        <5> HIDE DEF a
        <5>2. <<>> \o a = a /\ IsSuffix(a, <<>> \o a)
          BY <5>1, ConcatEmptySeq, SuffixOfJoined
        <5> QED
          BY <5>1, <5>2 DEF a
      <4>3. LastSaid(Append(v, m), Append(w, m))
        BY <2>4, <4>1, <4>2 DEF LastSaid
      <4>4. Len(Append(v, m)) <= Len(Append(w, m))
        BY <2>2, <2>3, <2>4, <4>1
      <4> QED
        BY <2>1, <2>2, <2>6, <3>1, <3>3, <4>3, <4>4
    <3> QED
      BY <3>2, <3>3
  <2>7. CASE \E f \in Seq(Sendable), l \in Sendable :
                  /\ Alike(l, m) /\ d = Append(f, l)
                  /\ Deduplicated(t) = Append(f, [l EXCEPT !.text = @ \o m.text])
    <3>1. PICK f \in Seq(Sendable), l \in Sendable :
            /\ Alike(l, m) /\ d = Append(f, l)
            /\ Deduplicated(t) = Append(f, [l EXCEPT !.text = @ \o m.text])
      BY <2>7
    <3> DEFINE k == [l EXCEPT !.text = @ \o m.text]
               u == WithoutSystem(f)
    <3>2. /\ k \in Sendable /\ k.role = l.role /\ k.text = l.text \o m.text
          /\ l.text \in Seq(STRING) /\ m.text \in Seq(STRING)
      BY <3>1, Longer
    <3>3. l.role = m.role /\ m.role # "system"
      BY <3>1 DEF Alike
    <3> HIDE DEF k, u
    <3>4. /\ WithoutSystem(Append(f, l)) = Append(u, l) /\ Systems(Append(f, l)) = Systems(f)
          /\ WithoutSystem(Append(f, k)) = Append(u, k) /\ Systems(Append(f, k)) = Systems(f)
          /\ u \in Seq(Sendable)
      BY <3>2, <3>3, WithoutSystemIs DEF u
    <3>5. v = Append(u, l) /\ WithoutSystem(Deduplicated(t)) = Append(u, k)
          /\ Systems(Deduplicated(t)) = Systems(t)
      BY <2>1, <2>2, <3>1, <3>3, <3>4 DEF v, k
    <3>6. /\ Len(Append(u, k)) = Len(u) + 1 /\ Len(Append(u, l)) = Len(u) + 1 /\ Last(Append(u, k)) = k
          /\ Append(u, k) # <<>> /\ Len(u) \in Nat
      BY <3>2, <3>4, AppendProperties, LastAppended, LenProperties
    <3>7. k.text \in Seq(STRING) /\ IsSuffix(m.text, k.text)
      BY <3>2, ConcatProperties, SuffixOfJoined
    <3>8. LastSaid(Append(u, k), Append(w, m))
      BY <2>4, <3>6, <3>7 DEF LastSaid
    <3>9. Len(Append(u, k)) <= Len(Append(w, m))
      BY <2>2, <2>3, <2>4, <3>5, <3>6
    <3> QED
      BY <2>1, <3>3, <3>5, <3>8, <3>9
  <2> QED
    BY <2>6, <2>7, DeduplicatedStep DEF d
<1> HIDE DEF good
<1>3. \A s \in Seq(Sendable) : s \in good
  BY <1>1, <1>2, ByAppending
<1> QED
  BY <1>3 DEF good

(* The texts of the system's messages are one. *)
LEMMA JoinedText ==
  ASSUME NEW s \in Seq(Sendable), Systems(s) # <<>>
  PROVE  Joined(Systems(s)) \in Seq(STRING)
<1> DEFINE y == Systems(s)
<1>1. y \in Seq(Sendable) /\ Len(y) \in Nat /\ Len(y) # 0
  <2>1. y \in Seq(Sendable)
    BY OnlyType DEF Systems
  <2> QED
    BY <2>1, LenProperties, EmptySeq
<1>2. DOMAIN y = 1..Len(y) /\ \A i \in 1..Len(y) : y[i] \in Sendable
  BY <1>1, LenProperties, ElementOfSeq
<1>3. ToSet(y) \subseteq OfSystem
  BY OnlyElements DEF Systems
<1>4. \A i \in 1..Len(y) : y[i].text \in Seq(STRING)
  <2> SUFFICES ASSUME NEW i \in 1..Len(y) PROVE y[i].text \in Seq(STRING)
    OBVIOUS
  <2>1. y[i] \in ToSet(y)
    BY <1>2 DEF ToSet
  <2>2. y[i] \in Sendable /\ y[i].role = "system"
    BY <1>2, <1>3, <2>1 DEF OfSystem
  <2> QED
    BY <2>2, MessageIs DEF Sendable
<1> DEFINE texts == [i \in DOMAIN y |-> y[i].text]
<1>5. texts \in [1..Len(y) -> Seq(STRING)]
  BY <1>2, <1>4
<1> HIDE DEF texts, y
<1>6. texts \in Seq(Seq(STRING)) /\ Len(texts) = Len(y)
  <2>1. Len(y) \in Nat
    BY <1>1
  <2>2. texts \in Seq(Seq(STRING))
    BY ONLY <1>5, <2>1, SeqDef
  <2> QED
    BY ONLY <1>5, <2>1, <2>2, LenProperties
<1>7. FlattenSeq(texts) \in Seq(STRING)
  BY <1>6, FlatType
<1> QED
  BY <1>7 DEF Joined, texts, y

(* The system's messages as one: there is no other, and the rest stays. *)
LEMMA SystemsMergedIs ==
  ASSUME NEW s \in Seq(Sendable)
  PROVE  /\ SystemsMerged(s) \in Seq(Sendable)
         /\ Len(Systems(SystemsMerged(s))) <= 1
         /\ WithoutSystem(SystemsMerged(s)) = WithoutSystem(s)
         /\ \A id \in Nat \ {0} : Follows(id, s) => Follows(id, SystemsMerged(s))
<1> DEFINE y == Systems(s)
           w == WithoutSystem(s)
<1>1. y \in Seq(Sendable) /\ w \in Seq(Sendable) /\ Len(y) \in Nat
  <2>1. y \in Seq(Sendable) /\ w \in Seq(Sendable)
    BY OnlyType DEF Systems, WithoutSystem
  <2> QED
    BY <2>1, LenProperties
<1>2. Only(w, Messages \ OfSystem) = w /\ Only(w, OfSystem) = <<>>
  <2>1. ToSet(w) \subseteq Messages \ OfSystem
    BY OnlyElements DEF WithoutSystem
  <2> HIDE DEF w
  <2> QED
    BY <1>1, <2>1, OnlyAll, OnlyNone
<1>3. \A id \in Nat \ {0} : Follows(id, s) => Follows(id, w)
  BY WithoutSystemKeepsCalls
<1>4. CASE Len(y) <= 1
  BY <1>4 DEF SystemsMerged
<1>5. CASE Len(y) > 1 /\ Joined(y) = <<>>
  <2>1. SystemsMerged(s) = w
    BY <1>1, <1>5 DEF SystemsMerged
  <2> HIDE DEF w, y
  <2>2. Systems(w) = <<>> /\ WithoutSystem(w) = w /\ Len(<<>>) <= 1
    BY <1>2 DEF Systems, WithoutSystem
  <2> QED
    BY <1>1, <1>3, <2>1, <2>2 DEF w
<1>6. CASE Len(y) > 1 /\ Joined(y) # <<>>
  <2> DEFINE x == SystemMessage(Joined(y))
  <2>1. SystemsMerged(s) = <<x>> \o w
    BY <1>1, <1>6 DEF SystemsMerged
  <2>2. Joined(y) \in Seq(STRING)
    <3>1. y # <<>>
      BY <1>1, <1>6, EmptySeq
    <3> QED
      BY <3>1, JoinedText
  <2>3. x \in Sendable /\ x \in OfSystem /\ x.of = 0
    BY <2>2, SystemMessageIs
  <2> HIDE DEF w, y, x
  <2>4. <<x>> \in Seq(Sendable) /\ <<>> \in Seq(Sendable) /\ <<x>> = Append(<<>>, x)
    BY <2>3
  <2>5. /\ Only(<<x>> \o w, OfSystem) = Only(<<x>>, OfSystem) \o Only(w, OfSystem)
        /\ Only(<<x>> \o w, Messages \ OfSystem) = Only(<<x>>, Messages \ OfSystem) \o Only(w, Messages \ OfSystem)
    <3> DEFINE a == <<x>>
    <3>1. a \in Seq(Sendable) /\ w \in Seq(Sendable)
      BY <1>1, <2>4
    <3> HIDE DEF a
    <3> DEFINE T == Messages \ OfSystem
    <3> HIDE DEF T
    <3>2. Only(a \o w, OfSystem) = Only(a, OfSystem) \o Only(w, OfSystem)
      BY ONLY <3>1, OnlyJoined
    <3>3. Only(a \o w, T) = Only(a, T) \o Only(w, T)
      BY ONLY <3>1, OnlyJoined
    <3> QED
      BY <3>2, <3>3 DEF a, T
  <2>6. Only(<<x>>, OfSystem) = <<x>> /\ Only(<<x>>, Messages \ OfSystem) = <<>>
    <3>1. /\ Only(Append(<<>>, x), OfSystem) =
               IF x \in OfSystem THEN Append(Only(<<>>, OfSystem), x) ELSE Only(<<>>, OfSystem)
          /\ Only(Append(<<>>, x), Messages \ OfSystem) =
               IF x \in Messages \ OfSystem THEN Append(Only(<<>>, Messages \ OfSystem), x)
                                            ELSE Only(<<>>, Messages \ OfSystem)
      BY <2>3, <2>4, OnlyAppend
    <3> QED
      BY <2>3, <2>4, <3>1, OnlyEmpty
  <2>7. <<x>> \o w \in Seq(Sendable) /\ <<x>> \o <<>> = <<x>> /\ <<>> \o w = w
    BY <1>1, <2>4, ConcatProperties, ConcatEmptySeq
  <2>8. Systems(<<x>> \o w) = <<x>> /\ WithoutSystem(<<x>> \o w) = w
    BY <1>2, <2>5, <2>6, <2>7 DEF Systems, WithoutSystem
  <2>9. \A id \in Nat \ {0} : Follows(id, w) => Follows(id, <<x>> \o w)
    BY <1>1, <2>3, FrontKeepsCalls
  <2>10. Len(<<x>>) <= 1
    OBVIOUS
  <2> QED
    BY <1>3, <2>1, <2>7, <2>8, <2>9, <2>10 DEF w
<1> QED
  BY <1>1, <1>4, <1>5, <1>6

(* The old messages in short. *)
LEMMA SummaryIs ==
  ASSUME NEW s \in Seq(Sendable)
  PROVE  LET spoken == Only(OldOf(s), {m \in Messages : m.text # NoString})
         IN  <<Summarized>> \o FlattenSeq([i \in DOMAIN spoken |-> Preview(spoken[i].text)]) \in Seq(STRING)
<1> DEFINE old == OldOf(s)
           S == {m \in Messages : m.text # NoString}
           y == Only(old, S)
           texts == [i \in DOMAIN y |-> Preview(y[i].text)]
<1>1. old \in Seq(Sendable)
  <2>1. Len(s) \in Nat /\ KeepRecent \in Nat \ {0} /\ \A i \in 1..(Len(s) - KeepRecent) : i \in 1..Len(s)
    BY LenProperties, CompressionAssumption
  <2>2. \A i \in 1..(Len(s) - KeepRecent) : s[i] \in Sendable
    BY <2>1, ElementOfSeq
  <2> QED
    BY <2>1, <2>2, SubSeqProperties DEF OldOf
<1> HIDE DEF old
<1>2. y \in Seq(Sendable) /\ ToSet(y) \subseteq S
  <2> HIDE DEF S
  <2> QED
    BY <1>1, OnlyType, OnlyElements
<1> HIDE DEF y
<1>3. Len(y) \in Nat /\ DOMAIN y = 1..Len(y) /\ \A i \in 1..Len(y) : y[i] \in Sendable
  BY <1>2, LenProperties, ElementOfSeq
<1>4. \A i \in 1..Len(y) : Preview(y[i].text) \in Seq(STRING)
  <2> SUFFICES ASSUME NEW i \in 1..Len(y) PROVE Preview(y[i].text) \in Seq(STRING)
    OBVIOUS
  <2> DEFINE a == y[i].text
  <2>1. y[i] \in S /\ y[i] \in Sendable
    BY <1>2, <1>3 DEF ToSet
  <2>2. a \in Seq(STRING)
    BY <2>1, MessageIs
  <2> HIDE DEF a
  <2> DEFINE n == IF Len(a) < PreviewLength THEN Len(a) ELSE PreviewLength
  <2>3. n \in Nat /\ n <= Len(a) /\ Len(a) \in Nat
    BY <2>2, LenProperties, CompressionAssumption
  <2> HIDE DEF n
  <2>4. \A j \in 1..n : a[j] \in STRING
    <3>1. \A j \in 1..n : j \in 1..Len(a)
      BY <2>3
    <3> QED
      BY <2>2, <3>1, ElementOfSeq
  <2>5. SubSeq(a, 1, n) \in Seq(STRING)
    BY <2>3, <2>4, SubSeqProperties
  <2> QED
    BY <2>5 DEF Preview, a, n
<1>5. texts \in [1..Len(y) -> Seq(STRING)]
  BY <1>3, <1>4
<1> HIDE DEF texts
<1>6. texts \in Seq(Seq(STRING)) /\ Len(texts) = Len(y)
  <2>1. texts \in Seq(Seq(STRING))
    BY ONLY <1>3, <1>5, SeqDef
  <2> QED
    BY <1>3, <1>5, <2>1, LenProperties
<1>7. FlattenSeq(texts) \in Seq(STRING)
  <2>1. CASE texts # <<>>
    BY <1>6, <2>1, Flattened
  <2>2. CASE texts = <<>>
    <3>1. FlattenSeq(texts) = <<>> /\ <<>> \in Seq(STRING)
      BY <2>2 DEF FlattenSeq
    <3> QED
      BY <3>1
  <2> QED
    BY <2>1, <2>2
<1>8. <<Summarized>> \in Seq(STRING)
  BY CompressionAssumption
<1>9. <<Summarized>> \o FlattenSeq(texts) \in Seq(STRING)
  BY <1>7, <1>8, ConcatProperties
<1> QED
  BY <1>9 DEF texts, y, old

(* The recent messages are the last ones of the talk. *)
LEMMA RecentIs ==
  ASSUME NEW s \in Seq(Sendable), KeepRecent < Len(s), ToSet(s) \subseteq Messages \ OfSystem
  PROVE  /\ RecentOf(s) \in Seq(Sendable) /\ Len(RecentOf(s)) = KeepRecent
         /\ Last(RecentOf(s)) = Last(s)
         /\ Systems(RecentOf(s)) = <<>> /\ WithoutSystem(RecentOf(s)) = RecentOf(s)
<1> DEFINE n == Len(s)
           r == RecentOf(s)
           from == n - KeepRecent + 1
<1>1. n \in Nat /\ KeepRecent \in Nat \ {0} /\ from \in Nat \ {0} /\ from <= n /\ n - from + 1 = KeepRecent
      /\ DOMAIN s = 1..n
  BY LenProperties, CompressionAssumption
<1>2. \A i \in from..n : i \in 1..n
  BY <1>1
<1>3. \A i \in from..n : s[i] \in Sendable
  BY <1>2, ElementOfSeq
<1>4. r = SubSeq(s, from, n)
  BY DEF RecentOf
<1> HIDE DEF r, from, n
<1>5. r \in Seq(Sendable) /\ Len(r) = KeepRecent /\ \A i \in 1..KeepRecent : r[i] = s[from + i - 1]
  <2>1. SubSeq(s, from, n) \in Seq(Sendable) /\ Len(SubSeq(s, from, n)) = n - from + 1
        /\ \A i \in 1..(n - from + 1) : SubSeq(s, from, n)[i] = s[from + i - 1]
    BY <1>1, <1>3, SubSeqProperties
  <2> QED
    BY <1>1, <1>4, <2>1
<1>6. Last(r) = Last(s)
  <2>1. KeepRecent \in 1..KeepRecent /\ from + KeepRecent - 1 = n
    BY <1>1
  <2>2. r[KeepRecent] = s[n]
    BY <1>5, <2>1
  <2> QED
    BY <1>5, <2>2 DEF Last, n
<1>7. ToSet(r) \subseteq ToSet(s)
  <2>1. DOMAIN r = 1..KeepRecent
    BY <1>5, LenProperties
  <2>2. \A i \in 1..KeepRecent : from + i - 1 \in 1..n
    BY <1>1
  <2> QED
    BY <1>1, <1>5, <2>1, <2>2 DEF ToSet
<1>8. Only(r, OfSystem) = <<>> /\ Only(r, Messages \ OfSystem) = r
  <2>1. \A x \in ToSet(r) : x \notin OfSystem /\ x \in Messages \ OfSystem
    BY <1>7
  <2> QED
    BY <1>5, <2>1, OnlyNone, OnlyAll
<1> QED
  BY <1>5, <1>6, <1>8 DEF Systems, WithoutSystem, r

(* What context windowing makes of a list with one message of the system.  *)
LEMMA WindowedIs ==
  ASSUME NEW d \in Seq(Sendable), Len(Systems(d)) <= 1
  PROVE  /\ Len(WithoutSystem(Windowed(d))) <= KeepRecent
         /\ Len(Systems(Windowed(d))) <= 2
         /\ WithoutSystem(d) # <<>> =>
              /\ WithoutSystem(Windowed(d)) # <<>>
              /\ Last(WithoutSystem(Windowed(d))) = Last(WithoutSystem(d))
         /\ Len(WithoutSystem(d)) <= KeepRecent => Windowed(d) = d
<1> DEFINE talk == WithoutSystem(d)
           y == Systems(d)
           spoken == Only(OldOf(talk), {m \in Messages : m.text # NoString})
           summary == <<Summarized>> \o FlattenSeq([i \in DOMAIN spoken |-> Preview(spoken[i].text)])
           x == SystemMessage(summary)
           r == RecentOf(talk)
<1>1. talk \in Seq(Sendable) /\ y \in Seq(Sendable) /\ Len(talk) \in Nat /\ Len(y) \in Nat
  <2>1. talk \in Seq(Sendable) /\ y \in Seq(Sendable)
    BY OnlyType DEF Systems, WithoutSystem
  <2> QED
    BY <2>1, LenProperties
<1>2. ToSet(talk) \subseteq Messages \ OfSystem /\ ToSet(y) \subseteq OfSystem
  BY OnlyElements DEF Systems, WithoutSystem
<1>3. Windowed(d) = IF Len(talk) <= KeepRecent THEN d ELSE (y \o <<x>>) \o r
  BY DEF Windowed
<1>4. CASE Len(talk) <= KeepRecent
  BY <1>1, <1>3, <1>4
<1>5. CASE Len(talk) > KeepRecent
  <2>1. summary \in Seq(STRING)
    <3> HIDE DEF talk
    <3> QED
      BY <1>1, SummaryIs
  <2> HIDE DEF summary
  <2>2. x \in Sendable /\ x \in OfSystem
    BY <2>1, SystemMessageIs
  <2>3. KeepRecent \in Nat \ {0} /\ KeepRecent < Len(talk)
    BY <1>1, <1>5, CompressionAssumption
  <2>4. /\ r \in Seq(Sendable) /\ Len(r) = KeepRecent /\ Last(r) = Last(talk)
        /\ Only(r, OfSystem) = <<>> /\ Only(r, Messages \ OfSystem) = r
    <3> HIDE DEF talk
    <3> QED
      BY <1>1, <1>2, <2>3, RecentIs DEF Systems, WithoutSystem
  <2> HIDE DEF talk, y, x, r
  <2>5. y \o <<x>> = Append(y, x) /\ Append(y, x) \in Seq(Sendable) /\ Len(Append(y, x)) = Len(y) + 1
    <3>1. y \o <<x>> = Append(y, x)
      BY <1>1, <2>2, AppendIsConcat
    <3> QED
      BY <1>1, <2>2, <3>1, AppendProperties
  <2>6. /\ Only(Append(y, x) \o r, OfSystem) = Only(Append(y, x), OfSystem) \o Only(r, OfSystem)
        /\ Only(Append(y, x) \o r, Messages \ OfSystem) =
             Only(Append(y, x), Messages \ OfSystem) \o Only(r, Messages \ OfSystem)
    <3> DEFINE a == Append(y, x)
               T == Messages \ OfSystem
    <3>1. a \in Seq(Sendable)
      BY <2>5
    <3> HIDE DEF a, T
    <3>4. r \in Seq(Sendable)
      BY <2>4
    <3>2. Only(a \o r, OfSystem) = Only(a, OfSystem) \o Only(r, OfSystem)
      BY <3>1, <3>4, OnlyJoined
    <3>3. Only(a \o r, T) = Only(a, T) \o Only(r, T)
      BY <3>1, <3>4, OnlyJoined
    <3> QED
      BY <3>2, <3>3 DEF a, T
  <2>7. Only(Append(y, x), OfSystem) = Append(y, x) /\ Only(Append(y, x), Messages \ OfSystem) = <<>>
    <3>1. ToSet(Append(y, x)) = ToSet(y) \cup {x}
      BY <1>1, <2>2, ToSetAppend
    <3>2. \A e \in ToSet(Append(y, x)) : e \in OfSystem /\ e \notin Messages \ OfSystem
      BY <1>2, <2>2, <3>1
    <3> QED
      BY <2>5, <3>2, OnlyNone, OnlyAll
  <2>8. Append(y, x) \o <<>> = Append(y, x) /\ <<>> \o r = r
    BY <2>4, <2>5, ConcatEmptySeq
  <2>9. Systems(Windowed(d)) = Append(y, x) /\ WithoutSystem(Windowed(d)) = r
    <3>1. Windowed(d) = Append(y, x) \o r
      BY <1>1, <1>3, <1>5, <2>3, <2>5
    <3>2. Only(Windowed(d), OfSystem) = Append(y, x)
      BY <2>4, <2>6, <2>7, <2>8, <3>1
    <3>3. Only(Windowed(d), Messages \ OfSystem) = r
      BY <2>4, <2>6, <2>7, <2>8, <3>1
    <3> QED
      BY <3>2, <3>3 DEF Systems, WithoutSystem
  <2>10. r # <<>>
    BY <2>3, <2>4
  <2>11. Len(y) <= 1
    BY DEF y
  <2>12. Len(Append(y, x)) <= 2
    BY <1>1, <2>5, <2>11
  <2> QED
    BY <1>1, <2>3, <2>4, <2>9, <2>10, <2>12 DEF talk
<1> QED
  BY <1>1, <1>4, <1>5, CompressionAssumption

(* What is sent of a long conversation. *)
LEMMA SentFits ==
  ASSUME NEW c \in Chats, Len(c) >= MinMessages
  PROVE  /\ Len(WithoutSystem(Compressed(c))) <= KeepRecent
         /\ Len(Systems(Compressed(c))) <= 2
         /\ WithoutSystem(c) # <<>> /\ Last(WithoutSystem(c)).text # NoString =>
              IsSuffix(Last(WithoutSystem(c)).text, Last(WithoutSystem(Compressed(c))).text)
<1> DEFINE b == SystemsMerged(c)
           d == Deduplicated(b)
<1>1. c \in Seq(Sendable) /\ Len(c) \in Nat /\ MinMessages \in Nat
  <2>1. c \in Seq(Sendable)
    BY ChatsSendable
  <2> QED
    BY <2>1, LenProperties, CompressionAssumption
<1>2. Compressed(c) = Windowed(d)
  BY <1>1 DEF Compressed
<1>3. b \in Seq(Sendable) /\ Len(Systems(b)) <= 1 /\ WithoutSystem(b) = WithoutSystem(c)
  BY <1>1, SystemsMergedIs
<1> HIDE DEF b
<1>4. /\ d \in Seq(Sendable) /\ Systems(d) = Systems(b)
      /\ LastSaid(WithoutSystem(d), WithoutSystem(b))
  BY <1>3, DeduplicatedType, DeduplicatedSystems
<1> HIDE DEF d
<1>5. Len(Systems(d)) <= 1
  BY <1>3, <1>4
<1>6. /\ Len(WithoutSystem(Windowed(d))) <= KeepRecent
      /\ Len(Systems(Windowed(d))) <= 2
      /\ WithoutSystem(d) # <<>> =>
           Last(WithoutSystem(Windowed(d))) = Last(WithoutSystem(d))
  BY <1>4, <1>5, WindowedIs
<1> QED
  BY <1>2, <1>3, <1>4, <1>6 DEF LastSaid

(* What is sent of a conversation that is not summarized. *)
LEMMA SentWhole ==
  ASSUME NEW c \in Chats, Len(WithoutSystem(SystemsMerged(c))) <= KeepRecent
  PROVE  /\ Compressed(c) \in Seq(Sendable)
         /\ Compressed(c) = c \/ Compressed(c) = Deduplicated(SystemsMerged(c))
<1> DEFINE b == SystemsMerged(c)
           d == Deduplicated(b)
<1>1. c \in Seq(Sendable)
  BY ChatsSendable
<1>2. CASE Len(c) < MinMessages
  BY <1>1, <1>2 DEF Compressed
<1>3. CASE ~(Len(c) < MinMessages)
  <2>1. Compressed(c) = Windowed(d)
    BY <1>3 DEF Compressed
  <2>2. b \in Seq(Sendable) /\ Len(Systems(b)) <= 1
    BY <1>1, SystemsMergedIs
  <2>3. Len(WithoutSystem(b)) <= KeepRecent
    OBVIOUS
  <2> HIDE DEF b
  <2>4. d \in Seq(Sendable) /\ Systems(d) = Systems(b) /\ Len(WithoutSystem(d)) <= Len(WithoutSystem(b))
    BY <2>2, DeduplicatedType, DeduplicatedSystems
  <2> HIDE DEF d
  <2>5. Len(WithoutSystem(d)) <= KeepRecent
    <3>1. WithoutSystem(d) \in Seq(Sendable) /\ WithoutSystem(b) \in Seq(Sendable)
      BY <2>2, <2>4, OnlyType DEF WithoutSystem
    <3>2. Len(WithoutSystem(d)) \in Nat /\ Len(WithoutSystem(b)) \in Nat /\ KeepRecent \in Nat
      BY <3>1, LenProperties, CompressionAssumption
    <3> QED
      BY <2>3, <2>4, <3>2
  <2>6. Len(Systems(d)) <= 1
    BY <2>2, <2>4
  <2>7. Windowed(d) = d
    BY <2>4, <2>5, <2>6, WindowedIs
  <2> QED
    BY <2>1, <2>4, <2>7 DEF b, d
<1> QED
  BY <1>2, <1>3

(* The answers to a call that neither was merged away nor summarized. *)
LEMMA SentFollows ==
  ASSUME NEW c \in Chats, NEW id, id # 0, Follows(id, c), ~Merged(id, SystemsMerged(c)),
         Len(WithoutSystem(SystemsMerged(c))) <= KeepRecent
  PROVE  Follows(id, Compressed(c))
<1> DEFINE b == SystemsMerged(c)
           out == Compressed(c)
<1>1. c \in Seq(Sendable) /\ out \in Seq(Sendable) /\ (out = c \/ out = Deduplicated(b))
  BY ChatsSendable, SentWhole
<1>2. CASE id \notin Nat
  <2> HIDE DEF out
  <2>1. \A i \in DOMAIN out : out[i] \in Sendable
    BY <1>1, LenProperties, ElementOfSeq
  <2>2. \A i \in DOMAIN out : out[i].of \in Nat
    BY <2>1, MessageIs
  <2>3. Follows(id, out)
    BY <1>2, <2>2 DEF Follows
  <2> QED
    BY <2>3 DEF out
<1>3. CASE id \in Nat
  <2>1. b \in Seq(Sendable) /\ Follows(id, b)
    <3>1. id \in Nat \ {0}
      BY <1>3
    <3> QED
      BY <1>1, <3>1, SystemsMergedIs
  <2>2. ~Merged(id, b)
    OBVIOUS
  <2> HIDE DEF b
  <2>3. Follows(id, Deduplicated(b))
    BY <2>1, <2>2, DeduplicatedKeepsCalls
  <2> QED
    BY <1>1, <2>3
<1> QED
  BY <1>2, <1>3

-----------------------------------------------------------------------------
LEMMA InSet ==
  ASSUME NEW T, NEW b \in Seq(T), NEW S, ToSet(b) \subseteq S
  PROVE  b \in Seq(S)
<1>1. Only(b, S) = b
  <2>1. \A x \in ToSet(b) : x \in S
    OBVIOUS
  <2> QED
    BY <2>1, OnlyAll
<1> QED
  BY <1>1, OnlyOf

(* A content is a string or parts, never both. *)
Sized(m) == m.parts # <<>> => m.text = NoString
SizedMessages == {m \in Messages : Sized(m)}

LEMMA CharactersType ==
  /\ Characters \in [Messages -> Nat]
  /\ \A m \in Messages : Sized(m) /\ HasText(m) => Characters[m] > 0
<1> SUFFICES ASSUME NEW m \in Messages
             PROVE  /\ Len(IF m.text = NoString THEN m.parts ELSE m.text) * PieceLength \in Nat
                    /\ Sized(m) /\ HasText(m) =>
                         Len(IF m.text = NoString THEN m.parts ELSE m.text) * PieceLength > 0
  BY DEF Characters
<1> DEFINE t == IF m.text = NoString THEN m.parts ELSE m.text
           n == Len(t)
<1>1. t \in Seq(STRING) /\ (Sized(m) /\ HasText(m) => t # <<>>)
  BY DEF Messages, Sized, HasText
<1> HIDE DEF t
<1>2. n \in Nat /\ (t # <<>> => n > 0) /\ PieceLength \in Nat \ {0}
  BY <1>1, LenProperties, EmptySeq, CompressionAssumption
<1> HIDE DEF n
<1>3. n * PieceLength \in Nat /\ (n > 0 => n * PieceLength > 0)
  BY <1>2
<1> QED
  BY <1>1, <1>2, <1>3 DEF n, t

(* The tokens that n characters are taken for. *)
TokensOf(n) == IF n = 0 THEN 0 ELSE IF n < 4 THEN 1 ELSE n \div 4

LEMMA TokensGrow ==
  ASSUME NEW n \in Nat, NEW k \in Nat
  PROVE  /\ TokensOf(n) \in Nat /\ TokensOf(n + k) \in Nat /\ TokensOf(n + k) >= TokensOf(n)
         /\ n > 0 => TokensOf(n) > 0
<1>1. /\ n \div 4 \in Nat /\ (n + k) \div 4 \in Nat /\ (n + k) \div 4 >= n \div 4
      /\ n >= 4 => n \div 4 >= 1
  OBVIOUS
<1> QED
  BY <1>1 DEF TokensOf

LEMMA EstimateAppend ==
  ASSUME NEW s \in Seq(Messages), NEW m \in Messages
  PROVE  EstimatedTokens(Append(s, m)) >= EstimatedTokens(s) + 4
<1> DEFINE a == SumOver(s, Characters)
           b == SumOver(Append(s, m), Characters)
           k == Characters[m]
           n == Len(s)
           l == Len(Append(s, m))
<1>1. a \in Nat /\ k \in Nat /\ b = a + k
  <2>1. a \in Nat
    BY CharactersType, SumType
  <2>2. b = a + k
    BY CharactersType, SumAppend
  <2> QED
    BY <2>1, <2>2, CharactersType
<1>2. n \in Nat /\ l = n + 1
  BY LenProperties, AppendProperties
<1>3. EstimatedTokens(Append(s, m)) = TokensOf(b) + 4 * l /\ EstimatedTokens(s) = TokensOf(a) + 4 * n
  BY DEF EstimatedTokens, TokensOf
<1> HIDE DEF a, b, k, n, l
<1>4. TokensOf(a) \in Nat /\ TokensOf(b) \in Nat /\ TokensOf(b) >= TokensOf(a)
  BY <1>1, TokensGrow
<1> QED
  BY <1>2, <1>3, <1>4

(* Any text counts. *)
LEMMA TextCounts ==
  \A s \in Seq(SizedMessages) :
    (\E i \in DOMAIN s : HasText(s[i])) => SumOver(s, Characters) > 0
<1> DEFINE Counted(s) ==
             (\E i \in DOMAIN s : HasText(s[i])) => SumOver(s, Characters) > 0
           good == {s \in Seq(SizedMessages) : Counted(s)}
<1>1. <<>> \in good
  OBVIOUS
<1>2. ASSUME NEW s \in Seq(SizedMessages), NEW m \in SizedMessages, s \in good PROVE Append(s, m) \in good
  <2> DEFINE t == Append(s, m)
             a == SumOver(s, Characters)
             k == Characters[m]
  <2>0. s \in Seq(Messages) /\ m \in Messages
    BY SeqMonotonic DEF SizedMessages
  <2>1. /\ t \in Seq(SizedMessages) /\ DOMAIN t = 1..(Len(s) + 1) /\ Len(s) \in Nat
        /\ t[Len(s) + 1] = m /\ \A i \in 1..Len(s) : t[i] = s[i]
    BY AppendProperties, LenProperties
  <2>2. a \in Nat /\ k \in Nat /\ SumOver(t, Characters) = a + k
    <3>1. a \in Nat
      BY <2>0, CharactersType, SumType
    <3>2. SumOver(t, Characters) = a + k
      BY <2>0, CharactersType, SumAppend
    <3> QED
      BY <2>0, <3>1, <3>2, CharactersType
  <2>3. Counted(s) /\ DOMAIN s = 1..Len(s)
    BY <1>2, LenProperties
  <2>4. HasText(m) => k > 0
    BY <2>0, CharactersType DEF SizedMessages
  <2> HIDE DEF t, a, k
  <2>5. ASSUME NEW i \in DOMAIN t, HasText(t[i]) PROVE SumOver(t, Characters) > 0
    <3>1. i = Len(s) + 1 \/ i \in 1..Len(s)
      BY <2>1
    <3>2. CASE i = Len(s) + 1
      BY <2>1, <2>2, <2>4, <2>5, <3>2
    <3>3. CASE i \in 1..Len(s)
      <4>1. \E j \in DOMAIN s : HasText(s[j])
        BY <2>1, <2>3, <2>5, <3>3
      <4>2. a > 0
        BY <2>3, <4>1 DEF a
      <4> QED
        BY <2>2, <4>2
    <3> QED
      BY <3>1, <3>2, <3>3
  <2> QED
    BY <2>1, <2>5 DEF t
<1> HIDE DEF good
<1>3. \A s \in Seq(SizedMessages) : s \in good
  BY <1>1, <1>2, ByAppending
<1> QED
  BY <1>3 DEF good

(* The beginnings of a sequence, each the one before with one more.        *)
LEMMA Beginnings ==
  ASSUME NEW T, NEW s \in Seq(T), NEW i \in 1..Len(s)
  PROVE  /\ SubSeq(s, 1, i - 1) \in Seq(T) /\ s[i] \in T
         /\ SubSeq(s, 1, i) = Append(SubSeq(s, 1, i - 1), s[i])
<1> DEFINE p == SubSeq(s, 1, i - 1)
           q == SubSeq(s, 1, i)
<1>1. Len(s) \in Nat /\ i \in Nat \ {0} /\ i <= Len(s) /\ \A j \in 1..Len(s) : s[j] \in T
  BY LenProperties, ElementOfSeq
<1>2. p \in Seq(T) /\ Len(p) = i - 1 /\ \A j \in 1..(i - 1) : p[j] = s[j]
  BY <1>1, SubSeqProperties
<1>3. q \in Seq(T) /\ Len(q) = i /\ \A j \in 1..i : q[j] = s[j]
  BY <1>1, SubSeqProperties
<1>4. s[i] \in T
  BY <1>1
<1> HIDE DEF p, q
<1>5. /\ Append(p, s[i]) \in Seq(T) /\ Len(Append(p, s[i])) = i /\ Append(p, s[i])[i] = s[i]
      /\ \A j \in 1..(i - 1) : Append(p, s[i])[j] = p[j]
  <2> DEFINE e == s[i]
  <2>1. e \in T
    BY <1>4
  <2> HIDE DEF e
  <2>2. /\ Append(p, e) \in Seq(T) /\ Len(Append(p, e)) = Len(p) + 1 /\ Append(p, e)[Len(p) + 1] = e
        /\ \A j \in 1..Len(p) : Append(p, e)[j] = p[j]
    BY <1>2, <2>1, AppendProperties
  <2>3. Len(p) + 1 = i
    BY <1>1, <1>2
  <2> QED
    BY <1>2, <2>2, <2>3 DEF e
<1>6. \A j \in 1..i : q[j] = Append(p, s[i])[j]
  <2>1. \A j \in 1..i : j = i \/ j \in 1..(i - 1)
    BY <1>1
  <2> QED
    BY <1>2, <1>3, <1>5, <2>1
<1>7. q = Append(p, s[i])
  BY <1>3, <1>5, <1>6, SeqEqual
<1> QED
  BY <1>2, <1>4, <1>7 DEF p, q

LEMMA EstimateGrows ==
  ASSUME NEW c \in Chats
  PROVE  /\ \A i \in DOMAIN c :
              EstimatedTokens(SubSeq(c, 1, i)) >= EstimatedTokens(SubSeq(c, 1, i - 1)) + 4
         /\ (\E i \in DOMAIN c : HasText(c[i])) =>
              EstimatedTokens(c) > 4 * Len(c)
<1>1. c \in Seq(Messages) /\ DOMAIN c = 1..Len(c) /\ Len(c) \in Nat
  <2>1. c \in Seq(Messages)
    BY CompressionAssumption
  <2> QED
    BY <2>1, LenProperties
<1>2. ASSUME NEW i \in DOMAIN c
      PROVE  EstimatedTokens(SubSeq(c, 1, i)) >= EstimatedTokens(SubSeq(c, 1, i - 1)) + 4
  <2> DEFINE p == SubSeq(c, 1, i - 1)
             m == c[i]
  <2>1. p \in Seq(Messages) /\ m \in Messages /\ SubSeq(c, 1, i) = Append(p, m)
    BY <1>1, Beginnings
  <2> HIDE DEF p, m
  <2>2. EstimatedTokens(Append(p, m)) >= EstimatedTokens(p) + 4
    BY <2>1, EstimateAppend
  <2> QED
    BY <2>1, <2>2 DEF p
<1>3. ASSUME \E i \in DOMAIN c : HasText(c[i])
      PROVE  EstimatedTokens(c) > 4 * Len(c)
  <2> DEFINE a == SumOver(c, Characters)
             n == Len(c)
  <2>1. a > 0
    <3>1. c \in Seq(SizedMessages)
      <4>1. ToSet(c) \subseteq SizedMessages
        <5>1. \A i \in DOMAIN c : c[i] \in Messages
          BY <1>1, ElementOfSeq
        <5>2. \A m \in ToSet(c) : m \in Messages
          BY <5>1 DEF ToSet
        <5> QED
          BY <5>2, CompressionAssumption DEF SizedMessages, Sized
      <4> QED
        BY <1>1, <4>1, InSet
    <3> QED
      BY <1>3, <3>1, TextCounts
  <2>2. a \in Nat
    BY <1>1, CharactersType, SumType
  <2>3. EstimatedTokens(c) = TokensOf(a) + 4 * n
    BY DEF EstimatedTokens, TokensOf
  <2> HIDE DEF a
  <2>4. TokensOf(a) \in Nat /\ TokensOf(a) > 0
    <3>1. 0 \in Nat
      OBVIOUS
    <3> QED
      BY <2>1, <2>2, <3>1, TokensGrow
  <2> QED
    BY <1>1, <2>3, <2>4
<1> QED
  BY <1>2, <1>3

(* Nothing is sent yet, or what the conversation is compressed to. *)
CompressionInv == chat \in Chats /\ (sent = <<>> \/ sent = Compressed(chat))

LEMMA CompressionSound == CompressionInv => CompressionIsSound
<1> SUFFICES ASSUME CompressionInv PROVE CompressionIsSound
  OBVIOUS
<1>1. chat \in Chats
  BY DEF CompressionInv
<1>2. AnswersFollowCalls
  <2> DEFINE before == SystemsMerged(chat)
  <2> SUFFICES ASSUME NEW id \in {m.of : m \in ToSet(sent)} \ {0}, Follows(id, chat),
                      ~Merged(id, before), ~(Len(WithoutSystem(before)) > KeepRecent)
               PROVE  Follows(id, sent)
    BY DEF AnswersFollowCalls
  <2>1. CASE sent = <<>>
    BY <2>1, CallsOfNone
  <2>2. CASE sent = Compressed(chat)
    <3>1. Len(WithoutSystem(before)) <= KeepRecent
      <4>1. chat \in Seq(Sendable)
        BY <1>1, ChatsSendable
      <4>2. before \in Seq(Sendable)
        BY <4>1, SystemsMergedIs
      <4> HIDE DEF before
      <4>3. WithoutSystem(before) \in Seq(Sendable)
        BY <4>2, OnlyType DEF WithoutSystem
      <4>4. Len(WithoutSystem(before)) \in Nat /\ KeepRecent \in Nat
        BY <4>3, LenProperties, CompressionAssumption
      <4> QED
        BY <4>4
    <3> QED
      BY <1>1, <2>2, <3>1, SentFollows
  <2> QED
    BY <2>1, <2>2 DEF CompressionInv
<1>3. WindowIsBounded
  <2> SUFFICES ASSUME sent # <<>>, Len(chat) >= MinMessages
               PROVE  /\ Len(WithoutSystem(sent)) <= KeepRecent
                      /\ Len(Systems(sent)) <= 2
                      /\ WithoutSystem(chat) # <<>> /\ Last(WithoutSystem(chat)).text # NoString =>
                           IsSuffix(Last(WithoutSystem(chat)).text, Last(WithoutSystem(sent)).text)
    BY DEF WindowIsBounded
  <2>1. sent = Compressed(chat)
    BY DEF CompressionInv
  <2> QED
    BY <1>1, <2>1, SentFits
<1>4. EstimatesGrow
  BY <1>1, EstimateGrows DEF EstimatesGrow
<1> QED
  BY <1>2, <1>3, <1>4 DEF CompressionIsSound

LEMMA CompressionInvHolds == CompressionSpec => []CompressionInv
<1>1. CompressionInit => CompressionInv
  BY DEF CompressionInit, CompressionInv
<1>2. CompressionInv /\ [CompressionNext]_compressionVars => CompressionInv'
  BY DEF CompressionInv, CompressionNext, Compress, compressionVars
<1> QED
  BY <1>1, <1>2, PTL DEF CompressionSpec

(* Whatever conversations clients send, and however many messages are kept *)
(* of them: the answers to a call follow it, what is sent is bounded and   *)
(* ends with what was said last, and no message goes uncounted             *)
(* (compress_messages, estimate_tokens).                                   *)
THEOREM Compressing == CompressionSpec => []CompressionIsSound
BY CompressionInvHolds, CompressionSound, PTL

-----------------------------------------------------------------------------
(***************************************************************************)
(* Translation.                                                            *)
(***************************************************************************)
(* Messages as Claude's clients send them. *)
ClaudeSaid == {m \in Said({"user", "assistant"}) :
  /\ ToSet(m.blocks) \cap CallBlocks # {} => m.role = "assistant"
  /\ ToSet(m.blocks) \cap AnswerBlocks # {} => m.role = "user"}

LEMMA ClaudeBodies ==
  ASSUME NEW b \in Bodies, b.format = "claude"
  PROVE  /\ b.messages \in Seq(ClaudeSaid) /\ b.system \in Seq(STRING) \cup {NoText} /\ b.plain \in BOOLEAN
         /\ b.plain => \A m \in ToSet(b.messages) : ToSet(m.blocks) \subseteq TextBlocks
<1> DEFINE c == b.messages
           S == Said({"user", "assistant"})
<1>1. c \in Seq(S)
  BY TranslationAssumption
<1>2. Len(c) \in Nat /\ DOMAIN c = 1..Len(c) /\ \A i \in 1..Len(c) : c[i] \in S
  BY <1>1, LenProperties, ElementOfSeq
<1>3. \A i \in 1..Len(c) : c[i] \in ToSet(c)
  BY <1>2 DEF ToSet
<1>4. \A i \in 1..Len(c) : c[i] \in ClaudeSaid
  BY <1>2, <1>3, TranslationAssumption DEF ClaudeSaid
<1>5. c \in [1..Len(c) -> ClaudeSaid]
  BY <1>1, <1>2, <1>4, LenProperties
<1>6. c \in Seq(ClaudeSaid)
  BY <1>2, <1>5, SeqDef
<1> QED
  BY <1>6, TranslationAssumption

LEMMA BlockKinds ==
  /\ TextBlocks \cap CallBlocks = {} /\ TextBlocks \cap AnswerBlocks = {} /\ CallBlocks \cap AnswerBlocks = {}
  /\ \A b \in TextBlocks : b = Text(b.is) /\ b.is \in STRING
  /\ \A b \in CallBlocks : b = Use(b.is) /\ b.is \in Nat \ {0}
  /\ \A b \in AnswerBlocks : b = Result(b.is, b.says) /\ b.is \in Nat \ {0} /\ b.says \in STRING
BY DEF TextBlocks, CallBlocks, AnswerBlocks, Text, Use, Result

LEMMA SaidIs ==
  \A roles : \A m \in Said(roles) : m.blocks \in Seq(Blocks) /\ m.role \in roles /\ m = [role |-> m.role, blocks |-> m.blocks]
BY DEF Said

LEMMA OneOf == ASSUME NEW T, NEW x \in T PROVE <<x>> \in Seq(T) /\ <<x>> = Append(<<>>, x)
OBVIOUS

(* The ids of calls, and of the calls that are answered. *)
Ids == [b \in CallBlocks \cup AnswerBlocks |-> b.is]
Pieces == [b \in TextBlocks |-> b.is]

LEMMA IdsType ==
  /\ Ids \in [CallBlocks \cup AnswerBlocks -> Nat \ {0}] /\ Pieces \in [TextBlocks -> STRING]
  /\ \A s \in Seq(CallBlocks \cup AnswerBlocks) : Is(s) = Mapped(s, Ids)
  /\ \A s \in Seq(TextBlocks) : Is(s) = Mapped(s, Pieces)
<1>1. Ids \in [CallBlocks \cup AnswerBlocks -> Nat \ {0}] /\ Pieces \in [TextBlocks -> STRING]
  BY BlockKinds DEF Ids, Pieces
<1>2. ASSUME NEW s \in Seq(CallBlocks \cup AnswerBlocks) PROVE Is(s) = Mapped(s, Ids)
  <2>1. \A i \in DOMAIN s : s[i] \in CallBlocks \cup AnswerBlocks
    BY LenProperties, ElementOfSeq
  <2>2. \A i \in DOMAIN s : s[i].is = Ids[s[i]]
    BY <2>1 DEF Ids
  <2> QED
    BY <2>2 DEF Is, Mapped
<1>3. ASSUME NEW s \in Seq(TextBlocks) PROVE Is(s) = Mapped(s, Pieces)
  <2>1. \A i \in DOMAIN s : s[i] \in TextBlocks
    BY LenProperties, ElementOfSeq
  <2>2. \A i \in DOMAIN s : s[i].is = Pieces[s[i]]
    BY <2>1 DEF Pieces
  <2> QED
    BY <2>2 DEF Is, Mapped
<1> QED
  BY <1>1, <1>2, <1>3

(* The texts, the calls and the answers of a list of blocks.               *)
ToolAnswers == [b \in AnswerBlocks |-> ToolMessage(b.is, b.says)]

LEMMA TextMessageIs ==
  ASSUME NEW role \in {"system", "user", "assistant"}, NEW text \in Seq(STRING)
  PROVE  /\ Message(role, text) \in OpenAIMessages
         /\ Message(role, text) = [role |-> role, text |-> text, calls |-> <<>>, of |-> 0]
<1>1. <<>> \in Seq(Nat \ {0}) /\ 0 \in Nat
  OBVIOUS
<1> QED
  BY <1>1 DEF Message, OpenAIMessages

LEMMA CallMessageIs ==
  ASSUME NEW text \in Seq(STRING) \cup {NoText}, NEW ids \in Seq(Nat \ {0})
  PROVE  /\ CallMessage(text, ids) \in OpenAIMessages
         /\ CallMessage(text, ids) = [role |-> "assistant", text |-> text, calls |-> ids, of |-> 0]
<1>1. CallMessage(text, ids) = [role |-> "assistant", text |-> text, calls |-> ids, of |-> 0]
  BY DEF CallMessage, Message
<1> QED
  BY <1>1 DEF OpenAIMessages

LEMMA ToolMessageIs ==
  ASSUME NEW i \in Nat \ {0}, NEW p \in STRING
  PROVE  /\ ToolMessage(i, p) \in OpenAIMessages
         /\ ToolMessage(i, p) = [role |-> "tool", text |-> <<p>>, calls |-> <<>>, of |-> i]
<1>1. ToolMessage(i, p) = [role |-> "tool", text |-> <<p>>, calls |-> <<>>, of |-> i]
  BY DEF ToolMessage, Message
<1>2. <<p>> \in Seq(STRING)
  BY OneOf
<1>3. <<>> \in Seq(Nat \ {0})
  OBVIOUS
<1> QED
  BY <1>1, <1>2, <1>3 DEF OpenAIMessages

(* What becomes of one of Claude's messages: a text, calls, answers.       *)
LEMMA FromClaudeIs ==
  ASSUME NEW m \in ClaudeSaid
  PROVE  LET texts == Is(Only(m.blocks, TextBlocks))
             uses == Is(Only(m.blocks, CallBlocks))
             results == Only(m.blocks, AnswerBlocks)
         IN  /\ texts \in Seq(STRING) /\ uses \in Seq(Nat \ {0}) /\ results \in Seq(AnswerBlocks)
             /\ uses # <<>> => m.role = "assistant"
             /\ results # <<>> => m.role = "user"
             /\ FromClaudeMessage(m) =
                  ((IF texts # <<>> THEN <<Message(m.role, texts)>> ELSE <<>>)
                   \o (IF uses # <<>> THEN <<CallMessage(IF texts # <<>> THEN texts ELSE NoText, uses)>> ELSE <<>>))
                  \o Mapped(results, ToolAnswers)
<1> DEFINE t == Only(m.blocks, TextBlocks)
           u == Only(m.blocks, CallBlocks)
           r == Only(m.blocks, AnswerBlocks)
<1>1. m.blocks \in Seq(Blocks) /\ m.role \in {"user", "assistant"}
  BY SaidIs DEF ClaudeSaid
<1>2. t \in Seq(TextBlocks) /\ u \in Seq(CallBlocks) /\ r \in Seq(AnswerBlocks)
  BY <1>1, OnlyOf
<1>3. ToSet(u) = ToSet(m.blocks) \cap CallBlocks /\ ToSet(r) = ToSet(m.blocks) \cap AnswerBlocks
  BY <1>1, OnlyElements
<1> HIDE DEF t, u, r
<1>4. u \in Seq(CallBlocks \cup AnswerBlocks) /\ r \in Seq(CallBlocks \cup AnswerBlocks)
  BY <1>2, SeqMonotonic
<1>5. Is(t) \in Seq(STRING) /\ Is(u) \in Seq(Nat \ {0}) /\ Len(Is(u)) = Len(u)
  <2>1. Is(t) = Mapped(t, Pieces) /\ Is(u) = Mapped(u, Ids)
    BY <1>2, <1>4, IdsType
  <2>2. Mapped(t, Pieces) \in Seq(STRING) /\ Mapped(u, Ids) \in Seq(Nat \ {0}) /\ Len(Mapped(u, Ids)) = Len(u)
    <3>1. Pieces \in [TextBlocks -> STRING] /\ Ids \in [CallBlocks \cup AnswerBlocks -> Nat \ {0}]
      BY IdsType
    <3>2. Mapped(t, Pieces) \in Seq(STRING)
      BY <1>2, <3>1, MappedIs
    <3>3. Mapped(u, Ids) \in Seq(Nat \ {0})
      BY <1>4, <3>1, MappedIs
    <3>4. Len(Mapped(u, Ids)) = Len(u)
      BY <1>2, MappedValues
    <3> QED
      BY <3>2, <3>3, <3>4
  <2> QED
    BY <2>1, <2>2
<1>6. Is(u) # <<>> => u # <<>>
  BY <1>2, <1>5, EmptySeq
<1>7. /\ u # <<>> => m.role = "assistant"
      /\ r # <<>> => m.role = "user"
  <2>1. u # <<>> => ToSet(u) # {}
    <3>1. u # <<>> => u[1] \in ToSet(u)
      BY <1>2, EmptySeq, LenProperties DEF ToSet
    <3> QED
      BY <3>1
  <2>2. r # <<>> => ToSet(r) # {}
    <3>1. r # <<>> => r[1] \in ToSet(r)
      BY <1>2, EmptySeq, LenProperties DEF ToSet
    <3> QED
      BY <3>1
  <2> QED
    BY <1>3, <2>1, <2>2 DEF ClaudeSaid
<1>8. [i \in DOMAIN r |-> ToolMessage(r[i].is, r[i].says)] = Mapped(r, ToolAnswers)
  <2>1. \A i \in DOMAIN r : r[i] \in AnswerBlocks
    BY <1>2, LenProperties, ElementOfSeq
  <2>2. \A i \in DOMAIN r : ToolMessage(r[i].is, r[i].says) = ToolAnswers[r[i]]
    BY <2>1 DEF ToolAnswers
  <2> QED
    BY <2>2 DEF Mapped
<1>9. FromClaudeMessage(m) =
        ((IF Is(t) # <<>> THEN <<Message(m.role, Is(t))>> ELSE <<>>)
         \o (IF Is(u) # <<>> THEN <<CallMessage(IF Is(t) # <<>> THEN Is(t) ELSE NoText, Is(u))>> ELSE <<>>))
        \o Mapped(r, ToolAnswers)
  BY <1>6, <1>7, <1>8 DEF FromClaudeMessage, t, u, r
<1> QED
  BY <1>2, <1>5, <1>6, <1>7, <1>9 DEF t, u, r

(* The calls and the answers of one more message. *)
CallsIn == [m \in OpenAIMessages |-> m.calls]
Answered == {m \in OpenAIMessages : m.of # 0}
AnswerTo == [m \in Answered |-> m.of]

LEMMA OpenAITypes ==
  /\ CallsIn \in [OpenAIMessages -> Seq(Nat \ {0})] /\ AnswerTo \in [Answered -> Nat \ {0}]
  /\ \A ms \in Seq(OpenAIMessages) :
       /\ CallsOf(ms) = FlattenSeq(Mapped(ms, CallsIn))
       /\ Only(ms, Answered) \in Seq(Answered)
       /\ AnswersOf(ms) = Mapped(Only(ms, Answered), AnswerTo)
<1>1. CallsIn \in [OpenAIMessages -> Seq(Nat \ {0})] /\ AnswerTo \in [Answered -> Nat \ {0}]
  BY DEF CallsIn, AnswerTo, Answered, OpenAIMessages
<1>2. ASSUME NEW ms \in Seq(OpenAIMessages)
      PROVE  /\ CallsOf(ms) = FlattenSeq(Mapped(ms, CallsIn))
             /\ Only(ms, Answered) \in Seq(Answered)
             /\ AnswersOf(ms) = Mapped(Only(ms, Answered), AnswerTo)
  <2>1. \A i \in DOMAIN ms : ms[i] \in OpenAIMessages
    BY LenProperties, ElementOfSeq
  <2>2. [i \in DOMAIN ms |-> ms[i].calls] = Mapped(ms, CallsIn)
    BY <2>1 DEF CallsIn, Mapped
  <2> DEFINE a == Only(ms, Answered)
  <2>3. a \in Seq(Answered)
    BY OnlyOf
  <2>4. AnswersOf(ms) = [i \in DOMAIN a |-> a[i].of]
    BY DEF AnswersOf, Answered
  <2> HIDE DEF a
  <2>5. \A i \in DOMAIN a : a[i] \in Answered
    BY <2>3, LenProperties, ElementOfSeq
  <2>6. [i \in DOMAIN a |-> a[i].of] = Mapped(a, AnswerTo)
    BY <2>5 DEF AnswerTo, Mapped
  <2> QED
    BY <2>2, <2>3, <2>4, <2>6 DEF CallsOf, a
<1> QED
  BY <1>1, <1>2

LEMMA OpenAIJoined ==
  ASSUME NEW s \in Seq(OpenAIMessages), NEW t \in Seq(OpenAIMessages)
  PROVE  /\ CallsOf(s) \in Seq(Nat \ {0}) /\ CallsOf(s \o t) = CallsOf(s) \o CallsOf(t)
         /\ AnswersOf(s) \in Seq(Nat \ {0}) /\ AnswersOf(s \o t) = AnswersOf(s) \o AnswersOf(t)
<1>1. s \o t \in Seq(OpenAIMessages)
  BY ConcatProperties
<1>0. CallsIn \in [OpenAIMessages -> Seq(Nat \ {0})] /\ AnswerTo \in [Answered -> Nat \ {0}]
  BY OpenAITypes
<1>2. /\ Mapped(s, CallsIn) \in Seq(Seq(Nat \ {0})) /\ Mapped(t, CallsIn) \in Seq(Seq(Nat \ {0}))
      /\ Mapped(s \o t, CallsIn) = Mapped(s, CallsIn) \o Mapped(t, CallsIn)
  <2> DEFINE T == OpenAIMessages
             U == Seq(Nat \ {0})
             g == CallsIn
  <2>1. g \in [T -> U] /\ s \in Seq(T) /\ t \in Seq(T)
    BY <1>0
  <2> HIDE DEF T, U, g
  <2>2. Mapped(s, g) \in Seq(U) /\ Mapped(t, g) \in Seq(U)
    BY ONLY <2>1, MappedIs
  <2>3. Mapped(s \o t, g) = Mapped(s, g) \o Mapped(t, g)
    BY ONLY <2>1, MappedJoined
  <2> QED
    BY <2>2, <2>3 DEF U, g
<1>3. /\ FlattenSeq(Mapped(s, CallsIn) \o Mapped(t, CallsIn)) =
           FlattenSeq(Mapped(s, CallsIn)) \o FlattenSeq(Mapped(t, CallsIn))
      /\ FlattenSeq(Mapped(s, CallsIn)) \in Seq(Nat \ {0})
  BY <1>2, FlatJoined, FlatType
<1>4. /\ Only(s \o t, Answered) = Only(s, Answered) \o Only(t, Answered)
      /\ Only(s, Answered) \in Seq(Answered) /\ Only(t, Answered) \in Seq(Answered)
  BY OnlyJoined, OpenAITypes
<1>5. /\ Mapped(Only(s, Answered) \o Only(t, Answered), AnswerTo) =
           Mapped(Only(s, Answered), AnswerTo) \o Mapped(Only(t, Answered), AnswerTo)
      /\ Mapped(Only(s, Answered), AnswerTo) \in Seq(Nat \ {0})
  <2> DEFINE a == Only(s, Answered)
             b == Only(t, Answered)
             U == Nat \ {0}
             g == AnswerTo
  <2>1. g \in [Answered -> U] /\ a \in Seq(Answered) /\ b \in Seq(Answered)
    BY <1>0, <1>4
  <2> HIDE DEF a, b, U, g
  <2>2. Mapped(a \o b, g) = Mapped(a, g) \o Mapped(b, g)
    BY ONLY <2>1, MappedJoined
  <2>3. Mapped(a, g) \in Seq(U)
    BY ONLY <2>1, MappedIs
  <2> QED
    BY <2>2, <2>3 DEF a, b, U, g
<1> QED
  BY <1>1, <1>2, <1>3, <1>4, <1>5, OpenAITypes

LEMMA OpenAINone == CallsOf(<<>>) = <<>> /\ AnswersOf(<<>>) = <<>>
<1>1. <<>> \in Seq(OpenAIMessages)
  OBVIOUS
<1> QED
  BY <1>1, OpenAITypes, MappedEmpty, FlatEmpty, OnlyEmpty

LEMMA OpenAIOne ==
  ASSUME NEW m \in OpenAIMessages
  PROVE  /\ CallsOf(<<m>>) = m.calls
         /\ AnswersOf(<<m>>) = IF m.of # 0 THEN <<m.of>> ELSE <<>>
<1>1. <<m>> \in Seq(OpenAIMessages) /\ <<m>> = Append(<<>>, m) /\ <<>> \in Seq(OpenAIMessages)
  BY OneOf, EmptySeq
<1>2. FlattenSeq(Mapped(Append(<<>>, m), CallsIn)) = FlattenSeq(Mapped(<<>>, CallsIn)) \o CallsIn[m]
  <2> DEFINE T == OpenAIMessages
             U == Nat \ {0}
             g == CallsIn
             e == <<>>
  <2>1. g \in [T -> Seq(U)] /\ e \in Seq(T) /\ m \in T
    BY <1>1, OpenAITypes
  <2> HIDE DEF T, U, g, e
  <2>2. FlattenSeq(Mapped(Append(e, m), g)) = FlattenSeq(Mapped(e, g)) \o g[m]
    <3>1. e \in Seq(T) /\ m \in T /\ Mapped(e, g) \in Seq(Seq(U)) /\ g[m] \in Seq(U)
      BY ONLY <2>1, MappedIs
    <3> QED
      BY ONLY <3>1, FlatMapped
  <2> QED
    BY <2>2 DEF g, e
<1>3. CallsIn[m] = m.calls /\ CallsIn[m] \in Seq(Nat \ {0})
  BY OpenAITypes DEF CallsIn
<1>4. CallsOf(<<m>>) = m.calls
  <2>1. <<>> \o CallsIn[m] = CallsIn[m]
    BY <1>3, ConcatEmptySeq
  <2> QED
    BY <1>1, <1>2, <1>3, <2>1, OpenAITypes, MappedEmpty, FlatEmpty
<1>5. Only(<<m>>, Answered) = IF m.of # 0 THEN <<m>> ELSE <<>>
  <2>1. Only(Append(<<>>, m), Answered) = IF m \in Answered THEN Append(<<>>, m) ELSE <<>>
    <3>1. <<>> \in Seq(OpenAIMessages)
      BY <1>1
    <3>2. Only(Append(<<>>, m), Answered) =
            IF m \in Answered THEN Append(Only(<<>>, Answered), m) ELSE Only(<<>>, Answered)
      BY <3>1, OnlyAppend
    <3> QED
      BY <3>2, OnlyEmpty
  <2> QED
    BY <1>1, <2>1 DEF Answered
<1>6. m.of # 0 => Mapped(<<m>>, AnswerTo) = <<m.of>>
  <2> SUFFICES ASSUME m.of # 0 PROVE Mapped(<<m>>, AnswerTo) = <<m.of>>
    OBVIOUS
  <2>1. m \in Answered /\ <<>> \in Seq(Answered) /\ AnswerTo[m] = m.of
    BY EmptySeq DEF Answered, AnswerTo
  <2>2. Mapped(Append(<<>>, m), AnswerTo) = Append(Mapped(<<>>, AnswerTo), AnswerTo[m])
    <3> DEFINE U == Nat \ {0}
               g == AnswerTo
               e == <<>>
    <3>1. g \in [Answered -> U] /\ m \in Answered /\ e \in Seq(Answered)
      BY <2>1, OpenAITypes
    <3> HIDE DEF U, g, e
    <3>2. Mapped(Append(e, m), g) = Append(Mapped(e, g), g[m])
      BY ONLY <3>1, MappedAppend
    <3> QED
      BY <3>2 DEF g, e
  <2>3. Append(<<>>, m.of) = <<m.of>>
    BY OneOf
  <2> QED
    BY <1>1, <2>1, <2>2, <2>3, MappedEmpty
<1> QED
  BY <1>1, <1>4, <1>5, <1>6, OpenAITypes, MappedEmpty

LEMMA ToolAnswersAre ==
  \A r \in Seq(AnswerBlocks) :
    /\ Mapped(r, ToolAnswers) \in Seq(OpenAIMessages)
    /\ CallsOf(Mapped(r, ToolAnswers)) = <<>>
    /\ AnswersOf(Mapped(r, ToolAnswers)) = Mapped(r, Ids)
<1>0. ToolAnswers \in [AnswerBlocks -> OpenAIMessages]
  BY BlockKinds, ToolMessageIs DEF ToolAnswers
<1> DEFINE Fine(r) == /\ CallsOf(Mapped(r, ToolAnswers)) = <<>>
                      /\ AnswersOf(Mapped(r, ToolAnswers)) = Mapped(r, Ids)
           good == {r \in Seq(AnswerBlocks) : Fine(r)}
<1>1. <<>> \in good
  BY MappedEmpty, OpenAINone
<1>2. ASSUME NEW r \in Seq(AnswerBlocks), NEW x \in AnswerBlocks, r \in good PROVE Append(r, x) \in good
  <2> DEFINE a == Mapped(r, ToolAnswers)
             y == ToolAnswers[x]
  <2>1. /\ a \in Seq(OpenAIMessages) /\ y \in OpenAIMessages
        /\ Mapped(Append(r, x), ToolAnswers) = Append(a, y)
    <3> DEFINE T == AnswerBlocks
               U == OpenAIMessages
               g == ToolAnswers
    <3>1. g \in [T -> U] /\ r \in Seq(T) /\ x \in T
      BY <1>0
    <3> HIDE DEF T, U, g
    <3>2. Mapped(r, g) \in Seq(U)
      BY ONLY <3>1, MappedIs
    <3>3. Mapped(Append(r, x), g) = Append(Mapped(r, g), g[x])
      BY ONLY <3>1, MappedAppend
    <3>4. g[x] \in U
      BY <3>1
    <3> QED
      BY <3>2, <3>3, <3>4 DEF U, g
  <2>2. y.calls = <<>> /\ y.of = x.is /\ x.is \in Nat \ {0}
    <3>1. x.is \in Nat \ {0} /\ x.says \in STRING
      BY BlockKinds
    <3>2. y = ToolMessage(x.is, x.says)
      BY DEF ToolAnswers
    <3> DEFINE i == x.is
               p == x.says
    <3>4. i \in Nat \ {0} /\ p \in STRING
      BY <3>1
    <3> HIDE DEF i, p
    <3>3. ToolMessage(i, p).calls = <<>> /\ ToolMessage(i, p).of = i
      BY ONLY <3>4, ToolMessageIs
    <3> QED
      BY <3>1, <3>2, <3>3 DEF i, p
  <2>3. Fine(r)
    BY <1>2
  <2> HIDE DEF a, y
  <2>4. Append(a, y) = a \o <<y>> /\ <<y>> \in Seq(OpenAIMessages)
    BY <2>1, AppendIsConcat, OneOf
  <2>5. CallsOf(<<y>>) = <<>> /\ AnswersOf(<<y>>) = <<x.is>>
    BY <2>1, <2>2, OpenAIOne
  <2>6. CallsOf(Append(a, y)) = CallsOf(a) \o <<>> /\ AnswersOf(Append(a, y)) = AnswersOf(a) \o <<x.is>>
    BY <2>1, <2>4, <2>5, OpenAIJoined
  <2>7. r \in Seq(CallBlocks \cup AnswerBlocks) /\ x \in CallBlocks \cup AnswerBlocks
    BY SeqMonotonic
  <2>8. Mapped(r, Ids) \in Seq(Nat \ {0}) /\ Mapped(Append(r, x), Ids) = Append(Mapped(r, Ids), Ids[x])
    <3> DEFINE T == CallBlocks \cup AnswerBlocks
               U == Nat \ {0}
               g == Ids
    <3>1. g \in [T -> U] /\ r \in Seq(T) /\ x \in T
      BY <2>7, IdsType
    <3> HIDE DEF T, U, g
    <3>2. Mapped(r, g) \in Seq(U)
      BY ONLY <3>1, MappedIs
    <3>3. Mapped(Append(r, x), g) = Append(Mapped(r, g), g[x])
      BY ONLY <3>1, MappedAppend
    <3> QED
      BY <3>2, <3>3 DEF U, g
  <2>9. Ids[x] = x.is
    BY <2>7 DEF Ids
  <2>10. Append(Mapped(r, Ids), x.is) = Mapped(r, Ids) \o <<x.is>>
    BY <2>2, <2>8, AppendIsConcat
  <2>11. Fine(Append(r, x))
    <3>1. <<>> \o <<>> = <<>>
      OBVIOUS
    <3> QED
      BY <2>1, <2>3, <2>6, <2>8, <2>9, <2>10, <3>1 DEF a
  <2> QED
    BY <2>11, AppendProperties
<1> HIDE DEF good
<1>3. \A r \in Seq(AnswerBlocks) : r \in good
  BY <1>1, <1>2, ByAppending
<1> QED
  BY <1>0, <1>3, MappedIs DEF good

(* The messages that one of Claude's becomes: their calls and answers are  *)
(* its own.                                                                *)
LEMMA FromClaudeKeeps ==
  ASSUME NEW m \in ClaudeSaid
  PROVE  /\ FromClaudeMessage(m) \in Seq(OpenAIMessages)
         /\ CallsOf(FromClaudeMessage(m)) = Is(Only(m.blocks, CallBlocks))
         /\ AnswersOf(FromClaudeMessage(m)) = Is(Only(m.blocks, AnswerBlocks))
<1> DEFINE t == Is(Only(m.blocks, TextBlocks))
           u == Is(Only(m.blocks, CallBlocks))
           r == Only(m.blocks, AnswerBlocks)
           a == IF t # <<>> THEN <<Message(m.role, t)>> ELSE <<>>
           b == IF u # <<>> THEN <<CallMessage(IF t # <<>> THEN t ELSE NoText, u)>> ELSE <<>>
           c == Mapped(r, ToolAnswers)
<1>1. /\ t \in Seq(STRING) /\ u \in Seq(Nat \ {0}) /\ r \in Seq(AnswerBlocks)
      /\ FromClaudeMessage(m) = (a \o b) \o c
  BY FromClaudeIs
<1>2. m.role \in {"user", "assistant"}
  BY SaidIs DEF ClaudeSaid
<1> HIDE DEF t, u, r
<1>3. a \in Seq(OpenAIMessages) /\ CallsOf(a) = <<>> /\ AnswersOf(a) = <<>>
  <2> DEFINE x == Message(m.role, t)
  <2>1. x \in OpenAIMessages /\ x.calls = <<>> /\ x.of = 0
    BY <1>1, <1>2, TextMessageIs
  <2> HIDE DEF x
  <2>2. <<x>> \in Seq(OpenAIMessages) /\ CallsOf(<<x>>) = <<>> /\ AnswersOf(<<x>>) = <<>>
    BY <2>1, OneOf, OpenAIOne
  <2>3. a = <<x>> \/ a = <<>>
    BY DEF x
  <2> HIDE DEF a
  <2> QED
    BY <2>2, <2>3, OpenAINone, EmptySeq
<1>4. b \in Seq(OpenAIMessages) /\ CallsOf(b) = u /\ AnswersOf(b) = <<>>
  <2> DEFINE w == IF t # <<>> THEN t ELSE NoText
             x == CallMessage(w, u)
  <2>1. w \in Seq(STRING) \cup {NoText}
    BY <1>1
  <2> HIDE DEF w
  <2>2. x \in OpenAIMessages /\ x.calls = u /\ x.of = 0
    <3>1. u \in Seq(Nat \ {0})
      BY <1>1
    <3> QED
      BY <2>1, <3>1, CallMessageIs
  <2> HIDE DEF x
  <2>3. <<x>> \in Seq(OpenAIMessages) /\ CallsOf(<<x>>) = u /\ AnswersOf(<<x>>) = <<>>
    BY <2>2, OneOf, OpenAIOne
  <2>4. b = IF u # <<>> THEN <<x>> ELSE <<>>
    BY DEF x, w
  <2> HIDE DEF b
  <2> QED
    BY <2>3, <2>4, OpenAINone, EmptySeq
<1>5. c \in Seq(OpenAIMessages) /\ CallsOf(c) = <<>> /\ AnswersOf(c) = Is(r)
  <2>1. r \in Seq(CallBlocks \cup AnswerBlocks)
    BY <1>1, SeqMonotonic
  <2> QED
    BY <1>1, <2>1, ToolAnswersAre, IdsType
<1> HIDE DEF a, b, c
<1>6. /\ a \o b \in Seq(OpenAIMessages) /\ (a \o b) \o c \in Seq(OpenAIMessages)
      /\ CallsOf(a \o b) = CallsOf(a) \o CallsOf(b)
      /\ AnswersOf(a \o b) = AnswersOf(a) \o AnswersOf(b)
  BY <1>3, <1>4, <1>5, ConcatProperties, OpenAIJoined
<1>7. /\ CallsOf((a \o b) \o c) = CallsOf(a \o b) \o CallsOf(c)
      /\ AnswersOf((a \o b) \o c) = AnswersOf(a \o b) \o AnswersOf(c)
  BY <1>5, <1>6, OpenAIJoined
<1>8. Is(r) \in Seq(Nat \ {0})
  BY <1>5, OpenAIJoined
<1>9. <<>> \o u = u /\ u \o <<>> = u /\ <<>> \o <<>> = <<>> /\ <<>> \o Is(r) = Is(r)
  BY <1>1, <1>8, ConcatEmptySeq
<1>10. CallsOf((a \o b) \o c) = u
  BY <1>3, <1>4, <1>5, <1>6, <1>7, <1>9
<1>11. AnswersOf((a \o b) \o c) = Is(r)
  BY <1>3, <1>4, <1>5, <1>6, <1>7, <1>9
<1> QED
  BY <1>1, <1>6, <1>10, <1>11 DEF u, r

LEMMA IsJoined ==
  \A u, v \in Seq(CallBlocks \cup AnswerBlocks) :
    Is(u) \in Seq(Nat \ {0}) /\ Is(u \o v) = Is(u) \o Is(v)
<1> DEFINE T == CallBlocks \cup AnswerBlocks
           U == Nat \ {0}
           g == Ids
<1> SUFFICES ASSUME NEW u \in Seq(T), NEW v \in Seq(T)
             PROVE  Is(u) \in Seq(U) /\ Is(u \o v) = Is(u) \o Is(v)
  OBVIOUS
<1>1. g \in [T -> U] /\ u \in Seq(T) /\ v \in Seq(T)
  BY IdsType
<1>2. \A s \in Seq(T) : Is(s) = Mapped(s, g)
  BY IdsType
<1> HIDE DEF T, U, g
<1>3. u \o v \in Seq(T)
  BY <1>1, ConcatProperties
<1>4. Mapped(u, g) \in Seq(U)
  BY ONLY <1>1, MappedIs
<1>5. Mapped(u \o v, g) = Mapped(u, g) \o Mapped(v, g)
  BY ONLY <1>1, MappedJoined
<1> QED
  BY <1>1, <1>2, <1>3, <1>4, <1>5

(* The messages of a conversation of Claude's, translated one by one.      *)
Translations == [m \in ClaudeSaid |-> FromClaudeMessage(m)]
BlocksIn == [m \in ClaudeSaid |-> m.blocks]

LEMMA CallsOfConversation ==
  \A s \in Seq(ClaudeSaid) :
    LET out == FlattenSeq(Mapped(s, Translations))
        blocks == FlattenSeq(Mapped(s, BlocksIn))
    IN  /\ out \in Seq(OpenAIMessages)
        /\ CallsOf(out) = Is(Only(blocks, CallBlocks))
        /\ AnswersOf(out) = Is(Only(blocks, AnswerBlocks))
<1> DEFINE Out(s) == FlattenSeq(Mapped(s, Translations))
           In(s) == FlattenSeq(Mapped(s, BlocksIn))
           Kept(s) == /\ CallsOf(Out(s)) = Is(Only(In(s), CallBlocks))
                      /\ AnswersOf(Out(s)) = Is(Only(In(s), AnswerBlocks))
           good == {s \in Seq(ClaudeSaid) : Kept(s)}
<1>0. Translations \in [ClaudeSaid -> Seq(OpenAIMessages)] /\ BlocksIn \in [ClaudeSaid -> Seq(Blocks)]
  BY FromClaudeKeeps, SaidIs DEF Translations, BlocksIn, ClaudeSaid
<1>1. <<>> \in good
  <2>1. Out(<<>>) = <<>> /\ In(<<>>) = <<>>
    BY MappedEmpty, FlatEmpty
  <2>2. Is(<<>>) = <<>>
    BY DEF Is
  <2>3. Kept(<<>>)
    BY <2>1, <2>2, OpenAINone, OnlyEmpty
  <2> QED
    BY <2>3
<1>2. ASSUME NEW s \in Seq(ClaudeSaid), NEW x \in ClaudeSaid
      PROVE  /\ Out(s) \in Seq(OpenAIMessages)
             /\ Out(Append(s, x)) = Out(s) \o FromClaudeMessage(x)
             /\ In(s) \in Seq(Blocks)
             /\ In(Append(s, x)) = In(s) \o x.blocks
  <2> DEFINE T == ClaudeSaid
             U == OpenAIMessages
             V == Blocks
             g == Translations
             h == BlocksIn
  <2>1. g \in [T -> Seq(U)] /\ h \in [T -> Seq(V)] /\ s \in Seq(T) /\ x \in T
    BY <1>0
  <2>2. g[x] = FromClaudeMessage(x) /\ h[x] = x.blocks
    BY DEF Translations, BlocksIn
  <2> HIDE DEF T, U, V, g, h
  <2>3. /\ FlattenSeq(Mapped(s, g)) \in Seq(U)
        /\ FlattenSeq(Mapped(Append(s, x), g)) = FlattenSeq(Mapped(s, g)) \o g[x]
    <3>1. s \in Seq(T) /\ x \in T /\ Mapped(s, g) \in Seq(Seq(U)) /\ g[x] \in Seq(U)
      BY ONLY <2>1, MappedIs
    <3> QED
      BY ONLY <3>1, FlatMapped, FlatType
  <2>4. /\ FlattenSeq(Mapped(s, h)) \in Seq(V)
        /\ FlattenSeq(Mapped(Append(s, x), h)) = FlattenSeq(Mapped(s, h)) \o h[x]
    <3>1. s \in Seq(T) /\ x \in T /\ Mapped(s, h) \in Seq(Seq(V)) /\ h[x] \in Seq(V)
      BY ONLY <2>1, MappedIs
    <3> QED
      BY ONLY <3>1, FlatMapped, FlatType
  <2> QED
    BY <2>2, <2>3, <2>4 DEF U, V, g, h
<1>3. ASSUME NEW s \in Seq(ClaudeSaid), NEW x \in ClaudeSaid, s \in good
      PROVE  Append(s, x) \in good
  <2> DEFINE a == Out(s)
             i == In(s)
             b == FromClaudeMessage(x)
             j == x.blocks
  <2>1. a \in Seq(OpenAIMessages) /\ i \in Seq(Blocks)
        /\ Out(Append(s, x)) = a \o b /\ In(Append(s, x)) = i \o j
    BY <1>2
  <2>2. CallsOf(a) = Is(Only(i, CallBlocks)) /\ AnswersOf(a) = Is(Only(i, AnswerBlocks))
    BY <1>3
  <2>3. /\ b \in Seq(OpenAIMessages)
        /\ CallsOf(b) = Is(Only(j, CallBlocks)) /\ AnswersOf(b) = Is(Only(j, AnswerBlocks))
    BY FromClaudeKeeps
  <2>4. j \in Seq(Blocks)
    BY SaidIs DEF ClaudeSaid
  <2> HIDE DEF a, b, i, j, Out, In
  <2>5. /\ CallsOf(a \o b) = CallsOf(a) \o CallsOf(b)
        /\ AnswersOf(a \o b) = AnswersOf(a) \o AnswersOf(b)
    BY <2>1, <2>3, OpenAIJoined
  <2>6. \A S : Only(i \o j, S) = Only(i, S) \o Only(j, S)
    BY <2>1, <2>4, OnlyJoined
  <2>7. /\ Only(i, CallBlocks) \in Seq(CallBlocks) /\ Only(j, CallBlocks) \in Seq(CallBlocks)
        /\ Only(i, AnswerBlocks) \in Seq(AnswerBlocks) /\ Only(j, AnswerBlocks) \in Seq(AnswerBlocks)
    BY <2>1, <2>4, OnlyOf
  <2>8. \A r : r \in Seq(CallBlocks) \/ r \in Seq(AnswerBlocks) => r \in Seq(CallBlocks \cup AnswerBlocks)
    BY SeqMonotonic
  <2>9. Is(Only(i, CallBlocks) \o Only(j, CallBlocks)) = Is(Only(i, CallBlocks)) \o Is(Only(j, CallBlocks))
    BY <2>7, <2>8, IsJoined
  <2>10. Is(Only(i, AnswerBlocks) \o Only(j, AnswerBlocks)) = Is(Only(i, AnswerBlocks)) \o Is(Only(j, AnswerBlocks))
    BY <2>7, <2>8, IsJoined
  <2>11. Kept(Append(s, x))
    BY <2>1, <2>2, <2>3, <2>5, <2>6, <2>9, <2>10
  <2> HIDE DEF Kept
  <2>12. Append(s, x) \in Seq(ClaudeSaid)
    BY AppendProperties
  <2> QED
    BY <2>11, <2>12
<1> HIDE DEF good
<1>4. \A s \in Seq(ClaudeSaid) : s \in good
  BY <1>1, <1>3, ByAppending
<1>5. \A s \in Seq(ClaudeSaid) : Out(s) \in Seq(OpenAIMessages)
  <2> DEFINE T == ClaudeSaid
             U == OpenAIMessages
             g == Translations
  <2> SUFFICES ASSUME NEW s \in Seq(T) PROVE FlattenSeq(Mapped(s, g)) \in Seq(U)
    OBVIOUS
  <2>1. g \in [T -> Seq(U)] /\ s \in Seq(T)
    BY <1>0
  <2> HIDE DEF T, U, g
  <2>2. Mapped(s, g) \in Seq(Seq(U))
    BY ONLY <2>1, MappedIs
  <2> QED
    BY <2>2, FlatType
<1> QED
  BY <1>4, <1>5 DEF good

(* What goes before the conversation: the system prompt.                   *)
LEMMA OpeningIs ==
  ASSUME NEW b, b.system \in Seq(STRING) \cup {NoText}
  PROVE  /\ Opening(b) \in Seq(OpenAIMessages) /\ CallsOf(Opening(b)) = <<>> /\ AnswersOf(Opening(b)) = <<>>
<1> DEFINE x == Message("system", Prompt(b))
<1>1. CASE Prompt(b) = NoText
  BY <1>1, OpenAINone, EmptySeq DEF Opening
<1>2. CASE Prompt(b) # NoText
  <2>1. Prompt(b) \in Seq(STRING)
    BY <1>2 DEF Prompt
  <2>2. x \in OpenAIMessages /\ x.calls = <<>> /\ x.of = 0
    BY <2>1, TextMessageIs
  <2>3. Opening(b) = <<x>>
    BY <1>2 DEF Opening
  <2> HIDE DEF x
  <2>4. <<x>> \in Seq(OpenAIMessages) /\ CallsOf(<<x>>) = <<>> /\ AnswersOf(<<x>>) = <<>>
    BY <2>2, OneOf, OpenAIOne
  <2> QED
    BY <2>3, <2>4
<1> QED
  BY <1>1, <1>2

LEMMA ConversationIs ==
  ASSUME NEW b \in Bodies, b.format = "claude", ~b.plain
  PROVE  /\ FromClaude(b) = Opening(b) \o FlattenSeq(Mapped(b.messages, Translations))
         /\ Contents(b) = FlattenSeq(Mapped(b.messages, BlocksIn))
<1> DEFINE c == b.messages
<1>1. \A i \in DOMAIN c : c[i] \in ClaudeSaid
  BY ClaudeBodies, LenProperties, ElementOfSeq
<1> HIDE DEF c
<1>2. \A i \in DOMAIN c : FromClaudeMessage(c[i]) = Translations[c[i]] /\ c[i].blocks = BlocksIn[c[i]]
  BY <1>1 DEF Translations, BlocksIn
<1>3. [i \in DOMAIN c |-> FromClaudeMessage(c[i])] = Mapped(c, Translations)
      /\ [i \in DOMAIN c |-> c[i].blocks] = Mapped(c, BlocksIn)
  BY <1>2 DEF Mapped
<1> QED
  BY <1>3 DEF FromClaude, Opening, Contents, c

(* No call and no answer of a conversation is lost.                        *)
LEMMA CallsOfClaude ==
  ASSUME NEW b \in Bodies, b.format = "claude", ~b.plain
  PROVE  /\ FromClaude(b) \in Seq(OpenAIMessages)
         /\ CallsOf(FromClaude(b)) = OfKind(Contents(b), CallBlocks)
         /\ AnswersOf(FromClaude(b)) = OfKind(Contents(b), AnswerBlocks)
<1> DEFINE f == Opening(b)
           o == FlattenSeq(Mapped(b.messages, Translations))
           c == FlattenSeq(Mapped(b.messages, BlocksIn))
<1>1. f \in Seq(OpenAIMessages) /\ CallsOf(f) = <<>> /\ AnswersOf(f) = <<>>
  BY OpeningIs, ClaudeBodies
<1>2. /\ o \in Seq(OpenAIMessages) /\ CallsOf(o) = Is(Only(c, CallBlocks))
      /\ AnswersOf(o) = Is(Only(c, AnswerBlocks))
  BY CallsOfConversation, ClaudeBodies
<1>3. FromClaude(b) = f \o o /\ Contents(b) = c
  BY ConversationIs
<1> HIDE DEF f, o, c
<1>4. CallsOf(f \o o) = CallsOf(f) \o CallsOf(o) /\ AnswersOf(f \o o) = AnswersOf(f) \o AnswersOf(o)
      /\ CallsOf(o) \in Seq(Nat \ {0}) /\ AnswersOf(o) \in Seq(Nat \ {0})
  BY <1>1, <1>2, OpenAIJoined
<1>5. <<>> \o CallsOf(o) = CallsOf(o) /\ <<>> \o AnswersOf(o) = AnswersOf(o)
  BY <1>4, ConcatEmptySeq
<1>6. f \o o \in Seq(OpenAIMessages)
  BY <1>1, <1>2, ConcatProperties
<1> QED
  BY <1>1, <1>2, <1>3, <1>4, <1>5, <1>6 DEF OfKind

(* A message of texts alone, of calls alone, or of one answer becomes one  *)
(* message of OpenAI's, and that becomes the message it was.               *)
OfTexts(m) == m.blocks # <<>> /\ ToSet(m.blocks) \subseteq TextBlocks
OfCalls(m) == m.blocks # <<>> /\ ToSet(m.blocks) \subseteq CallBlocks
OfAnswer(m) == Len(m.blocks) = 1 /\ ToSet(m.blocks) \subseteq AnswerBlocks
Plainly == {m \in ClaudeSaid : OfTexts(m) \/ OfCalls(m) \/ OfAnswer(m)}
OneMessage(m) ==
  IF OfTexts(m) THEN Message(m.role, Is(m.blocks))
  ELSE IF OfCalls(m) THEN CallMessage(NoText, Is(m.blocks))
  ELSE ToolMessage(m.blocks[1].is, m.blocks[1].says)

LEMMA NoTextIs == NoText \notin Seq(STRING)
BY TranslationAssumption

(* Blocks of one kind are kept, and there are none of another.             *)
LEMMA KindsApart ==
  ASSUME NEW b \in Seq(Blocks), NEW S, NEW R, ToSet(b) \subseteq S, S \cap R = {}
  PROVE  Only(b, S) = b /\ Only(b, R) = <<>>
<1>1. (\A x \in ToSet(b) : x \in S) /\ (\A x \in ToSet(b) : x \notin R)
  OBVIOUS
<1> QED
  BY <1>1, OnlyAll, OnlyNone

LEMMA TextsThereAndBack ==
  ASSUME NEW roles, NEW m \in Said(roles), OfTexts(m), NEW role \in {"user", "assistant"}
  PROVE  /\ Is(Only(m.blocks, TextBlocks)) = Is(m.blocks)
         /\ Is(m.blocks) \in Seq(STRING) /\ Is(m.blocks) # <<>>
         /\ Message(role, Is(m.blocks)) \in OpenAIMessages
         /\ [j \in DOMAIN Is(m.blocks) |-> Text(Is(m.blocks)[j])] = m.blocks
<1> DEFINE b == m.blocks
<1>1. b \in Seq(Blocks) /\ ToSet(b) \subseteq TextBlocks /\ b # <<>>
  BY SaidIs DEF OfTexts
<1> HIDE DEF b
<1>2. b \in Seq(TextBlocks)
  BY <1>1, InSet
<1>3. Only(b, TextBlocks) = b
  <2>1. \A x \in ToSet(b) : x \in TextBlocks
    BY <1>1
  <2> QED
    BY <1>1, <2>1, OnlyAll
<1>4. Is(b) \in Seq(STRING) /\ Len(Is(b)) = Len(b)
  <2>1. Is(b) = Mapped(b, Pieces) /\ Pieces \in [TextBlocks -> STRING]
    BY <1>2, IdsType
  <2>2. Mapped(b, Pieces) \in Seq(STRING) /\ Len(Mapped(b, Pieces)) = Len(b)
    BY <1>2, <2>1, MappedIs, MappedValues
  <2> QED
    BY <2>1, <2>2
<1>5. Is(b) # <<>>
  BY <1>1, <1>2, <1>4, EmptySeq
<1>6. Message(role, Is(b)) \in OpenAIMessages
  BY <1>4, TextMessageIs
<1>7. DOMAIN b = 1..Len(b) /\ \A i \in 1..Len(b) : b[i] = Text(b[i].is)
  BY <1>2, LenProperties, ElementOfSeq, BlockKinds
<1>8. [j \in DOMAIN Is(b) |-> Text(Is(b)[j])] = b
  <2>1. DOMAIN Is(b) = DOMAIN b /\ \A j \in DOMAIN b : Is(b)[j] = b[j].is
    BY DEF Is
  <2>2. [j \in DOMAIN Is(b) |-> Text(Is(b)[j])] = [j \in DOMAIN b |-> b[j]]
    BY <1>7, <2>1
  <2>3. [j \in DOMAIN b |-> b[j]] = b
    BY <1>2, LenProperties
  <2> QED
    BY <2>2, <2>3
<1> QED
  BY <1>3, <1>4, <1>5, <1>6, <1>8 DEF b

LEMMA CallsThereAndBack ==
  ASSUME NEW roles, NEW m \in Said(roles), OfCalls(m)
  PROVE  /\ Is(m.blocks) \in Seq(Nat \ {0}) /\ Is(m.blocks) # <<>>
         /\ [j \in DOMAIN Is(m.blocks) |-> Use(Is(m.blocks)[j])] = m.blocks
<1> DEFINE b == m.blocks
<1>1. b \in Seq(Blocks) /\ ToSet(b) \subseteq CallBlocks /\ b # <<>>
  BY SaidIs DEF OfCalls
<1> HIDE DEF b
<1>2. b \in Seq(CallBlocks) /\ b \in Seq(CallBlocks \cup AnswerBlocks)
  BY <1>1, InSet
<1>4. Is(b) \in Seq(Nat \ {0}) /\ DOMAIN Is(b) = DOMAIN b /\ \A j \in DOMAIN b : Is(b)[j] = b[j].is
  BY <1>2, IsJoined DEF Is
<1>5. Is(b) # <<>>
  <2>1. DOMAIN b # {}
    BY <1>1, <1>2, EmptySeq, LenProperties
  <2> QED
    BY <1>4, <2>1
<1>7. DOMAIN b = 1..Len(b) /\ \A i \in 1..Len(b) : b[i] = Use(b[i].is)
  BY <1>2, LenProperties, ElementOfSeq, BlockKinds
<1>8. [j \in DOMAIN Is(b) |-> Use(Is(b)[j])] = b
  <2>2. [j \in DOMAIN Is(b) |-> Use(Is(b)[j])] = [j \in DOMAIN b |-> b[j]]
    BY <1>4, <1>7
  <2>3. [j \in DOMAIN b |-> b[j]] = b
    BY <1>2, LenProperties
  <2> QED
    BY <2>2, <2>3
<1> QED
  BY <1>4, <1>5, <1>8 DEF b

(* What ToClaudeMessage makes of the three kinds of messages.              *)
LEMMA ToClaudeMessageIs ==
  /\ \A role \in {"user", "assistant"}, t \in Seq(STRING) :
       ToClaudeMessage(Message(role, t)) = [role |-> role, blocks |-> [j \in DOMAIN t |-> Text(t[j])]]
  /\ \A u \in Seq(Nat \ {0}) :
       ToClaudeMessage(CallMessage(NoText, u)) =
         [role |-> "assistant", blocks |-> [j \in DOMAIN u |-> Use(u[j])]]
  /\ \A i \in Nat \ {0}, p \in STRING :
       ToClaudeMessage(ToolMessage(i, p)) = [role |-> "user", blocks |-> <<Result(i, p)>>]
<1>1. ASSUME NEW role \in {"user", "assistant"}, NEW t \in Seq(STRING)
      PROVE  ToClaudeMessage(Message(role, t)) = [role |-> role, blocks |-> [j \in DOMAIN t |-> Text(t[j])]]
  <2> DEFINE b == [j \in DOMAIN t |-> Text(t[j])]
  <2>1. Message(role, t) = [role |-> role, text |-> t, calls |-> <<>>, of |-> 0]
    BY DEF Message
  <2>2. t # NoText
    BY NoTextIs
  <2>3. [i \in DOMAIN <<>> |-> Use(<<>>[i])] = <<>>
    OBVIOUS
  <2>4. b \o <<>> = b
    <3>1. DOMAIN t = 1..Len(t) /\ Len(t) \in Nat
      BY <1>1, LenProperties
    <3> DEFINE n == Len(t)
               T == {Text(t[j]) : j \in 1..n}
    <3>2. n \in Nat /\ b \in [1..n -> T]
      BY <3>1
    <3> HIDE DEF b, n, T
    <3>3. b \in Seq(T)
      BY ONLY <3>2, SeqDef
    <3> QED
      BY <3>3, ConcatEmptySeq
  <2>5. ToClaudeMessage(Message(role, t)) = [role |-> role, blocks |-> b \o <<>>]
    BY <1>1, <2>1, <2>2, <2>3 DEF ToClaudeMessage
  <2> QED
    BY <2>4, <2>5
<1>2. ASSUME NEW u \in Seq(Nat \ {0})
      PROVE  ToClaudeMessage(CallMessage(NoText, u)) =
               [role |-> "assistant", blocks |-> [j \in DOMAIN u |-> Use(u[j])]]
  <2> DEFINE b == [j \in DOMAIN u |-> Use(u[j])]
  <2>1. CallMessage(NoText, u) = [role |-> "assistant", text |-> NoText, calls |-> u, of |-> 0]
    BY DEF CallMessage, Message
  <2>4. <<>> \o b = b
    <3>1. DOMAIN u = 1..Len(u) /\ Len(u) \in Nat
      BY <1>2, LenProperties
    <3> DEFINE n == Len(u)
               T == {Use(u[j]) : j \in 1..n}
    <3>2. n \in Nat /\ b \in [1..n -> T]
      BY <3>1
    <3> HIDE DEF b, n, T
    <3>3. b \in Seq(T)
      BY ONLY <3>2, SeqDef
    <3> QED
      BY <3>3, ConcatEmptySeq
  <2>5. ToClaudeMessage(CallMessage(NoText, u)) = [role |-> "assistant", blocks |-> <<>> \o b]
    BY <2>1 DEF ToClaudeMessage
  <2> QED
    BY <2>4, <2>5
<1>3. ASSUME NEW i \in Nat \ {0}, NEW p \in STRING
      PROVE  ToClaudeMessage(ToolMessage(i, p)) = [role |-> "user", blocks |-> <<Result(i, p)>>]
  <2>1. ToolMessage(i, p) = [role |-> "tool", text |-> <<p>>, calls |-> <<>>, of |-> i]
    BY DEF ToolMessage, Message
  <2> QED
    BY <2>1 DEF ToClaudeMessage
<1> QED
  BY <1>1, <1>2, <1>3

LEMMA PlainMessage ==
  ASSUME NEW m \in Plainly
  PROVE  /\ OneMessage(m) \in OpenAIMessages /\ OneMessage(m).role # "system"
         /\ ToClaudeMessage(OneMessage(m)) = m
         /\ FromClaudeMessage(m) = <<OneMessage(m)>>
<1> DEFINE b == m.blocks
           S == {"user", "assistant"}
<1>1. m \in ClaudeSaid /\ m \in Said(S) /\ b \in Seq(Blocks) /\ m.role \in S
      /\ m = [role |-> m.role, blocks |-> b] /\ (OfTexts(m) \/ OfCalls(m) \/ OfAnswer(m))
  BY SaidIs DEF Plainly, ClaudeSaid
<1>2. FromClaudeMessage(m) =
        ((IF Is(Only(b, TextBlocks)) # <<>> THEN <<Message(m.role, Is(Only(b, TextBlocks)))>> ELSE <<>>)
         \o (IF Is(Only(b, CallBlocks)) # <<>>
               THEN <<CallMessage(IF Is(Only(b, TextBlocks)) # <<>> THEN Is(Only(b, TextBlocks)) ELSE NoText,
                                  Is(Only(b, CallBlocks)))>> ELSE <<>>))
        \o Mapped(Only(b, AnswerBlocks), ToolAnswers)
      /\ (Is(Only(b, CallBlocks)) # <<>> => m.role = "assistant")
      /\ (Only(b, AnswerBlocks) # <<>> => m.role = "user")
  BY <1>1, FromClaudeIs
<1>3. Is(<<>>) = <<>> /\ Mapped(<<>>, ToolAnswers) = <<>>
  BY MappedEmpty DEF Is
<1>4. \A x : (<<x>> \o <<>>) \o <<>> = <<x>> /\ (<<>> \o <<x>>) \o <<>> = <<x>> /\ (<<>> \o <<>>) \o <<x>> = <<x>>
  <2> SUFFICES ASSUME NEW x PROVE (<<x>> \o <<>>) \o <<>> = <<x>> /\ (<<>> \o <<x>>) \o <<>> = <<x>>
                                  /\ (<<>> \o <<>>) \o <<x>> = <<x>>
    OBVIOUS
  <2>1. <<x>> \in Seq({x})
    BY OneOf
  <2>2. <<>> \o <<>> = <<>>
    OBVIOUS
  <2>3. <<x>> \o <<>> = <<x>> /\ <<>> \o <<x>> = <<x>>
    BY <2>1, ConcatEmptySeq
  <2> QED
    BY <2>2, <2>3
<1> HIDE DEF b
<1>5. CASE OfTexts(m)
  <2>1. /\ Is(Only(b, TextBlocks)) = Is(b) /\ Is(b) \in Seq(STRING) /\ Is(b) # <<>>
        /\ Message(m.role, Is(b)) \in OpenAIMessages
        /\ [j \in DOMAIN Is(b) |-> Text(Is(b)[j])] = b
    BY <1>1, <1>5, TextsThereAndBack DEF b
  <2>2. ToSet(b) \subseteq TextBlocks
    BY <1>5 DEF OfTexts, b
  <2>3. Only(b, CallBlocks) = <<>> /\ Only(b, AnswerBlocks) = <<>>
    BY <1>1, <2>2, KindsApart, BlockKinds
  <2> DEFINE x == Message(m.role, Is(b))
  <2>4. OneMessage(m) = x
    BY <1>5 DEF OneMessage, b
  <2>5. FromClaudeMessage(m) = (<<x>> \o <<>>) \o <<>>
    BY <1>2, <1>3, <2>1, <2>3
  <2>6. x.role = m.role /\ ToClaudeMessage(x) = [role |-> m.role, blocks |-> b]
    BY <1>1, <2>1, TextMessageIs, ToClaudeMessageIs
  <2>7. x \in OpenAIMessages
    BY <2>1
  <2> HIDE DEF x
  <2> QED
    BY <1>1, <1>4, <2>4, <2>5, <2>6, <2>7
<1>6. CASE OfCalls(m)
  <2>1. /\ Is(b) \in Seq(Nat \ {0}) /\ Is(b) # <<>>
        /\ [j \in DOMAIN Is(b) |-> Use(Is(b)[j])] = b
    BY <1>1, <1>6, CallsThereAndBack DEF b
  <2>2. ToSet(b) \subseteq CallBlocks /\ b # <<>>
    BY <1>6 DEF OfCalls, b
  <2>3. Only(b, CallBlocks) = b /\ Only(b, TextBlocks) = <<>> /\ Only(b, AnswerBlocks) = <<>>
    <3>1. b \in Seq(Blocks) /\ ToSet(b) \subseteq CallBlocks
          /\ CallBlocks \cap TextBlocks = {} /\ CallBlocks \cap AnswerBlocks = {}
      BY <1>1, <2>2, BlockKinds
    <3> QED
      BY ONLY <3>1, KindsApart
  <2>4. m.role = "assistant"
    BY <1>2, <2>1, <2>3
  <2> DEFINE x == CallMessage(NoText, Is(b))
  <2>5. ~OfTexts(m)
    <3>1. PICK y \in ToSet(b) : TRUE
      <4>1. b[1] \in ToSet(b)
        BY <1>1, <2>2, EmptySeq, LenProperties DEF ToSet
      <4> QED
        BY <4>1
    <3> QED
      BY <2>2, <3>1, BlockKinds DEF OfTexts, b
  <2>6. OneMessage(m) = x
    BY <1>6, <2>5 DEF OneMessage, b
  <2>7. FromClaudeMessage(m) = (<<>> \o <<x>>) \o <<>>
    BY <1>2, <1>3, <2>1, <2>3
  <2>8. x \in OpenAIMessages /\ x.role = "assistant"
    <3> DEFINE u == Is(b)
    <3>1. u \in Seq(Nat \ {0}) /\ NoText \in Seq(STRING) \cup {NoText}
      BY <2>1
    <3> HIDE DEF u
    <3>2. CallMessage(NoText, u) \in OpenAIMessages /\ CallMessage(NoText, u).role = "assistant"
      BY ONLY <3>1, CallMessageIs
    <3> QED
      BY <3>2 DEF u
  <2>9. ToClaudeMessage(x) = [role |-> "assistant", blocks |-> b]
    BY <2>1, ToClaudeMessageIs
  <2> HIDE DEF x
  <2> QED
    BY <1>1, <1>4, <2>4, <2>6, <2>7, <2>8, <2>9
<1>7. CASE ~OfTexts(m) /\ ~OfCalls(m)
  <2> DEFINE y == b[1]
  <2>1. Len(b) = 1 /\ DOMAIN b = 1..1 /\ ToSet(b) \subseteq AnswerBlocks
    BY <1>1, <1>7, LenProperties DEF OfAnswer, b
  <2>2. b = <<y>> /\ ToSet(b) = {y} /\ b # <<>>
    <3>1. ToSet(b) = {y}
      BY <2>1 DEF ToSet
    <3>2. b = <<y>>
      BY <1>1, <2>1, OneOf, SeqEqual
    <3> QED
      BY <2>1, <3>1, <3>2
  <2> HIDE DEF y
  <2>3. y \in AnswerBlocks
    BY <2>1, <2>2
  <2>4. ToSet(b) \subseteq AnswerBlocks
    BY <2>2, <2>3
  <2>5. Only(b, AnswerBlocks) = b /\ Only(b, TextBlocks) = <<>> /\ Only(b, CallBlocks) = <<>>
    BY <1>1, <2>4, KindsApart, BlockKinds
  <2>6. m.role = "user"
    BY <1>2, <2>2, <2>5
  <2>7. y = Result(y.is, y.says) /\ y.is \in Nat \ {0} /\ y.says \in STRING
    BY <2>3, BlockKinds
  <2> DEFINE x == ToolMessage(y.is, y.says)
  <2>8. OneMessage(m) = x
    BY <1>7 DEF OneMessage, b, y
  <2>9. Mapped(b, ToolAnswers) = <<x>>
    <3>1. ToolAnswers[y] = x
      BY <2>3 DEF ToolAnswers
    <3>2. Mapped(<<y>>, ToolAnswers) = <<ToolAnswers[y]>>
      BY DEF Mapped
    <3> QED
      BY <2>2, <3>1, <3>2
  <2>10. FromClaudeMessage(m) = (<<>> \o <<>>) \o <<x>>
    BY <1>2, <1>3, <2>5, <2>9
  <2>11. x \in OpenAIMessages /\ x.role = "tool"
    <3> DEFINE i == y.is
               p == y.says
    <3>1. i \in Nat \ {0} /\ p \in STRING
      BY <2>7
    <3> HIDE DEF i, p
    <3>2. ToolMessage(i, p) \in OpenAIMessages /\ ToolMessage(i, p).role = "tool"
      BY ONLY <3>1, ToolMessageIs
    <3> QED
      BY <3>2 DEF i, p
  <2>12. ToClaudeMessage(x) = [role |-> "user", blocks |-> <<y>>]
    BY <2>7, ToClaudeMessageIs
  <2> HIDE DEF x
  <2> QED
    BY <1>1, <1>4, <2>2, <2>6, <2>8, <2>10, <2>11, <2>12
<1> QED
  BY <1>5, <1>6, <1>7

LEMMA FlatOne == ASSUME NEW T, NEW s \in Seq(T) PROVE FlattenSeq(<<s>>) = s
<1> DEFINE e == <<>>
<1>1. e \in Seq(Seq(T)) /\ <<s>> = Append(e, s) /\ FlattenSeq(e) = <<>> /\ <<>> \o s = s
  BY OneOf, FlatEmpty, ConcatEmptySeq
<1> HIDE DEF e
<1>2. FlattenSeq(Append(e, s)) = FlattenSeq(e) \o s
  BY ONLY <1>1, FlatAppend
<1> QED
  BY <1>1, <1>2

OtherMessages == {m \in OpenAIMessages : m.role # "system"}
SystemMessages == {m \in OpenAIMessages : m.role = "system"}

(* What goes before a conversation can be told from it.                    *)
LEMMA OpeningApart ==
  ASSUME NEW b, b.system \in Seq(STRING) \cup {NoText}, NEW w \in Seq(OtherMessages)
  PROVE  LET ms == Opening(b) \o w IN
         /\ OthersOf(ms) = w
         /\ (LET system == FlattenSeq([i \in DOMAIN SystemsOf(ms) |-> SystemsOf(ms)[i].text])
             IN  IF system = <<>> THEN NoText ELSE system) = Prompt(b)
         /\ (IF SystemsOf(ms) = <<>> THEN NoText ELSE Last(SystemsOf(ms)).text) = Prompt(b)
<1> DEFINE f == Opening(b)
           p == Prompt(b)
           x == Message("system", p)
           Texts(ss) == FlattenSeq([i \in DOMAIN ss |-> ss[i].text])
<1>0. p = NoText \/ (p \in Seq(STRING) /\ p # <<>> /\ p # NoText)
  BY NoTextIs DEF Prompt
<1>1. p # NoText => x \in OpenAIMessages /\ x.role = "system" /\ x.text = p
  BY <1>0, TextMessageIs
<1>2. f = IF p = NoText THEN <<>> ELSE <<x>>
  BY DEF Opening
<1> HIDE DEF x, p
<1>3. f \in Seq(OpenAIMessages) /\ f \in Seq(SystemMessages)
  <2>1. p # NoText => <<x>> \in Seq(OpenAIMessages) /\ <<x>> \in Seq(SystemMessages)
    BY <1>1, OneOf DEF SystemMessages
  <2> QED
    BY <1>2, <2>1, EmptySeq
<1>4. w \in Seq(OpenAIMessages)
  BY SeqMonotonic DEF OtherMessages
<1> HIDE DEF f
<1>5. (\A m \in ToSet(f) : m \in SystemMessages) /\ (\A m \in ToSet(w) : m \in OtherMessages)
  <2>1. /\ \A i \in DOMAIN f : f[i] \in SystemMessages
        /\ \A i \in DOMAIN w : w[i] \in OtherMessages
    BY <1>3, LenProperties, ElementOfSeq
  <2> QED
    BY <2>1 DEF ToSet
<1>6. SystemMessages \cap OtherMessages = {}
  BY DEF SystemMessages, OtherMessages
<1>7. Only(f, SystemMessages) = f /\ Only(w, SystemMessages) = <<>>
      /\ Only(f, OtherMessages) = <<>> /\ Only(w, OtherMessages) = w
  <2>1. (\A m \in ToSet(f) : m \notin OtherMessages) /\ (\A m \in ToSet(w) : m \notin SystemMessages)
    BY <1>5, <1>6
  <2> QED
    BY <1>3, <1>4, <1>5, <2>1, OnlyAll, OnlyNone
<1>8. \A S : Only(f \o w, S) = Only(f, S) \o Only(w, S)
  BY <1>3, <1>4, OnlyJoined
<1>9. f \o <<>> = f /\ <<>> \o w = w
  BY <1>3, <1>4, ConcatEmptySeq
<1>10. SystemsOf(f \o w) = f /\ OthersOf(f \o w) = w
  BY <1>7, <1>8, <1>9 DEF SystemsOf, OthersOf, SystemMessages, OtherMessages
<1>11. (IF Texts(f) = <<>> THEN NoText ELSE Texts(f)) = p
  <2>1. CASE p = NoText
    <3>1. f = <<>> /\ [i \in DOMAIN f |-> f[i].text] = <<>>
      BY <1>2, <2>1
    <3> QED
      BY <2>1, <3>1, FlatEmpty
  <2>2. CASE p # NoText
    <3>1. [i \in DOMAIN <<x>> |-> <<x>>[i].text] = <<x.text>>
      OBVIOUS
    <3>2. FlattenSeq(<<p>>) = p
      BY <1>0, <2>2, FlatOne
    <3>3. Texts(f) = p
      BY <1>1, <1>2, <2>2, <3>1, <3>2
    <3> QED
      BY <1>0, <2>2, <3>3
  <2> QED
    BY <2>1, <2>2
<1>12. (IF f = <<>> THEN NoText ELSE Last(f).text) = p
  <2>1. <<x>> # <<>> /\ Last(<<x>>) = x
    BY DEF Last
  <2> QED
    BY <1>1, <1>2, <2>1
<1> QED
  BY <1>10, <1>11, <1>12 DEF f, p

(* A conversation of Claude's whose messages have one kind of block comes  *)
(* back as it was.                                                         *)
Singles == [m \in Plainly |-> OneMessage(m)]
SingleLists == [m \in Plainly |-> <<OneMessage(m)>>]

LEMMA ClaudeMessagesAre ==
  ASSUME NEW b \in Bodies, b.format = "claude", b.messages \in Seq(Plainly)
  PROVE  FromClaude(b) = Opening(b) \o Mapped(b.messages, Singles)
<1> DEFINE c == b.messages
           From(m) == IF b.plain THEN <<Message(m.role, Is(Only(m.blocks, TextBlocks)))>>
                      ELSE FromClaudeMessage(m)
<1>1. \A i \in DOMAIN c : c[i] \in Plainly /\ c[i] \in ToSet(c)
  BY LenProperties, ElementOfSeq DEF ToSet
<1>2. \A i \in DOMAIN c : From(c[i]) = <<OneMessage(c[i])>>
  <2> SUFFICES ASSUME NEW i \in DOMAIN c PROVE From(c[i]) = <<OneMessage(c[i])>>
    OBVIOUS
  <2> DEFINE m == c[i]
  <2>1. m \in Plainly /\ m \in ToSet(c)
    BY <1>1
  <2>2. CASE ~b.plain
    BY <2>1, <2>2, PlainMessage
  <2>3. CASE b.plain
    <3>1. ToSet(m.blocks) \subseteq TextBlocks
      BY <2>1, <2>3, ClaudeBodies
    <3> HIDE DEF m
    <3>2. m \in Said({"user", "assistant"}) /\ m.blocks \in Seq(Blocks) /\ m.role \in {"user", "assistant"}
          /\ (Len(m.blocks) = 1 \/ m.blocks # <<>>)
      BY <2>1, SaidIs DEF Plainly, ClaudeSaid, OfTexts, OfCalls, OfAnswer
    <3>3. m.blocks # <<>>
      <4>1. Len(<<>>) # 1
        OBVIOUS
      <4> QED
        BY <3>2, <4>1
    <3>4. OfTexts(m)
      BY <3>1, <3>3 DEF OfTexts
    <3>5. Is(Only(m.blocks, TextBlocks)) = Is(m.blocks)
      BY <3>2, <3>4, TextsThereAndBack
    <3>6. From(m) = <<Message(m.role, Is(m.blocks))>>
      BY <2>3, <3>5
    <3>7. OneMessage(m) = Message(m.role, Is(m.blocks))
      BY <3>4 DEF OneMessage
    <3> QED
      BY <3>6, <3>7 DEF m
  <2> QED
    BY <2>2, <2>3
<1>3. [i \in DOMAIN c |-> From(c[i])] = Mapped(c, SingleLists)
  <2>1. \A i \in DOMAIN c : SingleLists[c[i]] = <<OneMessage(c[i])>>
    BY <1>1 DEF SingleLists
  <2> HIDE DEF c, From
  <2> QED
    BY <1>2, <2>1 DEF Mapped
<1>4. FlattenSeq(Mapped(c, SingleLists)) = Mapped(c, Singles)
  <2> DEFINE T == Plainly
             U == OpenAIMessages
             g == SingleLists
             h == Singles
  <2>1. \A m \in Plainly : OneMessage(m) \in U /\ <<OneMessage(m)>> \in Seq(U)
    BY PlainMessage, OneOf
  <2>2. g \in [T -> Seq(U)] /\ h \in [T -> U] /\ Boxes(T, g, h) /\ c \in Seq(T)
    BY <2>1 DEF Singles, SingleLists, Boxes
  <2> HIDE DEF T, U, g, h, c
  <2>3. \A s \in Seq(T) : FlattenSeq(Mapped(s, g)) = Mapped(s, h)
    BY ONLY <2>2, FlatSingles
  <2>4. FlattenSeq(Mapped(c, g)) = Mapped(c, h)
    BY <2>2, <2>3
  <2> QED
    BY <2>4 DEF g, h
<1>5. FromClaude(b) = Opening(b) \o FlattenSeq([i \in DOMAIN c |-> From(c[i])])
  BY DEF FromClaude, Opening
<1> QED
  BY <1>3, <1>4, <1>5

LEMMA BodyIs ==
  ASSUME NEW b \in Bodies
  PROVE  b = [format |-> b.format, system |-> b.system, capped |-> b.capped, plain |-> b.plain,
              messages |-> b.messages]
BY TranslationAssumption

LEMMA ClaudeRoundTrip ==
  ASSUME NEW b \in Bodies, b.format = "claude", b.capped = TRUE,
         \A m \in ToSet(b.messages) : OfTexts(m) \/ OfCalls(m) \/ OfAnswer(m)
  PROVE  ToClaude(FromClaude(b)) = [b EXCEPT !.plain = FALSE, !.system = Prompt(b)]
<1> DEFINE c == b.messages
           w == Mapped(c, Singles)
<1>1. c \in Seq(ClaudeSaid) /\ b.system \in Seq(STRING) \cup {NoText}
  BY ClaudeBodies
<1>2. c \in Seq(Plainly)
  <2>1. ToSet(c) \subseteq Plainly
    <3>1. \A i \in DOMAIN c : c[i] \in ClaudeSaid
      BY <1>1, LenProperties, ElementOfSeq
    <3>2. \A m \in ToSet(c) : m \in ClaudeSaid
      BY <3>1 DEF ToSet
    <3> QED
      BY <3>2 DEF Plainly
  <2> QED
    BY <1>1, <2>1, InSet
<1>3. FromClaude(b) = Opening(b) \o w
  BY <1>2, ClaudeMessagesAre
<1>4. w \in Seq(OtherMessages) /\ Len(w) = Len(c) /\ \A i \in 1..Len(c) : w[i] = OneMessage(c[i])
  <2> DEFINE T == Plainly
             U == OtherMessages
             h == Singles
  <2>1. h \in [T -> U] /\ c \in Seq(T)
    BY <1>2, PlainMessage DEF Singles, OtherMessages
  <2>2. \A m \in T : h[m] = OneMessage(m)
    BY DEF Singles
  <2> HIDE DEF T, U, h, c
  <2>3. Mapped(c, h) \in Seq(U) /\ Len(Mapped(c, h)) = Len(c) /\ \A i \in 1..Len(c) : Mapped(c, h)[i] = h[c[i]]
    BY ONLY <2>1, MappedIs, MappedValues
  <2>4. \A i \in 1..Len(c) : c[i] \in T
    BY <2>1, ElementOfSeq
  <2> QED
    BY <2>2, <2>3, <2>4 DEF h, U
<1> HIDE DEF w
<1>5. [i \in DOMAIN w |-> ToClaudeMessage(w[i])] = c
  <2>1. DOMAIN w = DOMAIN c /\ DOMAIN c = 1..Len(c)
    BY <1>2, <1>4, LenProperties
  <2>2. \A i \in DOMAIN c : ToClaudeMessage(w[i]) = c[i]
    BY <1>2, <1>4, <2>1, PlainMessage, ElementOfSeq
  <2>3. [i \in DOMAIN w |-> ToClaudeMessage(w[i])] = [i \in DOMAIN c |-> c[i]]
    BY <2>1, <2>2
  <2>4. [i \in DOMAIN c |-> c[i]] = c
    BY <1>2, LenProperties
  <2> QED
    BY <2>3, <2>4
<1> DEFINE ms == Opening(b) \o w
           t == FlattenSeq([i \in DOMAIN SystemsOf(ms) |-> SystemsOf(ms)[i].text])
           p == Prompt(b)
<1>6. OthersOf(ms) = w /\ (IF t = <<>> THEN NoText ELSE t) = p
  BY <1>1, <1>4, OpeningApart
<1>7. ToClaude(ms) = [format |-> "claude", plain |-> FALSE, capped |-> TRUE, system |-> p, messages |-> c]
  <2>1. ToClaude(ms) = [format |-> "claude", plain |-> FALSE, capped |-> TRUE,
                        system |-> IF t = <<>> THEN NoText ELSE t,
                        messages |-> [i \in DOMAIN OthersOf(ms) |-> ToClaudeMessage(OthersOf(ms)[i])]]
    BY DEF ToClaude
  <2>2. [i \in DOMAIN OthersOf(ms) |-> ToClaudeMessage(OthersOf(ms)[i])] = c
    <3> HIDE DEF ms, c
    <3> QED
      BY <1>5, <1>6
  <2> HIDE DEF t, ms, c, p
  <2> QED
    BY <1>6, <2>1, <2>2
<1> HIDE DEF ms, c, t, p
<1>8. [b EXCEPT !.plain = FALSE, !.system = p]
        = [format |-> "claude", plain |-> FALSE, capped |-> TRUE, system |-> p, messages |-> c]
  <2> DEFINE y == b.system
             l == b.plain
             no == FALSE
             yes == TRUE
             r == [format |-> "claude", system |-> y, capped |-> yes, plain |-> l, messages |-> c]
             q == [format |-> "claude", system |-> y, capped |-> yes, plain |-> no, messages |-> c]
  <2>1. b = r
    BY BodyIs DEF c
  <2> HIDE DEF y, l, no, yes
  <2>2. [r EXCEPT !.plain = no] = q
    OBVIOUS
  <2>3. [q EXCEPT !.system = p] = [format |-> "claude", plain |-> no, capped |-> yes, system |-> p, messages |-> c]
    OBVIOUS
  <2>4. [r EXCEPT !.plain = no, !.system = p] = [[r EXCEPT !.plain = no] EXCEPT !.system = p]
    OBVIOUS
  <2> HIDE DEF r, q
  <2> QED
    BY <2>1, <2>2, <2>3, <2>4 DEF no, yes
<1> QED
  BY <1>3, <1>7, <1>8 DEF ms, p

(* Gemini's messages, and those with texts alone.                          *)
GeminiSaid == Said({"user", "model"})
GeminiTexts == {m \in GeminiSaid : OfTexts(m)}
RoleOf(m) == IF m.role = "model" THEN "assistant" ELSE "user"
FromModel == [m \in GeminiTexts |-> Message(RoleOf(m), Is(m.blocks))]
FromModelLists == [m \in GeminiTexts |-> <<Message(RoleOf(m), Is(m.blocks))>>]
GeminiLists == [m \in GeminiSaid |-> FromGeminiMessage(m)]
PlainLists == [m \in ClaudeSaid |-> <<Message(m.role, Is(Only(m.blocks, TextBlocks)))>>]

LEMMA GeminiBodies ==
  ASSUME NEW b \in Bodies, b.format \in {"gemini", "vertex"}
  PROVE  b.messages \in Seq(GeminiSaid) /\ b.system \in Seq(STRING) \cup {NoText} /\ b.capped = FALSE
BY TranslationAssumption DEF GeminiSaid

(* The texts of a message. *)
LEMMA TextsOf ==
  ASSUME NEW b \in Seq(Blocks)
  PROVE  Is(Only(b, TextBlocks)) \in Seq(STRING)
<1> DEFINE t == Only(b, TextBlocks)
<1>1. t \in Seq(TextBlocks)
  BY OnlyOf
<1> HIDE DEF t
<1>2. Is(t) = Mapped(t, Pieces) /\ Pieces \in [TextBlocks -> STRING]
  BY <1>1, IdsType
<1>3. Mapped(t, Pieces) \in Seq(STRING)
  BY <1>1, <1>2, MappedIs
<1> QED
  BY <1>2, <1>3 DEF t

(* A list of messages of OpenAI's, from what each message becomes.         *)
LEMMA ListsOfMessages ==
  ASSUME NEW T, NEW s \in Seq(T), NEW g, \A x \in T : g[x] \in Seq(OpenAIMessages),
         NEW b, b.system \in Seq(STRING) \cup {NoText}
  PROVE  Opening(b) \o FlattenSeq(Mapped(s, g)) \in Seq(OpenAIMessages)
<1>1. Mapped(s, g) \in Seq(Seq(OpenAIMessages))
  BY MappedIs
<1>2. FlattenSeq(Mapped(s, g)) \in Seq(OpenAIMessages)
  BY <1>1, FlatType
<1>3. Opening(b) \in Seq(OpenAIMessages)
  BY OpeningIs
<1> QED
  BY <1>2, <1>3, ConcatProperties

LEMMA FromGeminiType ==
  ASSUME NEW b \in Bodies, b.format \in {"gemini", "vertex"}
  PROVE  FromGemini(b) \in Seq(OpenAIMessages)
<1> DEFINE c == b.messages
<1>1. c \in Seq(GeminiSaid) /\ b.system \in Seq(STRING) \cup {NoText} /\ b.capped = FALSE
  BY GeminiBodies
<1>2. \A m \in GeminiSaid : GeminiLists[m] \in Seq(OpenAIMessages)
  <2> SUFFICES ASSUME NEW m \in GeminiSaid PROVE FromGeminiMessage(m) \in Seq(OpenAIMessages)
    BY DEF GeminiLists
  <2> DEFINE t == Is(Only(m.blocks, TextBlocks))
             x == Message(RoleOf(m), t)
  <2>1. t \in Seq(STRING)
    BY SaidIs, TextsOf DEF GeminiSaid
  <2>2. x \in OpenAIMessages
    BY <2>1, TextMessageIs DEF RoleOf
  <2>3. FromGeminiMessage(m) = IF t = <<>> THEN <<>> ELSE <<x>>
    BY DEF FromGeminiMessage, RoleOf
  <2> HIDE DEF t, x
  <2>4. <<x>> \in Seq(OpenAIMessages) /\ <<>> \in Seq(OpenAIMessages)
    BY <2>2, OneOf
  <2> QED
    BY <2>3, <2>4
<1>3. [i \in DOMAIN c |-> FromGeminiMessage(c[i])] = Mapped(c, GeminiLists)
  <2>1. \A i \in DOMAIN c : c[i] \in GeminiSaid
    BY <1>1, LenProperties, ElementOfSeq
  <2>2. \A i \in DOMAIN c : GeminiLists[c[i]] = FromGeminiMessage(c[i])
    BY <2>1 DEF GeminiLists
  <2> QED
    BY <2>2 DEF Mapped
<1>4. FromGemini(b) = Opening(b) \o FlattenSeq(Mapped(c, GeminiLists))
  BY <1>3 DEF FromGemini, Opening
<1> HIDE DEF c
<1> QED
  BY <1>1, <1>2, <1>4, ListsOfMessages

LEMMA FromClaudeType ==
  ASSUME NEW b \in Bodies, b.format = "claude"
  PROVE  FromClaude(b) \in Seq(OpenAIMessages)
<1>1. CASE ~b.plain
  BY <1>1, CallsOfClaude
<1>2. CASE b.plain
  <2> DEFINE c == b.messages
  <2>1. c \in Seq(ClaudeSaid) /\ b.system \in Seq(STRING) \cup {NoText}
    BY ClaudeBodies
  <2>2. \A m \in ClaudeSaid : PlainLists[m] \in Seq(OpenAIMessages)
    <3> SUFFICES ASSUME NEW m \in ClaudeSaid
                 PROVE  <<Message(m.role, Is(Only(m.blocks, TextBlocks)))>> \in Seq(OpenAIMessages)
      BY DEF PlainLists
    <3> DEFINE t == Is(Only(m.blocks, TextBlocks))
               x == Message(m.role, t)
    <3>1. t \in Seq(STRING) /\ m.role \in {"user", "assistant"}
      BY SaidIs, TextsOf DEF ClaudeSaid
    <3> HIDE DEF t
    <3>2. x \in OpenAIMessages
      BY <3>1, TextMessageIs
    <3> HIDE DEF x
    <3>3. <<x>> \in Seq(OpenAIMessages)
      BY <3>2, OneOf
    <3> QED
      BY <3>3 DEF x, t
  <2>3. [i \in DOMAIN c |-> <<Message(c[i].role, Is(Only(c[i].blocks, TextBlocks)))>>] = Mapped(c, PlainLists)
    <3>1. \A i \in DOMAIN c : c[i] \in ClaudeSaid
      BY <2>1, LenProperties, ElementOfSeq
    <3>2. \A i \in DOMAIN c : PlainLists[c[i]] = <<Message(c[i].role, Is(Only(c[i].blocks, TextBlocks)))>>
      BY <3>1 DEF PlainLists
    <3> QED
      BY <3>2 DEF Mapped
  <2>4. FromClaude(b) = Opening(b) \o FlattenSeq(Mapped(c, PlainLists))
    BY <1>2, <2>3 DEF FromClaude, Opening
  <2> HIDE DEF c
  <2> QED
    BY <2>1, <2>2, <2>4, ListsOfMessages
<1> QED
  BY <1>1, <1>2, ClaudeBodies

LEMMA GeminiTextIs ==
  ASSUME NEW m \in GeminiTexts
  PROVE  /\ FromGeminiMessage(m) = <<FromModel[m]>> /\ FromModel[m] \in OtherMessages
         /\ FromModel[m] = [role |-> RoleOf(m), text |-> Is(m.blocks), calls |-> <<>>, of |-> 0]
         /\ [role |-> IF FromModel[m].role = "assistant" THEN "model" ELSE "user",
             blocks |-> [j \in DOMAIN FromModel[m].text |-> Text(FromModel[m].text[j])]] = m
<1> DEFINE t == Is(m.blocks)
<1>1. m \in Said({"user", "model"}) /\ OfTexts(m) /\ m.role \in {"user", "model"}
      /\ m = [role |-> m.role, blocks |-> m.blocks]
  BY SaidIs DEF GeminiTexts, GeminiSaid
<1>2. RoleOf(m) \in {"user", "assistant"}
  BY DEF RoleOf
<1>3. /\ Is(Only(m.blocks, TextBlocks)) = t /\ t \in Seq(STRING) /\ t # <<>>
      /\ [j \in DOMAIN t |-> Text(t[j])] = m.blocks
  BY <1>1, <1>2, TextsThereAndBack
<1> HIDE DEF t
<1>4. Message(RoleOf(m), t) \in OpenAIMessages
      /\ Message(RoleOf(m), t) = [role |-> RoleOf(m), text |-> t, calls |-> <<>>, of |-> 0]
  BY <1>2, <1>3, TextMessageIs
<1>5. FromModel[m] = Message(RoleOf(m), t)
  BY DEF FromModel, t
<1>6. FromGeminiMessage(m) = <<Message(RoleOf(m), t)>>
  BY <1>3 DEF FromGeminiMessage, RoleOf
<1>7. FromModel[m] \in OtherMessages
  BY <1>2, <1>4, <1>5 DEF OtherMessages
<1>8. (IF RoleOf(m) = "assistant" THEN "model" ELSE "user") = m.role
  BY <1>1 DEF RoleOf
<1> QED
  BY <1>1, <1>3, <1>4, <1>5, <1>6, <1>7, <1>8 DEF t

(* A conversation of Gemini's of texts alone comes back as it was.         *)
LEMMA GeminiRoundTrip ==
  ASSUME NEW b \in Bodies, b.format \in {"gemini", "vertex"},
         \A m \in ToSet(b.messages) : OfTexts(m)
  PROVE  ToGemini(FromGemini(b)) = [b EXCEPT !.plain = FALSE, !.system = Prompt(b), !.format = "gemini"]
<1> DEFINE c == b.messages
           w == Mapped(c, FromModel)
<1>1. c \in Seq(GeminiSaid) /\ b.system \in Seq(STRING) \cup {NoText} /\ b.capped = FALSE
  BY GeminiBodies
<1>2. c \in Seq(GeminiTexts)
  <2>1. ToSet(c) \subseteq GeminiTexts
    <3>1. \A i \in DOMAIN c : c[i] \in GeminiSaid
      BY <1>1, LenProperties, ElementOfSeq
    <3>2. \A m \in ToSet(c) : m \in GeminiSaid
      BY <3>1 DEF ToSet
    <3> QED
      BY <3>2 DEF GeminiTexts
  <2> QED
    BY <1>1, <2>1, InSet
<1>3. DOMAIN c = 1..Len(c) /\ \A i \in 1..Len(c) : c[i] \in GeminiTexts
  BY <1>2, LenProperties, ElementOfSeq
<1>4. FromGemini(b) = Opening(b) \o w
  <2>1. [i \in DOMAIN c |-> FromGeminiMessage(c[i])] = Mapped(c, FromModelLists)
    <3>1. \A i \in DOMAIN c : FromModelLists[c[i]] = FromGeminiMessage(c[i])
      BY <1>3, GeminiTextIs DEF FromModelLists, FromModel
    <3> QED
      BY <3>1 DEF Mapped
  <2>2. Boxes(GeminiTexts, FromModelLists, FromModel)
    BY DEF Boxes, FromModelLists, FromModel
  <2>3. FlattenSeq(Mapped(c, FromModelLists)) = w
    BY <1>2, <2>2, FlatSingles
  <2> QED
    BY <2>1, <2>3 DEF FromGemini, Opening
<1>5. w \in Seq(OtherMessages) /\ Len(w) = Len(c) /\ \A i \in 1..Len(c) : w[i] = FromModel[c[i]]
  <2>1. \A m \in GeminiTexts : FromModel[m] \in OtherMessages
    BY GeminiTextIs
  <2> HIDE DEF c
  <2>2. w \in Seq(OtherMessages)
    BY <1>2, <2>1, MappedIs
  <2> QED
    BY <1>2, <2>2, MappedValues
<1> HIDE DEF w
<1> DEFINE Back(o) == [role |-> IF o.role = "assistant" THEN "model" ELSE "user",
                       blocks |-> [j \in DOMAIN o.text |-> Text(o.text[j])]]
<1>6. [i \in DOMAIN w |-> Back(w[i])] = c
  <2>1. DOMAIN w = DOMAIN c
    BY <1>3, <1>5, LenProperties
  <2>2. \A m \in GeminiTexts : Back(FromModel[m]) = m
    BY GeminiTextIs
  <2> HIDE DEF Back
  <2>3. \A i \in DOMAIN c : Back(w[i]) = c[i]
    <3> SUFFICES ASSUME NEW i \in DOMAIN c PROVE Back(w[i]) = c[i]
      OBVIOUS
    <3>1. c[i] \in GeminiTexts /\ w[i] = FromModel[c[i]]
      BY <1>3, <1>5
    <3> HIDE DEF c
    <3> QED
      BY ONLY <2>2, <3>1
  <2>4. [i \in DOMAIN w |-> Back(w[i])] = [i \in DOMAIN c |-> c[i]]
    BY <2>1, <2>3
  <2>5. [i \in DOMAIN c |-> c[i]] = c
    BY <1>2, LenProperties
  <2> QED
    BY <2>4, <2>5
<1> DEFINE ms == Opening(b) \o w
<1> DEFINE p == Prompt(b)
<1>7. /\ OthersOf(ms) = w
      /\ (IF SystemsOf(ms) = <<>> THEN NoText ELSE Last(SystemsOf(ms)).text) = p
  BY <1>1, <1>5, OpeningApart
<1> HIDE DEF ms, c, p
<1>8. ToGemini(ms) = [format |-> "gemini", plain |-> FALSE, capped |-> FALSE, system |-> p, messages |-> c]
  BY <1>6, <1>7 DEF ToGemini
<1>9. [b EXCEPT !.plain = FALSE, !.system = p, !.format = "gemini"] =
        [format |-> "gemini", plain |-> FALSE, capped |-> FALSE, system |-> p, messages |-> c]
  <2> DEFINE f == b.format
             y == b.system
             l == b.plain
             no == FALSE
             to == "gemini"
             r == [format |-> f, system |-> y, capped |-> no, plain |-> l, messages |-> c]
             q == [format |-> f, system |-> y, capped |-> no, plain |-> no, messages |-> c]
             o == [format |-> f, system |-> p, capped |-> no, plain |-> no, messages |-> c]
  <2>1. b = r
    BY <1>1, BodyIs DEF c
  <2> HIDE DEF f, y, l, no, to
  <2>2. [r EXCEPT !.plain = no] = q
    OBVIOUS
  <2>3. [q EXCEPT !.system = p] = o
    OBVIOUS
  <2>4. [o EXCEPT !.format = to] = [format |-> to, plain |-> no, capped |-> no, system |-> p, messages |-> c]
    OBVIOUS
  <2>5. [r EXCEPT !.plain = no, !.system = p, !.format = to] =
          [[[r EXCEPT !.plain = no] EXCEPT !.system = p] EXCEPT !.format = to]
    OBVIOUS
  <2> HIDE DEF r, q, o
  <2> QED
    BY <2>1, <2>2, <2>3, <2>4, <2>5 DEF no, to
<1> QED
  BY <1>4, <1>8, <1>9 DEF ms, p

(* Tools of the six types come back from Gemini's format as they were.     *)
LEMMA TypesThereAndBack ==
  ASSUME NEW t, \E y \in TypePairs : y[1] = t
  PROVE  JsonType(GeminiType(t)) = t
<1>1. \A x, y \in TypePairs : x[1] = y[1] \/ x[2] = y[2] => x = y
  BY DEF TypePairs
<1>2. PICK x \in TypePairs : x[1] = t
  OBVIOUS
<1>3. GeminiType(t) = x[2]
  BY <1>1, <1>2 DEF GeminiType
<1>4. JsonType(x[2]) = x[1]
  BY <1>1, <1>2 DEF JsonType
<1> QED
  BY <1>2, <1>3, <1>4

LEMMA ToolsThereAndBack ==
  ASSUME NEW ts \in Seq(Tools)
  PROVE  LET functions == Only(ts, Functions) IN
         /\ Len(Declared(ts)) <= 1
         /\ (\A i \in DOMAIN functions : \A j \in DOMAIN functions[i].schema :
               \E y \in TypePairs : y[1] = functions[i].schema[j])
              => Restored(Declared(ts)) = functions
<1> DEFINE f == Only(ts, Functions)
<1>1. f \in Seq(Functions)
  BY OnlyOf
<1> HIDE DEF f
<1> DEFINE n == Len(f)
           d == [i \in DOMAIN f |-> [name |-> f[i].name, schema |-> SchemaToGemini(f[i].schema)]]
           R == [name : STRING, schema : {SchemaToGemini(f[i].schema) : i \in 1..n}]
<1>2. n \in Nat /\ DOMAIN f = 1..n /\ \A i \in 1..n : f[i] \in Functions
  BY <1>1, LenProperties, ElementOfSeq
<1>3. \A i \in 1..n : f[i] = [type |-> "function", name |-> f[i].name, schema |-> f[i].schema]
                      /\ f[i].name \in STRING /\ f[i].schema \in Seq(STRING)
  BY <1>2 DEF Functions, Tools
<1>4. CASE f = <<>>
  <2>1. Declared(ts) = <<>>
    BY <1>4 DEF Declared, f
  <2>2. [k \in DOMAIN <<>> |->
          [i \in DOMAIN <<>>[k] |->
             [type |-> "function", name |-> <<>>[k][i].name, schema |-> SchemaToOpenAI(<<>>[k][i].schema)]]] = <<>>
    OBVIOUS
  <2>3. Restored(<<>>) = <<>>
    BY <2>2, FlatEmpty DEF Restored
  <2>4. Len(<<>>) <= 1
    OBVIOUS
  <2> QED
    BY <1>4, <2>1, <2>3, <2>4 DEF f
<1>5. CASE f # <<>>
  <2>1. Declared(ts) = <<d>>
    BY <1>5 DEF Declared, f
  <2>2. Len(<<d>>) <= 1
    OBVIOUS
  <2> SUFFICES ASSUME \A i \in DOMAIN f : \A j \in DOMAIN f[i].schema :
                        \E y \in TypePairs : y[1] = f[i].schema[j]
               PROVE  Restored(<<d>>) = f
    BY <2>1, <2>2 DEF f
  <2> DEFINE One(e) == [i \in DOMAIN e |->
               [type |-> "function", name |-> e[i].name, schema |-> SchemaToOpenAI(e[i].schema)]]
  <2>3. Restored(<<d>>) = FlattenSeq(<<One(d)>>)
    <3> HIDE DEF d
    <3>1. [k \in DOMAIN <<d>> |-> One(<<d>>[k])] = <<One(d)>>
      <4> HIDE DEF One
      <4> QED
        OBVIOUS
    <3>2. Restored(<<d>>) = FlattenSeq([k \in DOMAIN <<d>> |-> One(<<d>>[k])])
      BY DEF Restored
    <3> QED
      BY <3>1, <3>2
  <2>4. One(d) = f
    <3>1. DOMAIN d = DOMAIN f /\ \A i \in DOMAIN f :
            d[i] = [name |-> f[i].name, schema |-> SchemaToGemini(f[i].schema)]
      OBVIOUS
    <3> HIDE DEF d, n
    <3>2. ASSUME NEW i \in DOMAIN f
          PROVE  [type |-> "function", name |-> d[i].name, schema |-> SchemaToOpenAI(d[i].schema)] = f[i]
      <4> DEFINE s == f[i].schema
      <4>1. d[i].name = f[i].name /\ d[i].schema = SchemaToGemini(s)
        BY <3>1
      <4>2. s \in Seq(STRING) /\ f[i] = [type |-> "function", name |-> f[i].name, schema |-> s]
        BY <1>2, <1>3
      <4>3. \A j \in DOMAIN s : \E y \in TypePairs : y[1] = s[j]
        OBVIOUS
      <4> HIDE DEF s
      <4>4. SchemaToOpenAI(SchemaToGemini(s)) = s
        <5>1. SchemaToOpenAI(SchemaToGemini(s)) = [j \in DOMAIN s |-> JsonType(GeminiType(s[j]))]
          BY DEF SchemaToOpenAI, SchemaToGemini
        <5>2. \A j \in DOMAIN s : JsonType(GeminiType(s[j])) = s[j]
          BY <4>3, TypesThereAndBack
        <5>3. [j \in DOMAIN s |-> JsonType(GeminiType(s[j]))] = [j \in DOMAIN s |-> s[j]]
          BY <5>2
        <5>4. [j \in DOMAIN s |-> s[j]] = s
          BY <4>2, LenProperties
        <5> QED
          BY <5>1, <5>3, <5>4
      <4> QED
        BY <4>1, <4>2, <4>4
    <3>3. One(d) = [i \in DOMAIN f |-> f[i]]
      BY <3>1, <3>2
    <3>4. [i \in DOMAIN f |-> f[i]] = f
      BY <1>1, LenProperties
    <3> QED
      BY <3>3, <3>4
  <2>5. FlattenSeq(<<f>>) = f
    BY <1>1, FlatOne
  <2> HIDE DEF d, One
  <2> QED
    BY <2>3, <2>4, <2>5
<1> QED
  BY <1>4, <1>5

(* What has been translated is the request's translation, and an accepted  *)
(* request has the shape that was asked for.                               *)
TranslationInv ==
  /\ body \in Bodies
  /\ \/ status \in {"new", Refused} /\ asOpenAI = <<>>
     \/ status \in {"accepted", "translated"} /\ asOpenAI = Translated(body)
  /\ status = "accepted" => WellFormed(body)

LEMMA TranslationInvHolds == TranslationSpec => []TranslationInv
<1>1. TranslationInit => TranslationInv
  BY DEF TranslationInit, TranslationInv
<1>2. TranslationInv /\ [TranslationNext]_translationVars => TranslationInv'
  <2> SUFFICES ASSUME TranslationInv, [TranslationNext]_translationVars PROVE TranslationInv'
    OBVIOUS
  <2>1. CASE UNCHANGED translationVars
    BY <2>1 DEF TranslationInv, translationVars
  <2>2. ASSUME NEW checked \in BOOLEAN, Receive(checked) PROVE TranslationInv'
    <3>1. body' = body /\ body \in Bodies /\ status = "new" /\ asOpenAI = <<>>
      BY <2>2 DEF Receive, TranslationInv, Refused
    <3>2. CASE checked /\ ~WellFormed(body)
      BY <2>2, <3>1, <3>2 DEF Receive, TranslationInv, Refused
    <3>3. CASE ~(checked /\ ~WellFormed(body))
      <4> DEFINE fits == WellFormed(body)
                 now == Translated(body)
      <4>1. WellFormed(body)' = fits /\ Translated(body)' = now
        BY <3>1
      <4>2. status' = (IF checked THEN "accepted" ELSE "translated") /\ asOpenAI' = now
            /\ (checked => fits)
        BY <2>2, <3>3 DEF Receive
      <4> HIDE DEF fits, now
      <4> QED
        BY <3>1, <4>1, <4>2 DEF TranslationInv
    <3> QED
      BY <3>2, <3>3
  <2> QED
    BY <2>1, <2>2 DEF TranslationNext
<1> QED
  BY <1>1, <1>2, PTL DEF TranslationSpec

(* Where a request is not OpenAI's, what translates it.                    *)
LEMMA TranslatedIs ==
  ASSUME NEW b \in Bodies
  PROVE  \/ Detected(b) = "openai"
         \/ /\ Detected(b) = "claude" /\ b.format = "claude" /\ b.capped = TRUE
            /\ Translated(b) = FromClaude(b)
         \/ /\ Detected(b) \notin {"openai", "claude"} /\ b.format \in {"gemini", "vertex"}
            /\ Translated(b) = FromGemini(b)
<1>1. b.format \in {"openai", "claude", "gemini", "vertex"} /\ b.capped \in BOOLEAN
  BY TranslationAssumption
<1> DEFINE d == Detected(b)
           c == FromClaude(b)
           g == FromGemini(b)
<1>2. d = IF b.format = "claude" /\ (b.system = NoText \/ ~b.capped) THEN "openai" ELSE b.format
  BY DEF Detected
<1>3. (d = "claude" => Translated(b) = c) /\ (d \in {"gemini", "vertex"} => Translated(b) = g)
  <2>1. Translated(b) = CASE d = "openai" -> b.messages [] d = "claude" -> c
                          [] d \in {"gemini", "vertex"} -> g
    BY DEF Translated
  <2> HIDE DEF d, c, g
  <2> QED
    BY <2>1
<1> HIDE DEF d, c, g
<1>4. \/ d = "openai"
      \/ d = "claude" /\ b.format = "claude" /\ b.capped = TRUE
      \/ d \in {"gemini", "vertex"} /\ b.format \in {"gemini", "vertex"}
  BY <1>1, <1>2
<1> QED
  BY <1>3, <1>4 DEF d, c, g

LEMMA CallsKept == TranslationInv => CallsAreKept
<1> SUFFICES ASSUME TranslationInv, Translates, Detected(body) = "claude", ~body.plain
             PROVE  /\ CallsOf(asOpenAI) = OfKind(Contents(body), CallBlocks)
                    /\ AnswersOf(asOpenAI) = OfKind(Contents(body), AnswerBlocks)
  BY DEF CallsAreKept
<1>1. body \in Bodies /\ asOpenAI = Translated(body)
  BY DEF TranslationInv, Translates, Refused
<1>2. body.format = "claude" /\ asOpenAI = FromClaude(body)
  BY <1>1, TranslatedIs
<1> QED
  BY <1>1, <1>2, CallsOfClaude

LEMMA RoundTrips == TranslationInv => RoundTrip
<1> SUFFICES ASSUME TranslationInv, Translates, Detected(body) # "openai"
             PROVE  RoundTrip
  BY DEF RoundTrip
<1>1. body \in Bodies /\ asOpenAI = Translated(body)
  BY DEF TranslationInv, Translates, Refused
<1> DEFINE same == [body EXCEPT !.plain = FALSE, !.system = Prompt(body)]
<1>2. CASE Detected(body) = "claude"
  <2>1. body.format = "claude" /\ body.capped = TRUE /\ asOpenAI = FromClaude(body)
    BY <1>1, <1>2, TranslatedIs
  <2>2. (\A m \in ToSet(body.messages) : OfTexts(m) \/ OfCalls(m) \/ OfAnswer(m))
          => ToClaude(asOpenAI) = same
    BY <1>1, <2>1, ClaudeRoundTrip
  <2> HIDE DEF same
  <2> QED
    BY <1>2, <2>2 DEF RoundTrip, OfTexts, OfCalls, OfAnswer, same
<1>3. CASE Detected(body) # "claude"
  <2>1. body.format \in {"gemini", "vertex"} /\ asOpenAI = FromGemini(body)
    BY <1>1, <1>3, TranslatedIs
  <2>2. (\A m \in ToSet(body.messages) : OfTexts(m))
          => ToGemini(asOpenAI) = [same EXCEPT !.format = "gemini"]
    <3>1. [body EXCEPT !.plain = FALSE, !.system = Prompt(body), !.format = "gemini"]
            = [same EXCEPT !.format = "gemini"]
      OBVIOUS
    <3> QED
      BY <1>1, <2>1, <3>1, GeminiRoundTrip
  <2> HIDE DEF same
  <2> QED
    BY <1>3, <2>2 DEF RoundTrip, OfTexts, same
<1> QED
  BY <1>2, <1>3

(* Functions come back from Claude's format as they were.                  *)
LEMMA ToolsOfClaude ==
  ASSUME NEW ts \in Seq(Tools)
  PROVE  FromClaudeTools(ToClaudeTools(ts)) = Only(ts, Functions)
<1> DEFINE f == Only(ts, Functions)
           c == ToClaudeTools(ts)
<1>1. f \in Seq(Functions)
  BY OnlyOf
<1>2. c = [i \in DOMAIN f |-> [f[i] EXCEPT !.type = NoText]]
  BY DEF ToClaudeTools
<1> HIDE DEF f, c
<1>3. Len(f) \in Nat /\ DOMAIN f = 1..Len(f) /\ \A i \in 1..Len(f) : f[i] \in Functions
  BY <1>1, LenProperties, ElementOfSeq
<1>4. \A i \in 1..Len(f) :
        /\ f[i] = [type |-> "function", name |-> f[i].name, schema |-> f[i].schema]
        /\ f[i].name \in STRING /\ f[i].schema \in Seq(STRING)
  BY <1>3 DEF Functions, Tools
<1>5. \A i \in 1..Len(f) : c[i] = [type |-> NoText, name |-> f[i].name, schema |-> f[i].schema]
  BY <1>2, <1>3, <1>4
<1>0. ASSUME NEW i \in 1..Len(f)
      PROVE  /\ c[i] \in ClaudeTools
             /\ [type |-> "function", name |-> IF c[i].name = NoText THEN "" ELSE c[i].name,
                 schema |-> c[i].schema] = f[i]
  <2> DEFINE n == f[i].name
             s == f[i].schema
             t == c[i]
             g == f[i]
  <2>1. n \in STRING /\ s \in Seq(STRING)
    BY <1>4
  <2>2. g = [type |-> "function", name |-> n, schema |-> s]
    BY <1>4
  <2>3. t = [type |-> NoText, name |-> n, schema |-> s]
    BY <1>5
  <2> HIDE DEF n, s, t, g
  <2>4. n # NoText /\ t.name = n /\ t.schema = s
    BY <2>1, <2>3, TranslationAssumption
  <2>5. t \in ClaudeTools
    <3> DEFINE S == Seq(STRING)
    <3>1. s \in S
      BY <2>1
    <3> HIDE DEF S
    <3>2. t \in [type : STRING \cup {NoText}, name : STRING \cup {NoText}, schema : S]
      BY <2>1, <2>3, <3>1
    <3>3. t \in [type : STRING \cup {NoText}, name : STRING \cup {NoText}, schema : Seq(STRING)]
      BY <3>2 DEF S
    <3> QED
      BY <2>4, <3>3 DEF ClaudeTools
  <2>6. [type |-> "function", name |-> IF t.name = NoText THEN "" ELSE t.name, schema |-> t.schema] = g
    BY <2>2, <2>4
  <2> QED
    BY <2>5, <2>6 DEF t, g
<1>6. \A i \in 1..Len(f) : c[i] \in ClaudeTools
  BY <1>0
<1>7. DOMAIN c = 1..Len(f)
  BY <1>2, <1>3
<1>8. c \in Seq(ClaudeTools)
  <2>1. c \in [1..Len(f) -> ClaudeTools]
    BY <1>2, <1>3, <1>6
  <2> QED
    BY <1>3, <2>1, SeqDef
<1>9. Only(c, ClaudeTools) = c
  <2>1. \A x \in ToSet(c) : x \in ClaudeTools
    BY <1>6, <1>7 DEF ToSet
  <2> QED
    BY <1>8, <2>1, OnlyAll
<1>10. FromClaudeTools(c) =
         [i \in 1..Len(f) |->
            [type |-> "function", name |-> IF c[i].name = NoText THEN "" ELSE c[i].name, schema |-> c[i].schema]]
  BY <1>7, <1>9 DEF FromClaudeTools
<1>11. \A i \in 1..Len(f) :
         [type |-> "function", name |-> IF c[i].name = NoText THEN "" ELSE c[i].name, schema |-> c[i].schema] = f[i]
  BY <1>0
<1>12. FromClaudeTools(c) = [i \in 1..Len(f) |-> f[i]]
  BY <1>10, <1>11
<1>13. [i \in 1..Len(f) |-> f[i]] = f
  BY <1>1, <1>3, LenProperties
<1> QED
  BY <1>12, <1>13 DEF f, c

(* What has become of the tools is what the handler makes of them.         *)
ToolsInv ==
  /\ tools \in Toolsets
  /\ declared # NoText =>
       \E gemini \in BOOLEAN :
         declared = [gemini |-> gemini, tools |-> IF gemini THEN Declared(tools) ELSE tools]

LEMMA ToolsInvHolds == ToolsSpec => []ToolsInv
<1>1. ToolsInit => ToolsInv
  BY DEF ToolsInit, ToolsInv
<1>2. ToolsInv /\ [ToolsNext]_toolVars => ToolsInv'
  <2> SUFFICES ASSUME ToolsInv, [ToolsNext]_toolVars PROVE ToolsInv'
    OBVIOUS
  <2>1. CASE UNCHANGED toolVars
    <3>1. Declared(tools)' = Declared(tools) /\ tools' = tools /\ declared' = declared
      BY <2>1 DEF toolVars
    <3> QED
      BY <3>1 DEF ToolsInv
  <2>2. ASSUME NEW gemini \in BOOLEAN, Prepare(gemini) PROVE ToolsInv'
    <3>1. Declared(tools)' = Declared(tools) /\ tools' = tools
      BY <2>2 DEF Prepare
    <3>2. declared' = [gemini |-> gemini, tools |-> IF gemini THEN Declared(tools) ELSE tools]
      BY <2>2 DEF Prepare
    <3> QED
      BY <3>1, <3>2 DEF ToolsInv
  <2> QED
    BY <2>1, <2>2 DEF ToolsNext
<1> QED
  BY <1>1, <1>2, PTL DEF ToolsSpec

LEMMA ToolsRoundTrips == ToolsInv => ToolsRoundTrip
<1> SUFFICES ASSUME ToolsInv PROVE ToolsRoundTrip
  OBVIOUS
<1>1. tools \in Seq(Tools)
  BY TranslationAssumption DEF ToolsInv
<1>2. ASSUME declared # NoText, declared.gemini PROVE declared.tools = Declared(tools)
  <2>1. PICK gemini \in BOOLEAN :
          declared = [gemini |-> gemini, tools |-> IF gemini THEN Declared(tools) ELSE tools]
    BY <1>2 DEF ToolsInv
  <2>2. gemini
    BY <1>2, <2>1
  <2> QED
    BY <2>1, <2>2
<1>3. FromClaudeTools(ToClaudeTools(tools)) = Only(tools, Functions)
  BY <1>1, ToolsOfClaude
<1> QED
  BY <1>1, <1>2, <1>3, ToolsThereAndBack DEF ToolsRoundTrip

(* The formats agree: whatever the requests and the tools are, the calls   *)
(* and answers of Claude's blocks come into OpenAI's format complete and in *)
(* their order, a conversation that one message of OpenAI's can say comes  *)
(* back as it was but for a prompt without text, and so do functions from  *)
(* Claude's format, and from Gemini's where their types are those both     *)
(* know (format_translator.py, tool_call_translator.py).                   *)
THEOREM AgreedFormats == TranslationSpec /\ ToolsSpec => []FormatsAgree
<1>1. TranslationInv /\ ToolsInv => FormatsAgree
  BY CallsKept, RoundTrips, ToolsRoundTrips DEF FormatsAgree
<1> QED
  BY <1>1, TranslationInvHolds, ToolsInvHolds, PTL

-----------------------------------------------------------------------------
(***************************************************************************)
(* Who speaks in what is sent: the roles of the conversation or the system, *)
(* and nobody twice in a row.                                              *)
(***************************************************************************)
Roled(s, Q) == \A m \in ToSet(s) : m.role \in Q
Apart(s) == \A i \in 2..Len(s) : ~Alike(s[i - 1], s[i])

(* The system's messages stand in front. *)
Fronted(s) == \A i \in 2..Len(s) : s[i].role # "system"

LEMMA NothingSaid == \A Q : Roled(<<>>, Q) /\ Apart(<<>>) /\ Fronted(<<>>)
<1>1. ToSet(<<>>) = {} /\ 2..Len(<<>>) = {}
  BY ToSetEmpty
<1> QED
  BY <1>1 DEF Roled, Apart, Fronted

LEMMA SaidNext ==
  ASSUME NEW s \in Seq(Sendable), NEW m \in Sendable
  PROVE  /\ \A Q : Roled(Append(s, m), Q) <=> Roled(s, Q) /\ m.role \in Q
         /\ Apart(Append(s, m)) <=> Apart(s) /\ (s = <<>> \/ ~Alike(Last(s), m))
         /\ Fronted(Append(s, m)) <=> Fronted(s) /\ (s = <<>> \/ m.role # "system")
<1> DEFINE n == Len(s)
           t == Append(s, m)
<1>1. ToSet(t) = ToSet(s) \cup {m}
  BY ToSetAppend
<1>2. \A Q : Roled(t, Q) <=> Roled(s, Q) /\ m.role \in Q
  BY <1>1 DEF Roled
<1>3. /\ n \in Nat /\ Len(t) = n + 1 /\ t[n + 1] = m /\ \A i \in 1..n : t[i] = s[i]
      /\ s = <<>> <=> n = 0
  BY LenProperties, AppendProperties, EmptySeq
<1>4. Last(s) = s[n]
  BY DEF Last
<1> HIDE DEF t, n
<1>5. 2..(n + 1) = (2..n) \cup (IF n = 0 THEN {} ELSE {n + 1})
  BY <1>3
<1>6. \A i \in 2..n : t[i - 1] = s[i - 1] /\ t[i] = s[i]
  <2>1. \A i \in 2..n : i \in 1..n /\ i - 1 \in 1..n
    BY <1>3
  <2> QED
    BY <1>3, <2>1
<1>7. n # 0 => t[n + 1 - 1] = s[n] /\ t[n + 1] = m
  <2>1. n # 0 => n \in 1..n /\ n + 1 - 1 = n
    BY <1>3
  <2> QED
    BY <1>3, <2>1
<1>8. Apart(s) <=> \A i \in 2..n : ~Alike(t[i - 1], t[i])
  BY <1>6 DEF Apart, n
<1>9. Apart(t) <=> \A i \in 2..(n + 1) : ~Alike(t[i - 1], t[i])
  BY <1>3 DEF Apart
<1>10. Apart(t) <=> Apart(s) /\ (s = <<>> \/ ~Alike(Last(s), m))
  <2>1. CASE n = 0
    BY <1>3, <1>5, <1>8, <1>9, <2>1
  <2>2. CASE n # 0
    BY <1>3, <1>4, <1>5, <1>7, <1>8, <1>9, <2>2
  <2> QED
    BY <2>1, <2>2
<1>11. Fronted(s) <=> \A i \in 2..n : t[i].role # "system"
  BY <1>6 DEF Fronted, n
<1>12. Fronted(t) <=> \A i \in 2..(n + 1) : t[i].role # "system"
  BY <1>3 DEF Fronted
<1>13. Fronted(t) <=> Fronted(s) /\ (s = <<>> \/ m.role # "system")
  BY <1>3, <1>5, <1>11, <1>12
<1> QED
  BY <1>2, <1>10, <1>13 DEF t

(* Messages of equal roles are merged: those of the merged list differ     *)
(* from their neighbours, and bring no new role.                           *)
LEMMA DeduplicatedApart ==
  \A s \in Seq(Sendable) :
    /\ Apart(Deduplicated(s)) /\ \A Q : Roled(s, Q) => Roled(Deduplicated(s), Q)
    /\ Fronted(s) => Fronted(Deduplicated(s))
<1> DEFINE Holds(s) == /\ Apart(Deduplicated(s)) /\ \A Q : Roled(s, Q) => Roled(Deduplicated(s), Q)
                       /\ Fronted(s) => Fronted(Deduplicated(s))
           good == {s \in Seq(Sendable) : Holds(s)}
<1>1. <<>> \in good
  <2>1. <<>> \in Seq(Sendable) /\ Deduplicated(<<>>) = <<>>
    BY DeduplicatedType
  <2> QED
    BY <2>1, NothingSaid
<1>2. ASSUME NEW s \in Seq(Sendable), NEW m \in Sendable, s \in good PROVE Append(s, m) \in good
  <2> DEFINE d == Deduplicated(s)
             t == Append(s, m)
             e == Deduplicated(t)
             Kept == Apart(e) /\ (\A Q : Roled(t, Q) => Roled(e, Q)) /\ (Fronted(t) => Fronted(e))
  <2>1. d \in Seq(Sendable) /\ t \in Seq(Sendable) /\ EndsLike(d, s)
    BY DeduplicatedType, DeduplicatedEnds, AppendProperties
  <2>2. Apart(d) /\ (\A Q : Roled(s, Q) => Roled(d, Q)) /\ (Fronted(s) => Fronted(d))
    BY <1>2
  <2>3. /\ \A Q : Roled(t, Q) <=> Roled(s, Q) /\ m.role \in Q
        /\ Fronted(t) <=> Fronted(s) /\ (s = <<>> \/ m.role # "system")
    BY SaidNext
  <2>4. (d = <<>> <=> s = <<>>) /\ (s # <<>> => (Alike(Last(d), m) <=> Alike(Last(s), m)))
    BY <2>1 DEF EndsLike, Alike
  <2>5. \/ (s = <<>> \/ ~Alike(Last(s), m)) /\ e = Append(d, m)
        \/ /\ s # <<>> /\ Alike(Last(s), m)
           /\ \E f \in Seq(Sendable), l \in Sendable :
                Alike(l, m) /\ d = Append(f, l) /\ e = Append(f, [l EXCEPT !.text = @ \o m.text])
    BY DeduplicatedStep
  <2> HIDE DEF d, t, e, Kept
  <2>6. ASSUME s = <<>> \/ ~Alike(Last(s), m), e = Append(d, m) PROVE Kept
    <3>1. /\ \A Q : Roled(e, Q) <=> Roled(d, Q) /\ m.role \in Q
          /\ Apart(e) <=> Apart(d) /\ (d = <<>> \/ ~Alike(Last(d), m))
          /\ Fronted(e) <=> Fronted(d) /\ (d = <<>> \/ m.role # "system")
      BY <2>1, <2>6, SaidNext
    <3>2. Apart(e) /\ (Fronted(t) => Fronted(e))
      BY <2>2, <2>3, <2>4, <2>6, <3>1
    <3>3. \A Q : Roled(t, Q) => Roled(e, Q)
      BY <2>2, <2>3, <3>1
    <3> QED
      BY <3>2, <3>3 DEF Kept
  <2>7. ASSUME \E f \in Seq(Sendable), l \in Sendable :
                 Alike(l, m) /\ d = Append(f, l) /\ e = Append(f, [l EXCEPT !.text = @ \o m.text])
        PROVE  Kept
    <3>1. PICK f \in Seq(Sendable), l \in Sendable :
            Alike(l, m) /\ d = Append(f, l) /\ e = Append(f, [l EXCEPT !.text = @ \o m.text])
      BY <2>7
    <3> DEFINE k == [l EXCEPT !.text = @ \o m.text]
    <3>2. k \in Sendable /\ k.role = l.role /\ k.text # NoString /\ l.text # NoString
      BY <3>1, Longer DEF Alike
    <3>3. e = Append(f, k)
      BY <3>1
    <3> HIDE DEF k
    <3>4. /\ \A Q : Roled(d, Q) <=> Roled(f, Q) /\ l.role \in Q
          /\ Apart(d) <=> Apart(f) /\ (f = <<>> \/ ~Alike(Last(f), l))
          /\ Fronted(d) <=> Fronted(f) /\ (f = <<>> \/ l.role # "system")
      BY <3>1, SaidNext
    <3>5. /\ \A Q : Roled(e, Q) <=> Roled(f, Q) /\ k.role \in Q
          /\ Apart(e) <=> Apart(f) /\ (f = <<>> \/ ~Alike(Last(f), k))
          /\ Fronted(e) <=> Fronted(f) /\ (f = <<>> \/ k.role # "system")
      BY <3>2, <3>3, SaidNext
    <3>6. Alike(Last(f), k) <=> Alike(Last(f), l)
      BY <3>2 DEF Alike
    <3>7. Apart(e)
      BY <2>2, <3>4, <3>5, <3>6
    <3>8. \A Q : Roled(t, Q) => Roled(e, Q)
      BY <2>2, <2>3, <3>2, <3>4, <3>5
    <3>9. Fronted(t) => Fronted(e)
      BY <2>2, <2>3, <3>2, <3>4, <3>5
    <3> QED
      BY <3>7, <3>8, <3>9 DEF Kept
  <2>8. Kept
    BY <2>5, <2>6, <2>7
  <2> QED
    BY <2>1, <2>8 DEF Kept, e, t
<1> HIDE DEF good
<1>3. \A s \in Seq(Sendable) : s \in good
  BY <1>1, <1>2, ByAppending
<1> QED
  BY <1>3 DEF good

(* What is left without the system is as far apart.                        *)
LEMMA TalkApart ==
  \A s \in Seq(Sendable) : Fronted(s) /\ Apart(s) =>
    Apart(WithoutSystem(s)) /\ (WithoutSystem(s) = <<>> \/ Last(WithoutSystem(s)) = Last(s))
<1> DEFINE Holds(s) == Fronted(s) /\ Apart(s) =>
             Apart(WithoutSystem(s)) /\ (WithoutSystem(s) = <<>> \/ Last(WithoutSystem(s)) = Last(s))
           good == {s \in Seq(Sendable) : Holds(s)}
<1>1. <<>> \in good
  <2>1. <<>> \in Seq(Sendable) /\ WithoutSystem(<<>>) = <<>>
    BY OnlyEmpty DEF WithoutSystem
  <2> QED
    BY <2>1, NothingSaid
<1>2. ASSUME NEW s \in Seq(Sendable), NEW m \in Sendable, s \in good PROVE Append(s, m) \in good
  <2> DEFINE t == Append(s, m)
             w == WithoutSystem(s)
             v == WithoutSystem(t)
  <2>1. /\ t \in Seq(Sendable) /\ w \in Seq(Sendable)
        /\ v = IF m.role = "system" THEN w ELSE Append(w, m)
        /\ s = <<>> => w = <<>>
    BY AppendProperties, WithoutSystemIs
  <2>2. /\ Apart(t) <=> Apart(s) /\ (s = <<>> \/ ~Alike(Last(s), m))
        /\ Fronted(t) <=> Fronted(s) /\ (s = <<>> \/ m.role # "system")
        /\ Last(t) = m
    BY SaidNext, LastAppended
  <2>3. Fronted(s) /\ Apart(s) => Apart(w) /\ (w = <<>> \/ Last(w) = Last(s))
    BY <1>2
  <2> HIDE DEF t, v, w
  <2>4. Fronted(t) /\ Apart(t) => Apart(v) /\ (v = <<>> \/ Last(v) = Last(t))
    <3> SUFFICES ASSUME Fronted(t), Apart(t) PROVE Apart(v) /\ (v = <<>> \/ Last(v) = Last(t))
      OBVIOUS
    <3>1. CASE m.role = "system"
      BY <2>1, <2>2, <3>1, NothingSaid
    <3>2. CASE m.role # "system"
      <4>1. Apart(Append(w, m)) <=> Apart(w) /\ (w = <<>> \/ ~Alike(Last(w), m))
        BY <2>1, SaidNext
      <4>2. Last(Append(w, m)) = m
        BY <2>1, LastAppended
      <4> QED
        BY <2>1, <2>2, <2>3, <3>2, <4>1, <4>2
    <3> QED
      BY <3>1, <3>2
  <2> QED
    BY <2>1, <2>4 DEF t, v
<1> HIDE DEF good
<1>3. \A s \in Seq(Sendable) : s \in good
  BY <1>1, <1>2, ByAppending
<1> QED
  BY <1>3 DEF good

(* The roles of what is left, and of the merged list of the system's       *)
(* messages: with none or several of them it has one at most, in front.    *)
LEMMA MergedRoles ==
  ASSUME NEW s \in Seq(Sendable)
  PROVE  /\ \A Q : Roled(s, Q) => Roled(WithoutSystem(s), Q) /\ Roled(Systems(s), Q)
         /\ \A Q : "system" \in Q /\ Roled(s, Q) => Roled(SystemsMerged(s), Q)
         /\ Len(Systems(s)) # 1 => Fronted(SystemsMerged(s))
<1> DEFINE y == Systems(s)
           w == WithoutSystem(s)
<1>1. /\ y \in Seq(Sendable) /\ w \in Seq(Sendable) /\ Len(y) \in Nat
      /\ ToSet(y) = ToSet(s) \cap OfSystem /\ ToSet(w) = ToSet(s) \cap (Messages \ OfSystem)
  <2>1. y \in Seq(Sendable) /\ w \in Seq(Sendable)
    BY OnlyType DEF Systems, WithoutSystem
  <2> QED
    BY <2>1, LenProperties, OnlyElements DEF Systems, WithoutSystem
<1>2. \A Q : Roled(s, Q) => Roled(w, Q) /\ Roled(y, Q)
  BY <1>1 DEF Roled
<1>3. \A i \in 1..Len(w) : w[i].role # "system"
  <2>1. \A i \in 1..Len(w) : w[i] \in ToSet(w)
    BY <1>1, LenProperties DEF ToSet
  <2> HIDE DEF w
  <2> QED
    BY <1>1, <2>1 DEF OfSystem
<1>4. CASE Len(y) <= 1
  <2>1. SystemsMerged(s) = s
    BY <1>4 DEF SystemsMerged
  <2>2. Len(y) # 1 => Fronted(s)
    <3> SUFFICES ASSUME Len(y) # 1, NEW i \in 2..Len(s) PROVE s[i].role # "system"
      BY DEF Fronted
    <3>1. ToSet(y) = {}
      <4> HIDE DEF y
      <4> DEFINE l == Len(y)
      <4>0. l \in Nat /\ l <= 1 /\ l # 1
        BY <1>1, <1>4
      <4> HIDE DEF l
      <4>1. l = 0
        BY ONLY <4>0
      <4>2. y = <<>>
        BY <1>1, <4>1, EmptySeq DEF l
      <4> QED
        BY <4>2, ToSetEmpty
    <3>2. Len(s) \in Nat /\ DOMAIN s = 1..Len(s)
      BY LenProperties
    <3>3. s[i] \in ToSet(s) /\ s[i] \in Messages
      <4>1. i \in 1..Len(s)
        BY <3>2
      <4> QED
        BY <3>2, <4>1, ElementOfSeq, MessageIs DEF ToSet
    <3> HIDE DEF y
    <3> QED
      BY <1>1, <3>1, <3>3 DEF OfSystem
  <2> QED
    BY <1>2, <2>1, <2>2
<1>5. CASE Len(y) > 1 /\ Joined(y) = <<>>
  <2>1. SystemsMerged(s) = w
    BY <1>1, <1>5 DEF SystemsMerged
  <2>2. Fronted(w)
    <3>1. Len(w) \in Nat
      BY <1>1, LenProperties
    <3>2. \A i \in 2..Len(w) : i \in 1..Len(w)
      BY <3>1
    <3> QED
      BY <1>3, <3>2 DEF Fronted
  <2> QED
    BY <1>2, <2>1, <2>2
<1>6. CASE Len(y) > 1 /\ Joined(y) # <<>>
  <2> DEFINE x == SystemMessage(Joined(y))
             a == <<x>>
  <2>1. SystemsMerged(s) = a \o w
    BY <1>1, <1>6 DEF SystemsMerged
  <2>2. x \in Sendable /\ x.role = "system"
    <3>1. Systems(s) # <<>>
      BY <1>1, <1>6, EmptySeq
    <3> QED
      BY <3>1, JoinedText, SystemMessageIs DEF OfSystem
  <2> HIDE DEF w, y, x
  <2>3. a \in Seq(Sendable) /\ Len(a) = 1 /\ ToSet(a) = {x}
    <3>1. a \in Seq(Sendable) /\ Len(a) = 1 /\ DOMAIN a = 1..1 /\ a[1] = x
      BY <2>2
    <3> HIDE DEF a
    <3>2. ToSet(a) = {a[i] : i \in 1..1}
      BY <3>1 DEF ToSet
    <3> QED
      BY <3>1, <3>2
  <2> HIDE DEF a
  <2>4. ToSet(a \o w) = {x} \cup ToSet(w)
    BY <1>1, <2>3, ToSetJoined
  <2>5. \A Q : "system" \in Q /\ Roled(w, Q) => Roled(a \o w, Q)
    BY <2>2, <2>4 DEF Roled
  <2>6. Fronted(a \o w)
    <3>1. /\ Len(w) \in Nat /\ Len(a \o w) = 1 + Len(w)
          /\ \A i \in 1..(1 + Len(w)) : (a \o w)[i] = IF i <= 1 THEN a[i] ELSE w[i - 1]
      <4>0. a \in Seq(Sendable) /\ w \in Seq(Sendable)
        BY <1>1, <2>3
      <4>1. Len(w) \in Nat /\ Len(a \o w) = Len(a) + Len(w)
        BY ONLY <4>0, LenProperties, ConcatProperties
      <4>2. \A i \in 1..(Len(a) + Len(w)) : (a \o w)[i] = IF i <= Len(a) THEN a[i] ELSE w[i - Len(a)]
        BY ONLY <4>0, ConcatProperties
      <4> QED
        BY <2>3, <4>1, <4>2
    <3>2. \A i \in 2..(1 + Len(w)) : i \in 1..(1 + Len(w)) /\ ~(i <= 1) /\ i - 1 \in 1..Len(w)
      BY <3>1
    <3> QED
      BY <1>3, <3>1, <3>2 DEF Fronted
  <2> QED
    BY <1>2, <2>1, <2>5, <2>6 DEF w, y
<1> QED
  BY <1>1, <1>4, <1>5, <1>6

(* The system in front of others changes nothing among them.               *)
LEMMA SystemInFront ==
  ASSUME NEW a \in Seq(Sendable), NEW r \in Seq(Sendable), ToSet(a) \subseteq OfSystem, Apart(r)
  PROVE  Apart(a \o r)
<1> DEFINE m == Len(a)
           n == Len(r)
           j == a \o r
<1>1. /\ m \in Nat /\ n \in Nat /\ Len(j) = m + n /\ DOMAIN a = 1..m
      /\ \A i \in 1..(m + n) : j[i] = IF i <= m THEN a[i] ELSE r[i - m]
  BY LenProperties, ConcatProperties
<1>2. \A i \in 1..m : a[i].role = "system"
  <2>1. \A i \in 1..m : a[i] \in ToSet(a)
    BY <1>1 DEF ToSet
  <2> QED
    BY <2>1 DEF OfSystem
<1>3. \A i \in 2..n : ~Alike(r[i - 1], r[i])
  BY DEF Apart
<1> HIDE DEF m, n, j
<1> SUFFICES ASSUME NEW i \in 2..(m + n) PROVE ~Alike(j[i - 1], j[i])
  BY <1>1 DEF Apart, j
<1>4. i \in 1..(m + n) /\ i - 1 \in 1..(m + n)
  BY <1>1
<1>5. CASE i - 1 <= m
  <2>1. i - 1 \in 1..m /\ j[i - 1] = a[i - 1]
    BY <1>1, <1>4, <1>5
  <2> QED
    BY <1>2, <2>1 DEF Alike
<1>6. CASE ~(i - 1 <= m)
  <2>1. i - m \in 2..n /\ i - m - 1 = i - 1 - m /\ ~(i <= m)
    BY <1>1, <1>4, <1>6
  <2>2. j[i] = r[i - m] /\ j[i - 1] = r[i - m - 1]
    BY <1>1, <1>4, <1>6, <2>1
  <2> QED
    BY <1>3, <2>1, <2>2
<1> QED
  BY <1>5, <1>6

(* The end of a list is as far apart as the list.                          *)
LEMMA EndApart ==
  ASSUME NEW s \in Seq(Sendable), KeepRecent < Len(s)
  PROVE  /\ RecentOf(s) \in Seq(Sendable)
         /\ ToSet(RecentOf(s)) \subseteq ToSet(s)
         /\ Apart(s) => Apart(RecentOf(s))
<1> DEFINE n == Len(s)
           r == RecentOf(s)
           d == n - KeepRecent
           k == KeepRecent
<1>1. n \in Nat /\ d \in Nat /\ k \in Nat \ {0} /\ n = d + k /\ DOMAIN s = 1..n
  BY LenProperties, CompressionAssumption
<1>2. r = SubSeq(s, d + 1, n)
  BY <1>1 DEF RecentOf
<1>0. Apart(s) => \A i \in 2..n : ~Alike(s[i - 1], s[i])
  BY DEF Apart
<1> HIDE DEF n, r, d, k
<1>3. d + 1 \in Nat \ {0} /\ d + 1 <= n + 1 /\ n - (d + 1) + 1 = k /\ \A i \in (d + 1)..n : i \in 1..n
  BY <1>1
<1>4. \A i \in (d + 1)..n : s[i] \in Sendable
  BY <1>3, ElementOfSeq DEF n
<1>5. /\ r \in Seq(Sendable) /\ Len(r) = k
      /\ \A i \in 1..k : r[i] = s[d + 1 + i - 1]
  <2>1. /\ SubSeq(s, d + 1, n) \in Seq(Sendable) /\ Len(SubSeq(s, d + 1, n)) = n - (d + 1) + 1
        /\ \A i \in 1..(n - (d + 1) + 1) : SubSeq(s, d + 1, n)[i] = s[d + 1 + i - 1]
    BY <1>1, <1>3, <1>4, SubSeqProperties
  <2> QED
    BY <1>2, <1>3, <2>1
<1>6. \A i \in 1..k : d + i \in 1..n /\ d + i = d + 1 + i - 1 /\ r[i] = s[d + i]
  <2>1. \A i \in 1..k : d + i \in 1..n /\ d + i = d + 1 + i - 1
    BY <1>1
  <2> QED
    BY <1>5, <2>1
<1>7. ToSet(r) \subseteq ToSet(s)
  <2>1. DOMAIN r = 1..k
    BY <1>5, LenProperties
  <2> QED
    BY <1>1, <1>6, <2>1 DEF ToSet
<1>8. ASSUME Apart(s), NEW i \in 2..k PROVE ~Alike(r[i - 1], r[i])
  <2>1. i \in 1..k /\ i - 1 \in 1..k /\ d + i \in 2..n /\ d + (i - 1) = d + i - 1
    BY <1>1
  <2>3. PICK e \in 2..n : e = d + i
    BY <2>1
  <2> DEFINE h == i - 1
  <2>5. h \in 1..k /\ d + h = e - 1
    BY <1>1, <2>1, <2>3
  <2> HIDE DEF h
  <2>2. r[i] = s[e] /\ r[h] = s[e - 1]
    BY <1>6, <2>1, <2>3, <2>5
  <2>4. ~Alike(s[e - 1], s[e])
    BY <1>0, <1>8
  <2> QED
    BY <2>2, <2>4 DEF h
<1> QED
  BY <1>5, <1>7, <1>8 DEF Apart, r

(* What windowing leaves of a list with one message of the system at most. *)
LEMMA WindowedApart ==
  ASSUME NEW d \in Seq(Sendable)
  PROVE  /\ Windowed(d) \in Seq(Sendable)
         /\ \A Q : "system" \in Q /\ Roled(d, Q) => Roled(Windowed(d), Q)
         /\ Fronted(d) /\ Apart(d) => Apart(Windowed(d))
<1> DEFINE talk == WithoutSystem(d)
           y == Systems(d)
           spoken == Only(OldOf(talk), {m \in Messages : m.text # NoString})
           summary == <<Summarized>> \o FlattenSeq([i \in DOMAIN spoken |-> Preview(spoken[i].text)])
           x == SystemMessage(summary)
           r == RecentOf(talk)
<1>1. talk \in Seq(Sendable) /\ y \in Seq(Sendable) /\ Len(talk) \in Nat /\ KeepRecent \in Nat
  <2>1. talk \in Seq(Sendable) /\ y \in Seq(Sendable)
    BY OnlyType DEF Systems, WithoutSystem
  <2> QED
    BY <2>1, LenProperties, CompressionAssumption
<1>2. ToSet(y) \subseteq OfSystem
  BY OnlyElements DEF Systems
<1>3. Windowed(d) = IF Len(talk) <= KeepRecent THEN d ELSE (y \o <<x>>) \o r
  BY DEF Windowed
<1>4. /\ \A Q : Roled(d, Q) => Roled(talk, Q) /\ Roled(y, Q)
      /\ Fronted(d) /\ Apart(d) => Apart(talk)
  BY MergedRoles, TalkApart
<1>5. summary \in Seq(STRING)
  <2> HIDE DEF talk
  <2> QED
    BY <1>1, SummaryIs
<1> HIDE DEF summary
<1>6. x \in Sendable /\ x \in OfSystem /\ x.role = "system"
  BY <1>5, SystemMessageIs DEF OfSystem
<1> HIDE DEF x, y, talk
<1>7. CASE Len(talk) <= KeepRecent
  BY <1>3, <1>7
<1>8. CASE ~(Len(talk) <= KeepRecent)
  <2>1. KeepRecent < Len(talk)
    BY <1>1, <1>8
  <2>2. r \in Seq(Sendable) /\ ToSet(r) \subseteq ToSet(talk) /\ (Apart(talk) => Apart(r))
    BY <1>1, <2>1, EndApart
  <2> DEFINE a == Append(y, x)
  <2>3. a = y \o <<x>> /\ a \in Seq(Sendable) /\ ToSet(a) = ToSet(y) \cup {x}
    BY <1>1, <1>6, AppendIsConcat, AppendProperties, ToSetAppend
  <2>4. Windowed(d) = a \o r
    BY <1>3, <1>8, <2>3
  <2>5. ToSet(a) \subseteq OfSystem
    BY <1>2, <1>6, <2>3
  <2> HIDE DEF a, r
  <2>6. a \o r \in Seq(Sendable) /\ ToSet(a \o r) = ToSet(a) \cup ToSet(r)
    <3>1. a \in Seq(Sendable) /\ r \in Seq(Sendable)
      BY <2>2, <2>3
    <3> QED
      BY ONLY <3>1, ConcatProperties, ToSetJoined
  <2>7. \A Q : "system" \in Q /\ Roled(d, Q) => Roled(a \o r, Q)
    BY <1>4, <1>6, <2>2, <2>3, <2>6 DEF Roled
  <2>8. Fronted(d) /\ Apart(d) => Apart(a \o r)
    <3> SUFFICES ASSUME Fronted(d), Apart(d) PROVE Apart(a \o r)
      OBVIOUS
    <3>1. Apart(r)
      BY <1>4, <2>2
    <3> QED
      BY <2>2, <2>3, <2>5, <3>1, SystemInFront
  <2> QED
    BY <2>4, <2>6, <2>7, <2>8
<1> QED
  BY <1>7, <1>8

(* What is sent of a conversation.                                         *)
LEMMA SentSaid ==
  ASSUME NEW c \in Chats
  PROVE  /\ Compressed(c) \in Seq(Sendable)
         /\ Roled(Compressed(c), {"system"} \cup {m.role : m \in ToSet(c)})
         /\ Len(c) >= MinMessages /\ Len(Systems(c)) # 1 => Apart(Compressed(c))
<1> DEFINE Q == {"system"} \cup {m.role : m \in ToSet(c)}
           b == SystemsMerged(c)
           d == Deduplicated(b)
<1>1. c \in Seq(Sendable) /\ Len(c) \in Nat /\ MinMessages \in Nat
  <2>1. c \in Seq(Sendable)
    BY ChatsSendable
  <2> QED
    BY <2>1, LenProperties, CompressionAssumption
<1>2. "system" \in Q /\ Roled(c, Q)
  BY DEF Roled
<1> HIDE DEF Q
<1>3. b \in Seq(Sendable) /\ Roled(b, Q) /\ (Len(Systems(c)) # 1 => Fronted(b))
  BY <1>1, <1>2, SystemsMergedIs, MergedRoles
<1> HIDE DEF b
<1>4. d \in Seq(Sendable) /\ Roled(d, Q) /\ Apart(d) /\ (Len(Systems(c)) # 1 => Fronted(d))
  BY <1>3, DeduplicatedType, DeduplicatedApart
<1> HIDE DEF d
<1>5. /\ Windowed(d) \in Seq(Sendable) /\ Roled(Windowed(d), Q)
      /\ Len(Systems(c)) # 1 => Apart(Windowed(d))
  BY <1>2, <1>4, WindowedApart
<1>6. Compressed(c) = IF Len(c) < MinMessages THEN c ELSE Windowed(d)
  BY DEF Compressed, d, b
<1>7. Len(c) >= MinMessages => ~(Len(c) < MinMessages)
  BY <1>1
<1> QED
  BY <1>1, <1>2, <1>5, <1>6, <1>7 DEF Q

LEMMA CompressedTyped == CompressionInv => CompressionTypeOK
<1> SUFFICES ASSUME CompressionInv PROVE CompressionTypeOK
  OBVIOUS
<1> DEFINE Q == {"system"} \cup {m.role : m \in ToSet(chat)}
<1>1. /\ sent \in Seq(Sendable) /\ Roled(sent, Q)
      /\ Len(chat) >= MinMessages /\ Len(Systems(chat)) # 1 => Apart(sent)
  <2>1. CASE sent = <<>>
    BY <2>1, NothingSaid
  <2>2. CASE sent = Compressed(chat)
    BY <2>2, SentSaid DEF CompressionInv
  <2> QED
    BY <2>1, <2>2 DEF CompressionInv
<1>2. \A i \in DOMAIN sent : sent[i] \in Sendable /\ sent[i].role \in Q
  <2>1. \A i \in DOMAIN sent : sent[i] \in Sendable /\ sent[i] \in ToSet(sent)
    BY <1>1, LenProperties, ElementOfSeq DEF ToSet
  <2> HIDE DEF Q
  <2> QED
    BY <1>1, <2>1 DEF Roled
<1>3. \A i \in DOMAIN sent : sent[i].text = NoString \/ sent[i].text \in Seq(STRING)
  BY <1>2, MessageIs
<1> QED
  BY <1>1, <1>2, <1>3 DEF CompressionTypeOK, Apart

LEMMA TranslatedTyped == TranslationInv => TranslationTypeOK
<1> SUFFICES ASSUME TranslationInv PROVE TranslationTypeOK
  OBVIOUS
<1>1. status \in {"new", "accepted", "translated", Refused} /\ (status = "accepted" => WellFormed(body))
  BY DEF TranslationInv
<1>2. Detected(body) # "openai" => asOpenAI \in Seq(OpenAIMessages)
  <2> SUFFICES ASSUME Detected(body) # "openai" PROVE asOpenAI \in Seq(OpenAIMessages)
    OBVIOUS
  <2>1. CASE asOpenAI = <<>>
    BY <2>1
  <2>2. CASE asOpenAI = Translated(body)
    BY <2>2, TranslatedIs, FromClaudeType, FromGeminiType DEF TranslationInv
  <2> QED
    BY <2>1, <2>2 DEF TranslationInv
<1>3. Detected(body) # "openai" =>
        \A i \in DOMAIN asOpenAI : asOpenAI[i].role \in {"system", "user", "assistant", "tool"}
  <2> SUFFICES ASSUME Detected(body) # "openai", NEW i \in DOMAIN asOpenAI
               PROVE  asOpenAI[i].role \in {"system", "user", "assistant", "tool"}
    OBVIOUS
  <2>1. asOpenAI[i] \in OpenAIMessages
    BY <1>2, LenProperties, ElementOfSeq
  <2> QED
    BY <2>1 DEF OpenAIMessages
<1> QED
  BY <1>1, <1>3 DEF TranslationTypeOK

(* The parts of a chat's way have the types the code gives them, whatever  *)
(* is asked: a conversation that was compressed has no new roles and, where *)
(* its system messages were merged, nobody in it speaks twice in a row     *)
(* (main.py, format_translator.py, token_compressor.py, model_alias.py).   *)
THEOREM ChatTyped ==
  GatewaySpec /\ TranslationSpec /\ CompressionSpec /\ NamingSpec => []ChatTypeOK
<1>1. GatewaySpec => []GatewayTypeOK
  BY RequestsTyped
<1>2. TranslationSpec => []TranslationTypeOK
  BY TranslationInvHolds, TranslatedTyped, PTL
<1>3. CompressionSpec => []CompressionTypeOK
  BY CompressionInvHolds, CompressedTyped, PTL
<1>4. NamingSpec => []NamingTypeOK
  <2>1. NamingInv => NamingTypeOK
    BY DEF NamingInv, NamingTypeOK
  <2> QED
    BY <2>1, NamingInvHolds, PTL
<1>5. GatewayTypeOK /\ TranslationTypeOK /\ CompressionTypeOK /\ NamingTypeOK => ChatTypeOK
  BY DEF ChatTypeOK
<1> QED
  BY <1>1, <1>2, <1>3, <1>4, <1>5, PTL
=============================================================================
