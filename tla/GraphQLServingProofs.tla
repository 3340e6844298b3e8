---------------------------- MODULE GraphQLServingProofs -------------------------
(***************************************************************************)
(* Facts about the operations of LRUCache, for any sets K of keys and V of *)
(* values; what holds of a cache through any sequence of hits and          *)
(* insertions; and that serving with two caches is serving without any.    *)
(***************************************************************************)
EXTENDS GraphQLServing, LRUCacheUse, FiniteSetTheorems, TLAPS

(* Every entry of a cache has an index of its own, below the running index:   *)
(* it is what makes counting indexes count entries.                           *)
DistinctIndexes(c) ==
  /\ \A k \in Cached(c) : c.map[k].index < c.index
  /\ \A j, k \in Cached(c) : c.map[j].index = c.map[k].index => j = k

WellFormed(c, K, V) ==
  /\ IsCache(c, K, V)
  /\ IsFiniteSet(Cached(c))
  /\ DistinctIndexes(c)

--------------------------------------------------------------------------------
(* A set whose members have distinct numbers in a window of MaxSize numbers    *)
(* has at most MaxSize members.                                                *)
LEMMA Window ==
  ASSUME NEW S, NEW f \in [S -> Nat], NEW n \in Nat,
         \A s \in S : n - MaxSize <= f[s] /\ f[s] < n,
         \A s, t \in S : f[s] = f[t] => s = t
  PROVE  IsFiniteSet(S) /\ Cardinality(S) <= MaxSize
<1> DEFINE T == (n - MaxSize) .. (n - 1)
<1>1. MaxSize \in Nat
  BY MaxSizeAssumption
<1>2. n - MaxSize \in Int /\ n - 1 \in Int
  BY <1>1
<1>3. IsFiniteSet(T) /\ Cardinality(T) = MaxSize
  <2>1. /\ IsFiniteSet(T)
        /\ Cardinality(T) = IF n - MaxSize > n - 1 THEN 0
                            ELSE (n - 1) - (n - MaxSize) + 1
    BY <1>2, FS_Interval
  <2> QED BY <2>1, <1>1
<1>4. f \in Injection(S, T)
  <2>1. f \in [S -> T]
    BY <1>1
  <2> QED BY <2>1 DEF Injection, IsInjective
<1>5. IsFiniteSet(S) /\ Cardinality(S) <= Cardinality(T)
  BY <1>3, <1>4, FS_Injection
<1> QED BY <1>3, <1>5

(* A new cache is well-formed and empty.                                        *)
LEMMA EmptyFacts ==
  ASSUME NEW K, NEW V
  PROVE  WellFormed(EmptyCache, K, V) /\ Cached(EmptyCache) = {}
<1>1. Cached(EmptyCache) = {}
  BY DEF Cached, EmptyCache
<1>2. IsCache(EmptyCache, K, V)
  BY DEF IsCache, EmptyCache
<1> QED BY <1>1, <1>2, FS_EmptySet DEF WellFormed, DistinctIndexes

(* A hit keeps the keys and the well-formedness.                                *)
LEMMA TouchFacts ==
  ASSUME NEW K, NEW V, NEW c, WellFormed(c, K, V),
         NEW k \in Cached(c)
  PROVE  /\ WellFormed(Touch(c, k), K, V)
         /\ Cached(Touch(c, k)) = Cached(c)
<1> DEFINE t == Touch(c, k)
<1>1. /\ t.map = [c.map EXCEPT ![k].index = c.index]
      /\ t.index = c.index + 1
      /\ t = [map |-> t.map, index |-> t.index]
  BY DEF Touch
<1>2. DOMAIN t.map = DOMAIN c.map
  BY <1>1
<1>3. IsCache(t, K, V)
  BY <1>1, <1>2 DEF WellFormed, IsCache, Cached
<1>4. DistinctIndexes(t)
  BY <1>1, <1>2 DEF WellFormed, IsCache, DistinctIndexes, Cached
<1> QED BY <1>2, <1>3, <1>4 DEF WellFormed, Cached

(* An insertion adds its key and keeps the well-formedness.                     *)
LEMMA InsertFacts ==
  ASSUME NEW K, NEW V, NEW c, WellFormed(c, K, V),
         NEW k \in K, NEW v \in V
  PROVE  /\ WellFormed(Insert(c, k, v), K, V)
         /\ Cached(Insert(c, k, v)) = Cached(c) \cup {k}
<1> DEFINE t == Insert(c, k, v)
<1>1. /\ t.map = [j \in Cached(c) \cup {k} |->
                    IF j = k THEN [value |-> v, index |-> c.index] ELSE c.map[j]]
      /\ t.index = c.index + 1
      /\ t = [map |-> t.map, index |-> t.index]
  BY DEF Insert
<1> HIDE DEF t
<1>2. DOMAIN t.map = Cached(c) \cup {k}
  BY <1>1
<1>3. IsCache(t, K, V)
  BY <1>1, <1>2 DEF WellFormed, IsCache, Cached
<1>4. DistinctIndexes(t)
  BY <1>1, <1>2 DEF WellFormed, IsCache, DistinctIndexes, Cached
<1>5. IsFiniteSet(Cached(c) \cup {k})
  BY FS_AddElement DEF WellFormed
<1> QED BY <1>2, <1>3, <1>4, <1>5 DEF WellFormed, Cached, t

(* The eviction loop keeps what is in the window of the last MaxSize indexes,   *)
(* which leaves at most MaxSize entries.                                        *)
LEMMA EvictFacts ==
  ASSUME NEW K, NEW V, NEW c, WellFormed(c, K, V)
  PROVE  /\ WellFormed(Evict(c), K, V)
         /\ Cached(Evict(c)) =
              {k \in Cached(c) : c.map[k].index >= c.index - MaxSize}
         /\ \A k \in Cached(Evict(c)) : Evict(c).map[k] = c.map[k]
         /\ Evict(c).index = c.index
         /\ Cardinality(Cached(Evict(c))) <= MaxSize
<1> DEFINE t == Evict(c)
           kept == {k \in Cached(c) : c.map[k].index >= c.index - MaxSize}
           f == [k \in kept |-> c.map[k].index]
<1>1. /\ t.map = [k \in kept |-> c.map[k]]
      /\ t.index = c.index
      /\ t = [map |-> t.map, index |-> t.index]
  BY DEF Evict, WellFormed, IsCache
<1> HIDE DEF t
<1>2. Cached(t) = kept
  BY <1>1 DEF Cached
<1>3. IsCache(t, K, V)
  BY <1>1 DEF WellFormed, IsCache, Cached
<1>4. DistinctIndexes(t)
  BY <1>1, <1>2 DEF WellFormed, DistinctIndexes, Cached
<1>5. IsFiniteSet(kept) /\ Cardinality(kept) <= MaxSize
  <2>1. f \in [kept -> Nat]
    BY DEF WellFormed, IsCache, Cached
  <2>2. \A s \in kept : c.index - MaxSize <= f[s] /\ f[s] < c.index
    BY MaxSizeAssumption DEF WellFormed, IsCache, Cached, DistinctIndexes
  <2>3. \A s, u \in kept : f[s] = f[u] => s = u
    BY DEF WellFormed, DistinctIndexes
  <2>4. c.index \in Nat
    BY DEF WellFormed, IsCache
  <2> HIDE DEF f, kept
  <2> QED BY <2>1, <2>2, <2>3, <2>4, Window
<1> QED BY <1>1, <1>2, <1>3, <1>4, <1>5 DEF WellFormed, t

(* set() keeps a cache well-formed and within maxSize.                          *)
LEMMA PutFacts ==
  ASSUME NEW K, NEW V, NEW c, WellFormed(c, K, V),
         NEW k \in K, NEW v \in V
  PROVE  /\ WellFormed(Put(c, k, v), K, V)
         /\ Cardinality(Cached(Put(c, k, v))) <= MaxSize
<1> DEFINE t == Insert(c, k, v)
<1>1. WellFormed(t, K, V)
  BY InsertFacts
<1> HIDE DEF t
<1>2. CASE Cardinality(Cached(t)) > MaxSize
  <2>1. Put(c, k, v) = Evict(t)
    BY <1>2 DEF Put, t
  <2> QED BY <1>1, <2>1, EvictFacts
<1>3. CASE ~(Cardinality(Cached(t)) > MaxSize)
  <2>1. Put(c, k, v) = t
    BY <1>3 DEF Put, t
  <2>2. Cardinality(Cached(t)) \in Nat /\ MaxSize \in Nat
    BY <1>1, FS_CardinalityType, MaxSizeAssumption DEF WellFormed
  <2> QED BY <1>1, <1>3, <2>1, <2>2
<1> QED BY <1>2, <1>3

(* A hit changes no value.                                                      *)
LEMMA TouchValues ==
  ASSUME NEW K, NEW V, NEW c, WellFormed(c, K, V),
         NEW k \in Cached(c), NEW j \in Cached(c)
  PROVE  Lookup(Touch(c, k), j) = Lookup(c, j)
<1>1. c.map[k] = [value |-> c.map[k].value, index |-> c.map[k].index]
  BY DEF WellFormed, IsCache, Cached
<1>2. CASE j = k
  BY <1>1, <1>2 DEF Touch, Lookup, Cached
<1>3. CASE j # k
  BY <1>3 DEF Touch, Lookup, Cached
<1> QED BY <1>2, <1>3

(* After set() a key has the value that was set, or the one it had.             *)
LEMMA PutValues ==
  ASSUME NEW K, NEW V, NEW c, WellFormed(c, K, V),
         NEW k \in K, NEW v \in V, NEW j \in Cached(Put(c, k, v))
  PROVE  \/ j = k /\ Lookup(Put(c, k, v), j) = v
         \/ j \in Cached(c) /\ Lookup(Put(c, k, v), j) = Lookup(c, j)
<1> DEFINE t == Insert(c, k, v)
<1>1. t.map = [i \in Cached(c) \cup {k} |->
                 IF i = k THEN [value |-> v, index |-> c.index] ELSE c.map[i]]
  BY DEF Insert
<1>2. WellFormed(t, K, V) /\ Cached(t) = Cached(c) \cup {k}
  BY InsertFacts
<1> HIDE DEF t
<1>3. j \in Cached(t) /\ Put(c, k, v).map[j] = t.map[j]
  <2>1. CASE Cardinality(Cached(t)) > MaxSize
    BY <1>2, <2>1, EvictFacts DEF Put, t
  <2>2. CASE ~(Cardinality(Cached(t)) > MaxSize)
    BY <2>2 DEF Put, t
  <2> QED BY <2>1, <2>2
<1> QED BY <1>1, <1>2, <1>3 DEF Lookup

--------------------------------------------------------------------------------
(* The index in an entry is the index of the key's last use, and no use is in   *)
(* the future: it ties the eviction rule to the history Recency speaks of.      *)
LastUse(c, l) ==
  /\ l \in [Keys -> Nat \cup {-1}]
  /\ \A k \in Keys : l[k] < c.index
  /\ \A k \in Cached(c) : c.map[k].index = l[k]

(* Recency of a cache c under a history l, so that it can be stated of the      *)
(* intermediate caches of a set().                                              *)
RecentIn(c, l) == \A k \in Cached(c), j \in Keys \ Cached(c) : l[j] < l[k]

Ordered(c, l) == WellFormed(c, Keys, Values) /\ LastUse(c, l) /\ RecentIn(c, l)

UseIInv == Ordered(lru, last) /\ SizeBound

--------------------------------------------------------------------------------
(* The first index is above the -1 of the keys that were never used.            *)
LEMMA UseInitInv == UseInit => UseIInv
<1> SUFFICES ASSUME UseInit PROVE UseIInv
  OBVIOUS
<1>1. WellFormed(lru, Keys, Values) /\ Cached(lru) = {}
  BY EmptyFacts DEF UseInit
<1>2. LastUse(lru, last)
  BY <1>1 DEF UseInit, LastUse, EmptyCache
<1>3. SizeBound
  BY <1>1, FS_EmptySet, MaxSizeAssumption DEF SizeBound
<1> QED BY <1>1, <1>2, <1>3 DEF UseIInv, Ordered, RecentIn

(* A hit moves a cached key to the front.                                       *)
LEMMA TouchOrdered ==
  ASSUME NEW c, NEW l, Ordered(c, l), NEW k \in Cached(c)
  PROVE  Ordered(Touch(c, k), [l EXCEPT ![k] = c.index])
<1> DEFINE t == Touch(c, k)
           m == [l EXCEPT ![k] = c.index]
<1>1. WellFormed(t, Keys, Values) /\ Cached(t) = Cached(c)
  BY TouchFacts DEF Ordered
<1>2. /\ t.map = [c.map EXCEPT ![k].index = c.index]
      /\ t.index = c.index + 1
      /\ c.index \in Nat
      /\ k \in Keys
  BY DEF Touch, Ordered, WellFormed, IsCache, Cached
<1> HIDE DEF t
<1>3. LastUse(t, m)
  <2>1. m \in [Keys -> Nat \cup {-1}]
    BY <1>2 DEF Ordered, LastUse
  <2>2. \A j \in Keys : m[j] < t.index
    BY <1>2 DEF Ordered, LastUse
  <2>3. \A j \in Cached(t) : t.map[j].index = m[j]
    BY <1>1, <1>2 DEF Ordered, LastUse, WellFormed, IsCache, Cached
  <2> QED BY <2>1, <2>2, <2>3 DEF LastUse
<1>4. RecentIn(t, m)
  BY <1>1, <1>2 DEF Ordered, LastUse, RecentIn, WellFormed, IsCache, Cached
<1> QED BY <1>1, <1>3, <1>4 DEF Ordered, t

(* So does an insertion, whether the key was cached or not.                     *)
LEMMA InsertOrdered ==
  ASSUME NEW c, NEW l, Ordered(c, l), NEW k \in Keys, NEW v \in Values
  PROVE  Ordered(Insert(c, k, v), [l EXCEPT ![k] = c.index])
<1> DEFINE t == Insert(c, k, v)
           m == [l EXCEPT ![k] = c.index]
<1>1. WellFormed(t, Keys, Values) /\ Cached(t) = Cached(c) \cup {k}
  BY InsertFacts DEF Ordered
<1>2. /\ t.map = [j \in Cached(c) \cup {k} |->
                    IF j = k THEN [value |-> v, index |-> c.index] ELSE c.map[j]]
      /\ t.index = c.index + 1
      /\ c.index \in Nat
      /\ Cached(c) \subseteq Keys
  BY DEF Insert, Ordered, WellFormed, IsCache, Cached
<1> HIDE DEF t
<1>3. LastUse(t, m)
  <2>1. m \in [Keys -> Nat \cup {-1}]
    BY <1>2 DEF Ordered, LastUse
  <2>2. \A j \in Keys : m[j] < t.index
    BY <1>2 DEF Ordered, LastUse
  <2>3. \A j \in Cached(t) : t.map[j].index = m[j]
    BY <1>1, <1>2 DEF Ordered, LastUse
  <2> QED BY <2>1, <2>2, <2>3 DEF LastUse
<1>4. RecentIn(t, m)
  BY <1>1, <1>2 DEF Ordered, LastUse, RecentIn
<1> QED BY <1>1, <1>3, <1>4 DEF Ordered, t

(* Eviction cuts the order of use at one place.                                 *)
LEMMA EvictOrdered ==
  ASSUME NEW c, NEW l, Ordered(c, l)
  PROVE  Ordered(Evict(c), l)
<1> DEFINE t == Evict(c)
<1>0. WellFormed(c, Keys, Values)
  BY DEF Ordered
<1>1. WellFormed(t, Keys, Values) /\ t.index = c.index
  BY <1>0, EvictFacts
<1>2. /\ Cached(t) = {k \in Cached(c) : c.map[k].index >= c.index - MaxSize}
      /\ \A k \in Cached(t) : t.map[k] = c.map[k]
  BY DEF Evict, Cached
<1>3. /\ c.index \in Nat /\ MaxSize \in Nat
      /\ Cached(c) \subseteq Keys
  BY MaxSizeAssumption DEF Ordered, WellFormed, IsCache, Cached
<1> HIDE DEF t
<1>4. LastUse(t, l)
  BY <1>1, <1>2 DEF Ordered, LastUse
<1>5. ASSUME NEW k \in Cached(t), NEW j \in Keys \ Cached(t)
      PROVE  l[j] < l[k]
  <2>1. CASE j \in Cached(c)
    BY <1>2, <1>3, <1>5, <2>1 DEF Ordered, LastUse
  <2>2. CASE j \notin Cached(c)
    BY <1>2, <1>5, <2>2 DEF Ordered, RecentIn
  <2> QED BY <2>1, <2>2
<1> QED BY <1>1, <1>4, <1>5 DEF Ordered, RecentIn, t

(* Every get() and set() preserves the invariant.                               *)
LEMMA UseNextInv == UseIInv /\ [UseNext]_useVars => UseIInv'
<1> SUFFICES ASSUME UseIInv, [UseNext]_useVars PROVE UseIInv'
  OBVIOUS
<1> USE DEF UseIInv
<1>1. ASSUME NEW k \in Keys, Get(k) PROVE UseIInv'
  <2>1. k \in Cached(lru)
    BY <1>1 DEF Get, IsCached
  <2>2. Ordered(lru, last)'
    BY <1>1, <2>1, TouchOrdered DEF Get
  <2>3. Cached(Touch(lru, k)) = Cached(lru)
    BY <2>1, TouchFacts DEF Ordered
  <2>4. SizeBound'
    BY <1>1, <2>3 DEF Get, SizeBound
  <2> QED BY <2>2, <2>4
<1>2. ASSUME NEW k \in Keys, NEW v \in Values, Set(k, v) PROVE UseIInv'
  <2> DEFINE t == Insert(lru, k, v)
             m == [last EXCEPT ![k] = lru.index]
  <2>1. Ordered(t, m)
    BY InsertOrdered
  <2>2. lru' = Put(lru, k, v) /\ last' = m
    BY <1>2 DEF Set
  <2> HIDE DEF t, m
  <2>3. Put(lru, k, v) = t \/ Put(lru, k, v) = Evict(t)
    BY DEF Put, t
  <2>4. Ordered(lru, last)'
    BY <2>1, <2>2, <2>3, EvictOrdered
  <2>5. SizeBound'
    BY <2>2, PutFacts DEF SizeBound, Ordered
  <2> QED BY <2>4, <2>5
<1>3. CASE UNCHANGED useVars
  BY <1>3 DEF useVars, SizeBound
<1> QED BY <1>1, <1>2, <1>3 DEF UseNext

(* The inductive invariant holds in every reachable state.                      *)
THEOREM UseInvariance == UseSpec => []UseIInv
BY UseInitInv, UseNextInv, PTL DEF UseSpec

(* Type correctness of the cache.                                               *)
THEOREM UseTypeCorrect == UseSpec => []UseTypeOK
<1>1. UseIInv => UseTypeOK
  BY DEF UseIInv, Ordered, WellFormed, LastUse, UseTypeOK
<1> QED BY <1>1, UseInvariance, PTL

(* A cache never holds more than maxSize entries, whatever maxSize is.          *)
THEOREM SizeBounded == UseSpec => []SizeBound
<1>1. UseIInv => SizeBound
  BY DEF UseIInv
<1> QED BY <1>1, UseInvariance, PTL

(* What is cached was used more recently than what is not.                      *)
THEOREM RecentKept == UseSpec => []Recency
<1>1. UseIInv => Recency
  BY DEF UseIInv, Ordered, RecentIn, Recency
<1> QED BY <1>1, UseInvariance, PTL

--------------------------------------------------------------------------------
Documents == {Document[q] : q \in Queries}

\* A cache of parsed documents, and one of validations, in every reachable state.
ParsedOK(cache) ==
  /\ WellFormed(cache, Queries, Documents)
  /\ Cardinality(Cached(cache)) <= MaxSize
  /\ \A q \in Cached(cache) : Parsable(q) /\ Lookup(cache, q) = Document[q]

ValidatedOK(cache) ==
  /\ WellFormed(cache, Queries, BOOLEAN)
  /\ Cardinality(Cached(cache)) <= MaxSize
  /\ \A q \in Cached(cache) : Parsable(q) /\ Lookup(cache, q) = Document[q].valid

\* What a client waits for was accepted.
Accepted(c) ==
  /\ request[c] \in Requests
  /\ HasQuery(request[c])
  /\ document[c] = Document[request[c].query]
  /\ Allowed(request[c], document[c])

ClientsOK ==
  /\ stage \in [Clients -> {"idle", "context", "execution"}]
  /\ request \in [Clients -> Requests \cup {NoRequest}]
  /\ document \in [Clients -> Documents \cup {SyntaxError}]
  /\ response \in [Clients -> Responses]
  /\ \A c \in Clients : stage[c] # "idle" => Accepted(c)

IInv ==
  /\ ParsedOK(parseQueryCache)
  /\ ValidatedOK(validateCache)
  /\ ClientsOK

--------------------------------------------------------------------------------
(* The new caches: well-formed, bounded and empty.                              *)
LEMMA EmptyOK == ParsedOK(EmptyCache) /\ ValidatedOK(EmptyCache)
<1>1. Cardinality({}) = 0 /\ 0 <= MaxSize
  BY FS_EmptySet, MaxSizeAssumption
<1> QED BY <1>1, EmptyFacts DEF ParsedOK, ValidatedOK

(* parse() leaves the parse cache honest and bounded.                           *)
LEMMA QueryRememberedOK ==
  ASSUME ParsedOK(parseQueryCache), NEW q \in Queries
  PROVE  ParsedOK(QueryRemembered(q))
<1> DEFINE cache == parseQueryCache
           t == QueryRemembered(q)
<1>1. WellFormed(cache, Queries, Documents)
  BY DEF ParsedOK
<1>2. CASE IsCached(cache, q)
  <2>1. t = Touch(cache, q) /\ q \in Cached(cache)
    BY <1>2 DEF QueryRemembered, IsCached
  <2>2. WellFormed(t, Queries, Documents) /\ Cached(t) = Cached(cache)
    BY <1>1, <2>1, TouchFacts
  <2>3. \A j \in Cached(cache) : Lookup(t, j) = Lookup(cache, j)
    BY <1>1, <2>1, TouchValues
  <2> QED BY <2>2, <2>3 DEF ParsedOK
<1>3. CASE ~IsCached(cache, q) /\ Parsable(q)
  <2>1. t = Put(cache, q, Document[q]) /\ Document[q] \in Documents
    BY <1>3 DEF QueryRemembered, Documents
  <2>2. WellFormed(t, Queries, Documents) /\ Cardinality(Cached(t)) <= MaxSize
    BY <1>1, <2>1, PutFacts
  <2>3. \A j \in Cached(t) :
          \/ j = q /\ Lookup(t, j) = Document[q]
          \/ j \in Cached(cache) /\ Lookup(t, j) = Lookup(cache, j)
    BY <1>1, <2>1, PutValues
  <2> QED BY <1>3, <2>2, <2>3 DEF ParsedOK
<1>4. CASE ~IsCached(cache, q) /\ ~Parsable(q)
  BY <1>4 DEF QueryRemembered
<1> QED BY <1>2, <1>3, <1>4

(* The caches answer what parsing and validating anew would.                    *)
LEMMA CachesAnswer ==
  ASSUME ParsedOK(parseQueryCache), ValidatedOK(validateCache), NEW q \in Queries
  PROVE  /\ QueryParses(q) <=> Parsable(q)
         /\ ParsedQuery(q) = Document[q]
         /\ Validates(q) = Document[q].valid
BY DEF ParsedOK, ValidatedOK, QueryParses, ParsedQuery, Validates, IsCached

(* validate() leaves the validation cache honest and bounded.                   *)
LEMMA ValidationRememberedOK ==
  ASSUME ParsedOK(parseQueryCache), ValidatedOK(validateCache), NEW q \in Queries,
         Parsable(q)
  PROVE  ValidatedOK(ValidationRemembered(q))
<1> DEFINE cache == validateCache
           t == ValidationRemembered(q)
           v == ParsedQuery(q).valid
<1>1. WellFormed(cache, Queries, BOOLEAN)
  BY DEF ValidatedOK
<1>2. v = Document[q].valid
  BY CachesAnswer
<1>3. v \in BOOLEAN
  BY <1>2, RequestsAssumption DEF Parsable, IsDocument
<1>4. CASE IsCached(cache, q)
  <2>1. t = Touch(cache, q) /\ q \in Cached(cache)
    BY <1>4 DEF ValidationRemembered, IsCached
  <2>2. WellFormed(t, Queries, BOOLEAN) /\ Cached(t) = Cached(cache)
    BY <1>1, <2>1, TouchFacts
  <2>3. \A j \in Cached(cache) : Lookup(t, j) = Lookup(cache, j)
    BY <1>1, <2>1, TouchValues
  <2> QED BY <2>2, <2>3 DEF ValidatedOK
<1>5. CASE ~IsCached(cache, q)
  <2>1. t = Put(cache, q, v)
    BY <1>5 DEF ValidationRemembered
  <2>2. WellFormed(t, Queries, BOOLEAN) /\ Cardinality(Cached(t)) <= MaxSize
    BY <1>1, <1>3, <2>1, PutFacts
  <2>3. \A j \in Cached(t) :
          \/ j = q /\ Lookup(t, j) = v
          \/ j \in Cached(cache) /\ Lookup(t, j) = Lookup(cache, j)
    BY <1>1, <1>3, <2>1, PutValues
  <2> QED BY <1>2, <2>2, <2>3 DEF ValidatedOK
<1> QED BY <1>4, <1>5

(* What a request says is a string is one of the texts.                         *)
LEMMA QueryIsText ==
  ASSUME NEW r \in Requests, HasQuery(r)
  PROVE  r.query \in Queries
BY RequestsAssumption DEF HasQuery, IsRequest

(* Responses are among the documented ones.                                     *)
LEMMA ResponseTypes ==
  ASSUME NEW r
  PROVE  /\ Failed(r, "400") \in Responses
         /\ Failed(r, "500") \in Responses
         /\ Done(r) \in Responses
BY DEF Failed, Done, Responses

--------------------------------------------------------------------------------
(* A response leaves the other clients alone, and its own idle.                 *)
LEMMA RespondKeeps ==
  ASSUME ClientsOK, NEW c \in Clients, NEW resp \in Responses, Respond(c, resp)
  PROVE  ClientsOK'
BY DEF ClientsOK, Respond, Accepted, HasQuery, Allowed

(* The initial state satisfies the inductive invariant.                         *)
LEMMA InitInvariant == Init => IInv
<1> SUFFICES ASSUME Init PROVE IInv
  OBVIOUS
<1>1. ParsedOK(parseQueryCache) /\ ValidatedOK(validateCache)
  BY EmptyOK DEF Init
<1>2. ClientsOK
  BY DEF Init, ClientsOK, Responses
<1> QED BY <1>1, <1>2 DEF IInv

(* Every step preserves the inductive invariant.                                *)
LEMMA StepInvariant == IInv /\ [Next]_vars => IInv'
<1> SUFFICES ASSUME IInv, [Next]_vars PROVE IInv'
  OBVIOUS
<1> USE DEF IInv
<1>1. ASSUME NEW c \in Clients, NEW r \in Requests, RefuseMethod(c, r) PROVE IInv'
  <2>1. ClientsOK'
    BY <1>1, RespondKeeps DEF RefuseMethod, Responses
  <2>2. UNCHANGED caches
    BY <1>1 DEF RefuseMethod
  <2> QED BY <2>1, <2>2 DEF caches, ParsedOK, ValidatedOK
<1>2. ASSUME NEW c \in Clients, NEW r \in Requests, RefuseBody(c, r) PROVE IInv'
  <2>1. ClientsOK'
    BY <1>2, RespondKeeps, ResponseTypes DEF RefuseBody
  <2>2. UNCHANGED caches
    BY <1>2 DEF RefuseBody
  <2> QED BY <2>1, <2>2 DEF caches, ParsedOK, ValidatedOK
<1>3. ASSUME NEW c \in Clients, NEW r \in Requests, RefuseArgs(c, r) PROVE IInv'
  <2>1. ClientsOK'
    BY <1>3, RespondKeeps, ResponseTypes DEF RefuseArgs
  <2>2. ParsedOK(parseQueryCache)'
    BY <1>3, QueryIsText, QueryRememberedOK DEF RefuseArgs
  <2>3. UNCHANGED validateCache
    BY <1>3 DEF RefuseArgs
  <2> QED BY <2>1, <2>2, <2>3 DEF ValidatedOK
<1>4. ASSUME NEW c \in Clients, NEW r \in Requests, RefuseMutation(c, r) PROVE IInv'
  <2>1. ClientsOK'
    BY <1>4, RespondKeeps, ResponseTypes DEF RefuseMutation
  <2>2. ParsedOK(parseQueryCache)'
    BY <1>4, QueryIsText, QueryRememberedOK DEF RefuseMutation, Parses
  <2>3. UNCHANGED validateCache
    BY <1>4 DEF RefuseMutation
  <2> QED BY <2>1, <2>2, <2>3 DEF ValidatedOK
<1>5. ASSUME NEW c \in Clients, NEW r \in Requests, RefuseInvalid(c, r) PROVE IInv'
  <2>1. ClientsOK'
    BY <1>5, RespondKeeps, ResponseTypes DEF RefuseInvalid
  <2>2. r.query \in Queries /\ Parsable(r.query)
    BY <1>5, QueryIsText, CachesAnswer DEF RefuseInvalid, Parses
  <2>3. ParsedOK(parseQueryCache)'
    BY <1>5, <2>2, QueryRememberedOK DEF RefuseInvalid
  <2>4. ValidatedOK(validateCache)'
    BY <1>5, <2>2, ValidationRememberedOK DEF RefuseInvalid
  <2> QED BY <2>1, <2>3, <2>4
<1>6. ASSUME NEW c \in Clients, NEW r \in Requests, Accept(c, r) PROVE IInv'
  <2>1. HasQuery(r) /\ r.query \in Queries /\ Parsable(r.query)
    BY <1>6, QueryIsText, CachesAnswer DEF Accept, Parses
  <2>2. ParsedQuery(r.query) = Document[r.query]
    BY <2>1, CachesAnswer
  <2>3. Allowed(r, Document[r.query])
    BY <1>6, <2>2 DEF Accept
  <2>4. /\ stage' = [stage EXCEPT ![c] = "context"]
        /\ request' = [request EXCEPT ![c] = r]
        /\ document' = [document EXCEPT ![c] = Document[r.query]]
        /\ response' = response
    BY <1>6, <2>2 DEF Accept
  <2>5. Document[r.query] \in Documents
    BY <2>1 DEF Documents
  <2>6. Accepted(c)'
    BY <2>1, <2>3, <2>4 DEF ClientsOK, Accepted, HasQuery, Allowed
  <2>7. ASSUME NEW d \in Clients, d # c, stage'[d] # "idle" PROVE Accepted(d)'
    BY <2>4, <2>7 DEF ClientsOK, Accepted, HasQuery, Allowed
  <2>8. ClientsOK'
    BY <2>4, <2>5, <2>6, <2>7 DEF ClientsOK
  <2>9. ParsedOK(parseQueryCache)'
    BY <1>6, <2>1, QueryRememberedOK DEF Accept
  <2>10. ValidatedOK(validateCache)'
    BY <1>6, <2>1, ValidationRememberedOK DEF Accept
  <2> QED BY <2>8, <2>9, <2>10
<1>7. ASSUME NEW c \in Clients, ContextCreated(c) PROVE IInv'
  <2>1. ClientsOK'
    BY <1>7 DEF ContextCreated, ClientsOK, Accepted, HasQuery, Allowed
  <2> QED BY <1>7, <2>1 DEF ContextCreated, caches, ParsedOK, ValidatedOK
<1>8. ASSUME NEW c \in Clients, Executed(c) \/ ContextFails(c) \/ ExecutionFails(c)
      PROVE  IInv'
  <2>1. ClientsOK'
    BY <1>8, RespondKeeps, ResponseTypes DEF Executed, ContextFails, ExecutionFails
  <2>2. UNCHANGED caches
    BY <1>8 DEF Executed, ContextFails, ExecutionFails
  <2> QED BY <2>1, <2>2 DEF caches, ParsedOK, ValidatedOK
<1>9. CASE UNCHANGED vars
  BY <1>9 DEF vars, caches, ParsedOK, ValidatedOK, ClientsOK, Accepted, HasQuery, Allowed
<1> QED
  BY <1>1, <1>2, <1>3, <1>4, <1>5, <1>6, <1>7, <1>8, <1>9 DEF Next, Receive

(* The inductive invariant holds in every reachable state.                      *)
THEOREM Invariance == Spec => []IInv
BY InitInvariant, StepInvariant, PTL DEF Spec

--------------------------------------------------------------------------------
(* The fields of the parser and the requests in progress keep their types.      *)
THEOREM TypeCorrect == Spec => []TypeOK
<1>1. IInv => TypeOK
  BY DEF IInv, ParsedOK, ValidatedOK, WellFormed, ClientsOK, TypeOK, Documents
<1> QED BY <1>1, Invariance, PTL

(* The caches say what parsing and validating anew would say.                   *)
THEOREM HonestCaches == Spec => []CachesHonest
<1>1. IInv => CachesHonest
  BY DEF IInv, ParsedOK, ValidatedOK, CachesHonest
<1> QED BY <1>1, Invariance, PTL

(* No mutation is executed for a GET request.                                   *)
THEOREM MutationsArePosted == Spec => []NoMutationByGet
<1>1. IInv => NoMutationByGet
  BY DEF IInv, ClientsOK, Accepted, Allowed, NoMutationByGet
<1> QED BY <1>1, Invariance, PTL

--------------------------------------------------------------------------------
(* Refinement: the serving with caches implements the serving without.          *)

(* The instance's own copies of the notions of GraphQLRequests are the same.    *)
LEMMA SameNotions ==
  ASSUME NEW r, NEW q, NEW doc, NEW status
  PROVE  /\ Uncached!Parsable(q) = Parsable(q)
         /\ Uncached!ArgsParse(r) = ArgsParse(r)
         /\ Uncached!Allowed(r, doc) = Allowed(r, doc)
         /\ Uncached!Failed(r, status) = Failed(r, status)
         /\ Uncached!Done(r) = Done(r)
BY DEF Uncached!Parsable, Parsable, Uncached!ArgsParse, ArgsParse, Uncached!Allowed,
       Allowed, Uncached!Selected, Selected, Uncached!Failed, Failed, Uncached!Done, Done

(* The initial state is one of the abstract specification.                      *)
LEMMA InitRefines == Init => Uncached!Init
BY DEF Init, Uncached!Init

(* A request is refused by both, or accepted by both.                           *)
LEMMA AcceptableMeans ==
  ASSUME IInv, NEW r \in Requests
  PROVE  /\ Uncached!Acceptable(r) <=>
              Parses(r) /\ Allowed(r, ParsedQuery(r.query)) /\ Validates(r.query)
         /\ HasQuery(r) => ParsedQuery(r.query) = Document[r.query]
<1>1. CASE ~HasQuery(r)
  BY <1>1 DEF Uncached!Acceptable, HasQuery, Parses
<1>2. CASE HasQuery(r)
  <2>1. r.query \in Queries
    BY <1>2, QueryIsText
  <2>2. /\ QueryParses(r.query) <=> Parsable(r.query)
        /\ ParsedQuery(r.query) = Document[r.query]
        /\ Validates(r.query) = Document[r.query].valid
    BY <2>1, CachesAnswer DEF IInv
  <2>3. Uncached!Parsable(r.query) = Parsable(r.query)
    BY SameNotions
  <2>4. /\ Uncached!ArgsParse(r) = ArgsParse(r)
        /\ Uncached!Allowed(r, Document[r.query]) = Allowed(r, Document[r.query])
    BY SameNotions
  <2> QED BY <1>2, <2>2, <2>3, <2>4 DEF Uncached!Acceptable, HasQuery, Parses
<1> QED BY <1>1, <1>2

(* Every step is a step of the abstract specification or stutters.              *)
LEMMA StepRefines == IInv /\ [Next]_vars => [Uncached!Next]_Uncached!vars
<1> SUFFICES ASSUME IInv, [Next]_vars PROVE [Uncached!Next]_Uncached!vars
  OBVIOUS
<1>1. ASSUME NEW c \in Clients, NEW r \in Requests, RefuseMethod(c, r)
      PROVE  Uncached!Refuse(c, r)
  <2>1. ~Uncached!Acceptable(r)
    BY <1>1 DEF RefuseMethod, Uncached!Acceptable
  <2> QED BY <1>1, <2>1 DEF RefuseMethod, Receives, Respond, Uncached!Refuse, Uncached!Respond
<1>2. ASSUME NEW c \in Clients, NEW r \in Requests,
             \/ RefuseBody(c, r) \/ RefuseArgs(c, r)
             \/ RefuseMutation(c, r) \/ RefuseInvalid(c, r)
      PROVE  Uncached!Refuse(c, r)
  <2>1. ~Uncached!Acceptable(r)
    BY <1>2, AcceptableMeans
       DEF RefuseBody, RefuseArgs, RefuseMutation, RefuseInvalid, Parses
  <2>2. stage[c] = "idle" /\ r.method # "PUT" /\ Respond(c, Failed(r, "400"))
    BY <1>2 DEF RefuseBody, RefuseArgs, RefuseMutation, RefuseInvalid, Receives, HasQuery,
                Parses
  <2>3. Uncached!Failed(r, "400") = Failed(r, "400")
    BY SameNotions
  <2> QED BY <2>1, <2>2, <2>3 DEF Respond, Uncached!Refuse, Uncached!Respond
<1>3. ASSUME NEW c \in Clients, NEW r \in Requests, Accept(c, r)
      PROVE  Uncached!Accept(c, r)
  <2>1. Uncached!Acceptable(r) /\ ParsedQuery(r.query) = Document[r.query]
    BY <1>3, AcceptableMeans DEF Accept, Parses
  <2> QED BY <1>3, <2>1 DEF Accept, Receives, Uncached!Accept
<1>4. ASSUME NEW c \in Clients, ContextCreated(c) PROVE Uncached!ContextCreated(c)
  BY <1>4 DEF ContextCreated, Uncached!ContextCreated
<1>5. ASSUME NEW c \in Clients, Executed(c) PROVE Uncached!Executed(c)
  BY <1>5, SameNotions DEF Executed, Respond, Uncached!Executed, Uncached!Respond
<1>6. ASSUME NEW c \in Clients, ContextFails(c) \/ ExecutionFails(c)
      PROVE  Uncached!Fail(c)
  BY <1>6, SameNotions
     DEF ContextFails, ExecutionFails, Respond, Uncached!Fail, Uncached!Respond
<1>7. CASE UNCHANGED vars
  BY <1>7 DEF vars, Uncached!vars
<1> QED
  BY <1>1, <1>2, <1>3, <1>4, <1>5, <1>6, <1>7 DEF Next, Receive, Uncached!Next

(* Caching is invisible: serving with caches implements serving without them.   *)
THEOREM Refinement == Spec => ImplementsUncached
BY InitRefines, StepRefines, Invariance, PTL DEF Spec, ImplementsUncached, Uncached!Spec

================================================================================
