--------------------------------- MODULE LRUCache --------------------------------
(***************************************************************************)
(* util/LRUCache.ts as a data structure: a cache is a record of its map    *)
(* (key -> value and the index of its last use) and its running index.     *)
(***************************************************************************)
EXTENDS Integers, FiniteSets

CONSTANT MaxSize          \* this.maxSize

ASSUME MaxSizeAssumption == MaxSize \in Nat

\* The type of a cache.
IsCache(lru, Keys, Values) ==
  /\ lru = [map |-> lru.map, index |-> lru.index]
  /\ lru.index \in Nat
  /\ DOMAIN lru.map \subseteq Keys
  /\ lru.map \in [DOMAIN lru.map -> [value : Values, index : Nat]]

EmptyCache == [map |-> [k \in {} |-> {}], index |-> 0]

Cached(lru) == DOMAIN lru.map

IsCached(lru, k) == k \in Cached(lru)

Lookup(lru, k) == lru.map[k].value

Bug_Touch(lru, k) ==
  [lru EXCEPT !.index = @ + 1]

\* get(key) when the key is cached: its index is renewed.  A miss changes nothing.
Touch(lru, k) ==
  [map |-> [lru.map EXCEPT ![k].index = lru.index],
   index |-> lru.index + 1]

\* this.cache.set(key, ...)
Insert(lru, k, v) ==
  [map |-> [j \in Cached(lru) \cup {k} |->
              IF j = k THEN [value |-> v, index |-> lru.index] ELSE lru.map[j]],
   index |-> lru.index + 1]

Bug_Evict(lru) ==
  LET kept == {k \in Cached(lru) : lru.map[k].index >= lru.index - MaxSize - 1}
  IN  [lru EXCEPT !.map = [k \in kept |-> lru.map[k]]]

\* The loop at the end of set(): drop every entry below minIndex.
Evict(lru) ==
  LET kept == {k \in Cached(lru) : lru.map[k].index >= lru.index - MaxSize}
  IN  [lru EXCEPT !.map = [k \in kept |-> lru.map[k]]]

\* set(key, value)
Put(lru, k, v) ==
  LET inserted == Insert(lru, k, v)
  IN  IF Cardinality(Cached(inserted)) > MaxSize THEN Evict(inserted) ELSE inserted

=================================================================================
