------------------------------- MODULE LRUCacheUse -------------------------------
(***************************************************************************)
(* An LRUCache in use: any sequence of get() and set() calls.              *)
(***************************************************************************)
EXTENDS LRUCache

CONSTANTS
  Keys,
  Values,
  MaxIndex      \* bound: how many hits and insertions there are in all

ASSUME MaxIndexAssumption == MaxIndex \in Nat

VARIABLES
  lru,          \* the cache
  last          \* history: the index at which a key was last hit or set, or -1

useVars == <<lru, last>>

UseInit ==
  /\ lru = EmptyCache
  /\ last = [k \in Keys |-> -1]

\* get(key) that hits; one that misses changes nothing.
Get(k) ==
  /\ lru.index < MaxIndex
  /\ IsCached(lru, k)
  /\ lru' = Touch(lru, k)
  /\ last' = [last EXCEPT ![k] = lru.index]

Set(k, v) ==
  /\ lru.index < MaxIndex
  /\ lru' = Put(lru, k, v)
  /\ last' = [last EXCEPT ![k] = lru.index]

UseNext == \E k \in Keys : Get(k) \/ \E v \in Values : Set(k, v)

UseSpec == UseInit /\ [][UseNext]_useVars

--------------------------------------------------------------------------------
(* Types of the fields of util/LRUCache.ts.                                     *)
UseTypeOK ==
  /\ IsCache(lru, Keys, Values)
  /\ last \in [Keys -> Nat \cup {-1}]

(* size() never exceeds maxSize, a maxSize of 0 included, although set() evicts *)
(* by the distance of indexes and not by counting entries.                      *)
SizeBound == Cardinality(Cached(lru)) <= MaxSize

(* Eviction respects the order of use: whatever is cached was used more         *)
(* recently than whatever is not, through any sequence of hits and insertions.  *)
Recency ==
  \A k \in Cached(lru), j \in Keys \ Cached(lru) : last[j] < last[k]

(* docs/server-side/performance.md:14-16 promises an LRU cache of a given size: *)
(* a key that was set is gone only if maxSize other keys were used since.       *)
KeepsMostRecent ==
  \A j \in Keys \ Cached(lru) :
    last[j] >= 0 => Cardinality({k \in Keys : last[k] > last[j]}) >= MaxSize

=================================================================================
