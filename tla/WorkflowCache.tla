--------------------------- MODULE WorkflowCache ----------------------------
(***************************************************************************)
(* The in-memory cache of workflow definitions (src/src/lib/cache.py), as  *)
(* operators from a cache to a cache.  Every method is synchronous code on *)
(* one event loop, so each call is one step of whoever makes it.           *)
(*                                                                         *)
(* A cache is a record                                                     *)
(*   order   the keys of _entries, least recently used first               *)
(*   entry   the object each key holds (an index into `objects`), 0: none  *)
(*   fresh   the entries whose expires_at is still ahead                   *)
(*   index   _path_index                                                   *)
(* An object is an ORM instance shared by reference with the request that  *)
(* loaded it: a record of the row's columns, and `lost` once its           *)
(* attributes were expired by a failed flush of that request's session;    *)
(* reading a lost object raises.                                           *)
(***************************************************************************)
EXTENDS Integers, Sequences

CONSTANTS
  Workflow,     \* workflow ids
  Path,         \* webhook paths
  None,         \* Python's None
  MaxSize       \* _max_size

ASSUME CacheAssumption ==
  /\ MaxSize \in Nat \ {0}
  /\ None \notin Path \cup Workflow

EmptyCache == [order |-> << >>, entry |-> [id \in Workflow |-> 0], fresh |-> {},
               index |-> [p \in Path |-> None]]

Has(cache, id) == cache.entry[id] # 0

\* The order without the key, which it has once.
Without(order, id) ==
  LET k == CHOOSE k \in 1..Len(order) : order[k] = id
  IN  [i \in 1..Len(order) - 1 |-> order[IF i < k THEN i ELSE i + 1]]

\* _remove_path_index of an entry that is there; it reads the object's path.
RemovePathIndex(cache, objects, id) ==
  LET path == objects[cache.entry[id]].path
  IN  IF path = None THEN cache ELSE [cache EXCEPT !.index[path] = None]

\* _remove raises, before it has changed anything, when the object is lost.
RemoveRaises(cache, objects, id) ==
  Has(cache, id) /\ objects[cache.entry[id]].lost

Remove(cache, objects, id) ==
  [RemovePathIndex(cache, objects, id) EXCEPT
     !.order = Without(@, id), !.entry[id] = 0, !.fresh = @ \ {id}]

\* Mistake: `>` for `>=`.
EvictLRU_late(cache) ==
  IF Len(cache.order) <= MaxSize THEN cache
  ELSE [cache EXCEPT !.order = Tail(@), !.entry[Head(cache.order)] = 0,
                     !.fresh = @ \ {Head(cache.order)}]

\* `while len(self._entries) >= self._max_size`: popitem takes the entry out
\* first, so the _remove_path_index after it finds none and leaves the index.
EvictLRU(cache) ==
  IF Len(cache.order) < MaxSize THEN cache
  ELSE LET keep == Len(cache.order) - MaxSize + 2
           kept == SubSeq(cache.order, keep, Len(cache.order))
           Kept(id) == \E i \in DOMAIN kept : kept[i] = id
       IN  [cache EXCEPT
              !.order = kept,
              !.entry = [id \in Workflow |-> IF Kept(id) THEN @[id] ELSE 0],
              !.fresh = {id \in @ : Kept(id)}]

\* set(workflow) of the object n.
SetRaises(cache, objects, n) == RemoveRaises(cache, objects, objects[n].id)

Set(cache, objects, n) ==
  LET id   == objects[n].id
      path == objects[n].path
      room == EvictLRU(IF Has(cache, id) THEN Remove(cache, objects, id)
                       ELSE cache)
  IN  [order |-> Append(room.order, id),
       entry |-> [room.entry EXCEPT ![id] = n],
       fresh |-> room.fresh \cup {id},
       index |-> IF path = None THEN room.index
                 ELSE [room.index EXCEPT ![path] = id]]

\* get_by_webhook_path: the key the index gives, if it still has an entry.
Found(cache, path) ==
  IF cache.index[path] = None THEN {}
  ELSE {id \in {cache.index[path]} : Has(cache, id)}

Hit(cache, path)     == Found(cache, path) \cap cache.fresh
Expired(cache, path) == Found(cache, path) \ cache.fresh

\* The two effects of a lookup: a hit moves the entry to the end, an expired
\* entry is removed.
Touch(cache, id) == [cache EXCEPT !.order = Append(Without(@, id), id)]

Invalidate(cache, objects, id) ==
  IF Has(cache, id) THEN Remove(cache, objects, id) ELSE cache
=============================================================================
