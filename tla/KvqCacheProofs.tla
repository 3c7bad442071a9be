--------------------------- MODULE KvqCacheProofs ---------------------------
(***************************************************************************)
(* That the cache reads as a plain store and that a flush only moves the     *)
(* shared store forward, for keys of any length, any values and any number   *)
(* of other holders.  The invariant adds to the cached reads what a flush    *)
(* has written at each of its steps, and what is in the caller's hands       *)
(* between flush_changes and the writes it asks for.  The second half is     *)
(* about ordered lookups: the bytes of a key order as the numbers they       *)
(* stand for, and so get_leq_kv misses the greatest number asked for only    *)
(* where the cache makes it.                                                 *)
(***************************************************************************)
EXTENDS KvqCache, WellFoundedInduction, TLAPS

\* What the caller makes of the store with the changes it was handed.
Applied(k) ==
    IF k \in handed.removed THEN None
    ELSE IF k \in DOMAIN handed.set THEN handed.set[k] ELSE store[k]

\* Every entry is where a lookup finds it ...
Readable == handed = Nothing => \A k \in Keys : get_exact_if_exists(k) = promised[k]

\* ... or in the caller's hands, with an empty cache ...
InHand == handed # Nothing =>
    /\ map = Empty /\ pc = "idle"
    /\ \A k \in Keys : Applied(k) = promised[k]

\* ... and a flush that clears the cache has written all of it.
Written ==
    /\ pc \in {"delete", "clear"} =>
          \A k \in Keys : map[k] \notin {None, Removed} => store[k] = map[k]
    /\ pc = "clear" => \A k \in Keys : map[k] = Removed => store[k] = None

\* The inductive invariant of the cache.
CacheInv == TypeOK /\ Readable /\ InHand /\ Written

-----------------------------------------------------------------------------
\* A cache that reads as the plain store gives the same answers to every exact
\* lookup, alone or in a batch.
LEMMA ReadableSuffices == TypeOK /\ Readable => ReadsYourWrites
<1> SUFFICES ASSUME TypeOK, Readable, handed = Nothing
             PROVE  /\ \A k \in Keys :
                         /\ get_exact_if_exists(k) = promised[k]
                         /\ get_exact(k) = simple_get_exact(promised, k)
                         /\ is_removed(k) => promised[k] = None
                    /\ \A keys \in SUBSET Keys :
                         get_many_exact(keys) = simple_get_many_exact(promised, keys)
  BY DEF ReadsYourWrites
<1>1. ASSUME NEW k \in Keys
      PROVE  /\ get_exact_if_exists(k) = promised[k]
             /\ get_exact(k) = simple_get_exact(promised, k)
             /\ is_removed(k) => promised[k] = None
             /\ get_exact(k) = Err <=> promised[k] = None
             /\ get_exact(k) # Err => get_exact(k) = promised[k]
  BY KvqAssumption DEF TypeOK, Maps, Readable, get_exact_if_exists, get_exact,
                       simple_get_exact, is_removed
<1>2. ASSUME NEW keys \in SUBSET Keys
      PROVE  get_many_exact(keys) = simple_get_many_exact(promised, keys)
  <2>1. CASE \E k \in keys : promised[k] = None
    BY <1>1, <2>1 DEF get_many_exact, simple_get_many_exact
  <2>2. CASE \A k \in keys : promised[k] # None
    BY <1>1, <2>2 DEF get_many_exact, simple_get_many_exact
  <2> QED BY <2>1, <2>2
<1> QED BY <1>1, <1>2

\* KVQBinaryStoreCached::new over any store establishes the invariant.
LEMMA InitCacheInv == Init => CacheInv
<1> SUFFICES ASSUME Init PROVE CacheInv OBVIOUS
<1>1. Nothing \in [set : UNION {[S -> Values] : S \in SUBSET Keys}, removed : SUBSET Keys]
  <2>1. [k \in {} |-> None] \in [{} -> Values] OBVIOUS
  <2> QED BY <2>1 DEF Nothing
<1> QED BY <1>1, KvqAssumption DEF Init, CacheInv, TypeOK, Maps, Readable, InHand, Written,
                           Empty, get_exact_if_exists

\* Writes to the cache and to the plain store keep them equal: the owner's
\* calls change only map and promised, the same way for every key.
LEMMA OwnerWrites ==
    ASSUME CacheInv, Idle, NEW written \in SUBSET Keys,
           UNCHANGED <<store, pc, handed, locks>>,
           map' \in [Keys -> Values \cup {None, Removed}], promised' \in Maps,
           \A k \in Keys : k \notin written => map'[k] = map[k] /\ promised'[k] = promised[k],
           \A k \in written : \/ map'[k] = Removed /\ promised'[k] = None
                              \/ map'[k] \in Values /\ promised'[k] = map'[k]
    PROVE  CacheInv'
<1>1. TypeOK' BY DEF CacheInv, TypeOK
<1>2. Readable'
  BY KvqAssumption DEF CacheInv, TypeOK, Maps, Readable, Idle, get_exact_if_exists
<1>3. InHand' /\ Written' BY DEF Idle, InHand, Written
<1> QED BY <1>1, <1>2, <1>3 DEF CacheInv

\* set: one entry of the cache and of the plain store change alike.
LEMMA SetStep == ASSUME CacheInv, NEW key, NEW value \in Values, set(key, value)
                 PROVE  CacheInv'
<1> DEFINE written == {k \in Keys : k = key}
<1>1. map' \in [Keys -> Values \cup {None, Removed}] /\ promised' \in Maps
  BY DEF CacheInv, TypeOK, Maps, set, simple_set
<1>2. \A k \in Keys : k \notin written => map'[k] = map[k] /\ promised'[k] = promised[k]
  BY DEF CacheInv, TypeOK, Maps, set, simple_set
<1>3. \A k \in written : map'[k] \in Values /\ promised'[k] = map'[k]
  BY DEF CacheInv, TypeOK, Maps, set, simple_set
<1>4. Idle /\ UNCHANGED <<store, pc, handed, locks>> BY DEF set
<1>5. written \in SUBSET Keys OBVIOUS
<1> QED
  <2> HIDE DEF written
  <2> QED BY <1>1, <1>2, <1>3, <1>4, <1>5, OwnerWrites

\* set_many_ref: a batch does, too.
LEMMA SetManyStep ==
    ASSUME CacheInv, NEW S \in SUBSET Keys, NEW items \in [S -> Values], set_many_ref(items)
    PROVE  CacheInv'
<1>1. map' \in [Keys -> Values \cup {None, Removed}] /\ promised' \in Maps
  BY DEF CacheInv, TypeOK, Maps, set_many_ref, simple_set_many_ref
<1>2. \A k \in Keys : k \notin S => map'[k] = map[k] /\ promised'[k] = promised[k]
  BY DEF set_many_ref, simple_set_many_ref
<1>3. \A k \in S : map'[k] \in Values /\ promised'[k] = map'[k]
  BY DEF set_many_ref, simple_set_many_ref
<1>4. Idle /\ UNCHANGED <<store, pc, handed, locks>> BY DEF set_many_ref
<1> QED BY <1>1, <1>2, <1>3, <1>4, OwnerWrites

\* delete marks the entry as removed, whatever the store holds.
LEMMA DeleteStep == ASSUME CacheInv, NEW key, delete(key)
                    PROVE  CacheInv'
<1> DEFINE written == {k \in Keys : k = key}
<1>1. map' \in [Keys -> Values \cup {None, Removed}] /\ promised' \in Maps
  BY DEF CacheInv, TypeOK, Maps, delete, simple_delete
<1>2. \A k \in Keys : k \notin written => map'[k] = map[k] /\ promised'[k] = promised[k]
  BY DEF CacheInv, TypeOK, Maps, delete, simple_delete
<1>3. \A k \in written : map'[k] = Removed /\ promised'[k] = None
  BY DEF CacheInv, TypeOK, Maps, delete, simple_delete
<1>4. Idle /\ UNCHANGED <<store, pc, handed, locks>> BY DEF delete
<1>5. written \in SUBSET Keys OBVIOUS
<1> QED
  <2> HIDE DEF written
  <2> QED BY <1>1, <1>2, <1>3, <1>4, <1>5, OwnerWrites

\* delete_many marks every entry of the batch.
LEMMA DeleteManyStep == ASSUME CacheInv, NEW keys, delete_many(keys)
                        PROVE  CacheInv'
<1> DEFINE written == {k \in Keys : k \in keys}
<1>1. map' \in [Keys -> Values \cup {None, Removed}] /\ promised' \in Maps
  BY DEF CacheInv, TypeOK, Maps, delete_many, simple_delete_many
<1>2. \A k \in Keys : k \notin written => map'[k] = map[k] /\ promised'[k] = promised[k]
  BY DEF delete_many, simple_delete_many
<1>3. \A k \in written : map'[k] = Removed /\ promised'[k] = None
  BY DEF delete_many, simple_delete_many
<1>4. Idle /\ UNCHANGED <<store, pc, handed, locks>> BY DEF delete_many
<1>5. written \in SUBSET Keys OBVIOUS
<1> QED
  <2> HIDE DEF written
  <2> QED BY <1>1, <1>2, <1>3, <1>4, <1>5, OwnerWrites

\* Another holder's read lock changes nothing that is stored.
LEMMA LockStep == ASSUME CacheInv, NEW r \in Readers, read(r) \/ ReadDone(r)
                  PROVE  CacheInv'
<1>1. UNCHANGED <<store, map, pc, handed, promised>> /\ locks' \subseteq Readers
  BY DEF CacheInv, TypeOK, read, ReadDone
<1>2. TypeOK' BY <1>1 DEF CacheInv, TypeOK
<1>3. Readable' /\ InHand' /\ Written'
  BY <1>1 DEF CacheInv, Readable, InHand, Written, Applied, get_exact_if_exists
<1> QED BY <1>2, <1>3 DEF CacheInv

\* The first half of a flush writes the live entries: what is read from the
\* cache is now in the store as well.
LEMMA FlushSetsStep == ASSUME CacheInv, flush_simple
                       PROVE  CacheInv'
<1>1. \A k \in Keys : store'[k] = IF map[k] \notin {None, Removed} THEN map[k] ELSE store[k]
  BY DEF flush_simple, simple_set_many_ref, SetItems, get_non_removed_keys
<1>2. store' \in Maps
  BY DEF CacheInv, TypeOK, Maps, flush_simple, simple_set_many_ref, SetItems,
         get_non_removed_keys
<1>3. /\ pc' = "delete" /\ handed = Nothing
      /\ UNCHANGED <<map, handed, locks, promised>>
  BY DEF flush_simple, Idle
<1>4. TypeOK' BY <1>2, <1>3 DEF CacheInv, TypeOK
<1>5. Readable' BY <1>1, <1>3 DEF CacheInv, Readable, get_exact_if_exists
<1>6. InHand' /\ Written' BY <1>1, <1>3 DEF InHand, Written
<1> QED BY <1>4, <1>5, <1>6 DEF CacheInv

\* The second half removes the deleted ones.
LEMMA FlushDeletesStep == ASSUME CacheInv, FlushDeletes
                          PROVE  CacheInv'
<1>1. \A k \in Keys : store'[k] = IF map[k] = Removed THEN None ELSE store[k]
  BY DEF FlushDeletes, simple_delete_many, get_removed_keys
<1>2. store' \in Maps
  BY DEF CacheInv, TypeOK, Maps, FlushDeletes, simple_delete_many, get_removed_keys
<1>3. /\ pc = "delete" /\ pc' = "clear"
      /\ UNCHANGED <<map, handed, locks, promised>>
  BY DEF FlushDeletes
<1>4. handed = Nothing BY <1>3 DEF CacheInv, InHand
<1>5. TypeOK' BY <1>2, <1>3 DEF CacheInv, TypeOK
<1>6. Readable' BY <1>1, <1>3, <1>4, KvqAssumption DEF CacheInv, Readable, get_exact_if_exists
<1>7. InHand' BY <1>3, <1>4 DEF InHand
<1>8. Written' BY <1>1, <1>3 DEF CacheInv, Written
<1> QED BY <1>5, <1>6, <1>7, <1>8 DEF CacheInv

\* A flush that fails half way keeps the cache, so that it can be made again.
LEMMA FlushFailsStep == ASSUME CacheInv, FlushFails
                        PROVE  CacheInv'
<1>1. /\ pc = "delete" /\ pc' = "idle"
      /\ UNCHANGED <<store, map, handed, locks, promised>>
  BY DEF FlushFails
<1>2. handed = Nothing BY <1>1 DEF CacheInv, InHand
<1>3. TypeOK' BY <1>1 DEF CacheInv, TypeOK
<1>4. Readable' BY <1>1 DEF CacheInv, Readable, get_exact_if_exists
<1>5. InHand' /\ Written' BY <1>1, <1>2 DEF InHand, Written
<1> QED BY <1>3, <1>4, <1>5 DEF CacheInv

\* map.clear(): every cached entry is in the store by now.
LEMMA FlushClearsStep == ASSUME CacheInv, FlushClears
                         PROVE  CacheInv'
<1>1. /\ pc = "clear" /\ pc' = "idle" /\ map' = Empty
      /\ UNCHANGED <<store, handed, locks, promised>>
  BY DEF FlushClears
<1>2. handed = Nothing BY <1>1 DEF CacheInv, InHand
<1>3. TypeOK' BY <1>1 DEF CacheInv, TypeOK, Empty
<1>4. \A k \in Keys : store[k] = promised[k]
  BY <1>1, <1>2, KvqAssumption
     DEF CacheInv, TypeOK, Readable, Written, get_exact_if_exists
<1>5. Readable'
  BY <1>1, <1>4, KvqAssumption DEF Readable, Empty, get_exact_if_exists
<1>6. InHand' /\ Written' BY <1>1, <1>2 DEF InHand, Written
<1> QED BY <1>3, <1>5, <1>6 DEF CacheInv

\* flush_changes empties the cache into the caller's hands ...
LEMMA FlushChangesStep == ASSUME CacheInv, flush_changes
                          PROVE  CacheInv'
<1>1. /\ Idle /\ map' = Empty
      /\ handed' = [set |-> SetItems, removed |-> get_removed_keys]
      /\ UNCHANGED <<store, pc, locks, promised>>
  BY DEF flush_changes
<1>2. SetItems \in [get_non_removed_keys -> Values] /\ get_removed_keys \subseteq Keys
      /\ get_non_removed_keys \subseteq Keys
  BY DEF CacheInv, TypeOK, SetItems, get_non_removed_keys, get_removed_keys
<1>3. TypeOK'
  <2>1. SetItems \in UNION {[S -> Values] : S \in SUBSET Keys} BY <1>2
  <2> QED BY <1>1, <1>2, <2>1 DEF CacheInv, TypeOK, Empty
<1>4. \A k \in Keys : Applied(k)' = promised[k]
  <2> SUFFICES ASSUME NEW k \in Keys PROVE Applied(k)' = promised[k] OBVIOUS
  <2>1. get_exact_if_exists(k) = promised[k] BY <1>1 DEF CacheInv, Readable, Idle
  <2>2. handed'.removed = get_removed_keys /\ handed'.set = SetItems
        /\ DOMAIN SetItems = get_non_removed_keys /\ store' = store
    BY <1>1 DEF SetItems
  <2>3. Applied(k)' = IF k \in get_removed_keys THEN None
                      ELSE IF k \in get_non_removed_keys THEN SetItems[k] ELSE store[k]
    BY <2>2 DEF Applied
  <2> QED BY <2>1, <2>3, KvqAssumption
          DEF get_exact_if_exists, get_removed_keys, get_non_removed_keys, SetItems
<1>5. handed' # Nothing
  <2>1. get_non_removed_keys # {} \/ get_removed_keys # {} BY DEF flush_changes
  <2>2. DOMAIN Nothing.set = {} /\ Nothing.removed = {} BY DEF Nothing
  <2>3. DOMAIN handed'.set = get_non_removed_keys /\ handed'.removed = get_removed_keys
    BY <1>1 DEF SetItems
  <2> QED BY <2>1, <2>2, <2>3
<1>6. Readable' /\ InHand' /\ Written'
  BY <1>1, <1>4, <1>5 DEF Readable, InHand, Written, Idle
<1> QED BY <1>3, <1>6 DEF CacheInv

\* ... and the caller's writes bring the store up to date.
LEMMA ApplyChangesStep == ASSUME CacheInv, ApplyChanges
                          PROVE  CacheInv' /\ \A k \in Keys : store'[k] = promised[k]
<1>1. /\ handed # Nothing /\ handed' = Nothing /\ map = Empty /\ pc = "idle"
      /\ store' = simple_delete_many(simple_set_many_ref(store, handed.set), handed.removed)
      /\ UNCHANGED <<map, pc, locks, promised>>
  BY DEF CacheInv, InHand, ApplyChanges
<1>2. \A k \in Keys : store'[k] = Applied(k)
  BY <1>1 DEF simple_delete_many, simple_set_many_ref, Applied
<1>3. \A k \in Keys : store'[k] = promised[k] BY <1>1, <1>2 DEF CacheInv, InHand
<1>4. store' \in Maps
  <2>1. store' = [k \in Keys |-> store'[k]]
    BY <1>1 DEF simple_delete_many, simple_set_many_ref
  <2> QED BY <1>3, <2>1 DEF CacheInv, TypeOK, Maps
<1>5. TypeOK'
  <2>1. [k \in {} |-> None] \in [{} -> Values] OBVIOUS
  <2>2. Nothing \in [set : UNION {[S -> Values] : S \in SUBSET Keys}, removed : SUBSET Keys]
    BY <2>1 DEF Nothing
  <2> QED BY <1>1, <1>4, <2>2 DEF CacheInv, TypeOK
<1>6. Readable'
  BY <1>1, <1>3, KvqAssumption DEF Readable, Empty, get_exact_if_exists
<1>7. InHand' /\ Written' BY <1>1 DEF InHand, Written
<1> QED BY <1>3, <1>5, <1>6, <1>7 DEF CacheInv

\* Nothing changes.
LEMMA StutterStep == ASSUME CacheInv, UNCHANGED vars
                     PROVE  CacheInv'
<1>1. TypeOK' BY DEF CacheInv, TypeOK, vars
<1>2. Readable' /\ InHand' /\ Written'
  BY DEF CacheInv, vars, Readable, InHand, Written, Applied, get_exact_if_exists
<1> QED BY <1>1, <1>2 DEF CacheInv

\* Every step of the owner and of the other holders keeps the invariant.
LEMMA NextCacheInv == CacheInv /\ [Next]_vars => CacheInv'
<1> SUFFICES ASSUME CacheInv, [Next]_vars PROVE CacheInv' OBVIOUS
<1>1. CASE \E k \in Typed, v \in Values : adapter_set(k, v)
  BY <1>1, SetStep DEF adapter_set
<1>2. CASE \E k1, k2 \in Keys, v1, v2 \in Values :
             set_many_ref([k \in {k1, k2} |-> IF k = k2 THEN v2 ELSE v1])
  <2>1. PICK k1 \in Keys, k2 \in Keys, v1 \in Values, v2 \in Values :
             set_many_ref([k \in {k1, k2} |-> IF k = k2 THEN v2 ELSE v1])
    BY <1>2
  <2>2. [k \in {k1, k2} |-> IF k = k2 THEN v2 ELSE v1] \in [{k1, k2} -> Values] OBVIOUS
  <2>3. {k1, k2} \in SUBSET Keys OBVIOUS
  <2> QED BY <2>1, <2>2, <2>3, SetManyStep
<1>3. CASE \E k \in Typed : adapter_delete(k)
  BY <1>3, DeleteStep DEF adapter_delete
<1>4. CASE \E k1, k2 \in Typed : adapter_delete_many({k1, k2})
  BY <1>4, DeleteManyStep DEF adapter_delete_many
<1>5. CASE \E r \in Readers : read(r) \/ ReadDone(r) BY <1>5, LockStep
<1>6. CASE flush_simple BY <1>6, FlushSetsStep
<1>7. CASE FlushDeletes BY <1>7, FlushDeletesStep
<1>8. CASE FlushFails BY <1>8, FlushFailsStep
<1>9. CASE FlushClears BY <1>9, FlushClearsStep
<1>10. CASE flush_changes BY <1>10, FlushChangesStep
<1>11. CASE ApplyChanges BY <1>11, ApplyChangesStep
<1>12. CASE UNCHANGED vars BY <1>12, StutterStep
<1> QED
  BY <1>1, <1>2, <1>3, <1>4, <1>5, <1>6, <1>7, <1>8, <1>9, <1>10, <1>11, <1>12 DEF Next

\* The inductive invariant holds in every reachable state.
THEOREM CacheInvariant == Spec => []CacheInv
<1> QED BY InitCacheInv, NextCacheInv, PTL DEF Spec

\* The types of the cache, of the shared store and of what flush_changes hands
\* out, in every state of every instance.
THEOREM TypeCorrect == Spec => []TypeOK
<1>1. CacheInv => TypeOK BY DEF CacheInv
<1> QED BY <1>1, CacheInvariant, PTL

\* Through any sets, deletes, flushes and flushes that failed half way, every
\* exact lookup of the cache answers as a plain store with the same calls.
THEOREM CacheReadsYourWrites == Spec => []ReadsYourWrites
<1>1. CacheInv => ReadsYourWrites BY ReadableSuffices DEF CacheInv
<1> QED BY <1>1, CacheInvariant, PTL

\* Every step that changes an entry of the shared store changes it to what the
\* owner of the cache last set or deleted.
THEOREM FlushMovesForward == Spec => StoreMovesForward
<1>1. ASSUME CacheInv, [Next]_vars
      PROVE  [\A k \in Keys : store'[k] # store[k] => store'[k] = promised[k]]_vars
  <2>1. CASE store' = store BY <2>1
  <2>2. CASE flush_simple
    <3>1. handed = Nothing BY <2>2 DEF flush_simple, Idle
    <3>2. \A k \in Keys : get_exact_if_exists(k) = promised[k]
      BY <1>1, <3>1 DEF CacheInv, Readable
    <3>3. \A k \in Keys : store'[k] = IF map[k] \notin {None, Removed} THEN map[k] ELSE store[k]
      BY <2>2 DEF flush_simple, simple_set_many_ref, SetItems, get_non_removed_keys
    <3> QED BY <3>2, <3>3 DEF get_exact_if_exists
  <2>3. CASE FlushDeletes
    <3>1. handed = Nothing BY <1>1, <2>3 DEF FlushDeletes, CacheInv, InHand
    <3>2. \A k \in Keys : get_exact_if_exists(k) = promised[k]
      BY <1>1, <3>1 DEF CacheInv, Readable
    <3>3. \A k \in Keys : store'[k] = IF map[k] = Removed THEN None ELSE store[k]
      BY <2>3 DEF FlushDeletes, simple_delete_many, get_removed_keys
    <3> QED BY <3>2, <3>3 DEF get_exact_if_exists
  <2>4. CASE ApplyChanges BY <1>1, <2>4, ApplyChangesStep
  <2> QED
    BY <1>1, <2>1, <2>2, <2>3, <2>4
       DEF Next, vars, adapter_set, set, set_many_ref, adapter_delete, delete,
           adapter_delete_many, delete_many, read, ReadDone, FlushFails, FlushClears,
           flush_changes
<1>2. CacheInv /\ [Next]_vars =>
        [\A k \in Keys : store'[k] # store[k] => store'[k] = promised[k]]_vars
  BY <1>1
<1> QED BY <1>2, CacheInvariant, PTL DEF Spec, StoreMovesForward

\* Through the same calls, every range read through the cache holds exactly the
\* entries a plain store would hold, each once.
THEOREM RangesAreExact == Spec => []RangeIsExact
<1>1. ASSUME CacheInv, handed = Nothing, NEW key \in Keys, NEW fuzzy \in 0..KeyLen
      PROVE  get_fuzzy_range_leq_kv(key, fuzzy)
                 = simple_get_fuzzy_range_leq_kv(promised, key, fuzzy)
  <2> DEFINE R == InRange(key, fuzzy)
             live == R \cap get_non_removed_keys
             kept == {k \in R : store[k] # None /\ map[k] = None}
             wanted == {k \in R : promised[k] # None}
  <2>1. ~(fuzzy > KeyLen) /\ R \subseteq Keys
    BY KvqAssumption DEF InRange
  <2>2. \A k \in Keys : get_exact_if_exists(k) = promised[k]
    BY <1>1 DEF CacheInv, Readable
  <2>3. \A k \in live : k \in wanted /\ map[k] = promised[k]
    BY <2>1, <2>2 DEF get_exact_if_exists, get_non_removed_keys
  <2>4. \A k \in kept : k \in wanted /\ store[k] = promised[k]
    BY <2>1, <2>2, KvqAssumption DEF get_exact_if_exists
  <2>5. \A k \in wanted : k \in live \/ k \in kept
    BY <2>1, <2>2, KvqAssumption DEF get_exact_if_exists, get_non_removed_keys
  <2>6. simple_get_fuzzy_range_leq_kv(promised, key, fuzzy)
          = {KVQPair(k, promised[k]) : k \in wanted}
    BY <2>1 DEF simple_get_fuzzy_range_leq_kv, Present
  <2>7. {p \in simple_get_fuzzy_range_leq_kv(store, key, fuzzy) : map[p.key] = None}
          = {KVQPair(k, store[k]) : k \in kept}
    BY <2>1 DEF simple_get_fuzzy_range_leq_kv, Present, KVQPair
  <2>8. get_fuzzy_range_leq_kv(key, fuzzy)
          = {KVQPair(k, map[k]) : k \in live} \cup {KVQPair(k, store[k]) : k \in kept}
    BY <2>7 DEF get_fuzzy_range_leq_kv
  <2> HIDE DEF R, live, kept, wanted
  <2> QED
    BY <2>3, <2>4, <2>5, <2>6, <2>8
<1>2. CacheInv => RangeIsExact
  BY <1>1 DEF RangeIsExact
<1> QED
  BY <1>2, CacheInvariant, PTL

-----------------------------------------------------------------------------
(* Numbers and their bytes *)

\* A set of numbers has a least one.
LEMMA LeastNumber ==
    ASSUME NEW T, T \subseteq Nat, T # {}
    PROVE  \E x \in T : \A y \in T : x <= y
<1> DEFINE R == OpToRel(<, Nat)
<1>1. IsWellFoundedOn(R, Nat)
  BY NatLessThanWellFounded
<1>2. \A x, y \in Nat : <<y, x>> \in R <=> y < x
  BY DEF OpToRel
<1> HIDE DEF R
<1>3. PICK x \in T : \A y \in T : ~(<<y, x>> \in R)
  BY <1>1, WFMin, Zenon
<1>4. \A y \in T : ~(y < x)
  BY <1>2, <1>3, Zenon
<1> QED
  BY <1>4

\* A set that holds 0 and with each number the next holds all.
LEMMA Induction ==
    ASSUME NEW T, 0 \in T, \A n \in Nat : n \in T => n + 1 \in T
    PROVE  \A n \in Nat : n \in T
<1> SUFFICES ASSUME Nat \ T # {} PROVE FALSE
  OBVIOUS
<1>1. PICK m \in Nat \ T : \A y \in Nat \ T : m <= y
  BY LeastNumber, Zenon
<1>2. m - 1 \in Nat /\ m - 1 \notin Nat \ T
  BY <1>1
<1> QED
  BY <1>1, <1>2

\* Two functions that start alike and agree on each number if they agree on
\* the one before agree.
LEMMA Agreement ==
    ASSUME NEW f, NEW g, NEW n \in Nat, f[0] = g[0],
           \A k \in 1..n : f[k-1] = g[k-1] => f[k] = g[k]
    PROVE  f[n] = g[n]
<1> DEFINE T == {k \in Nat : k <= n => f[k] = g[k]}
<1>1. 0 \in T
  OBVIOUS
<1>2. ASSUME NEW k \in Nat, k \in T PROVE k + 1 \in T
  <2> SUFFICES ASSUME k + 1 <= n PROVE f[k + 1] = g[k + 1]
    OBVIOUS
  <2>1. k + 1 \in 1..n /\ (k + 1) - 1 = k /\ f[k] = g[k]
    BY <1>2
  <2> QED
    BY <2>1
<1>3. n \in T
  <2> HIDE DEF T
  <2> QED
    BY <1>1, <1>2, Induction
<1> QED
  BY <1>3

\* f holds the values after each round.
Iterates(f, S, base, F) ==
    f \in [Nat -> S] /\ f[0] = base /\ \A k \in Nat : f[k + 1] = F[k][f[k]]

\* A value and one function per round give the values after each round.
LEMMA Iteration ==
    ASSUME NEW S, NEW base \in S, NEW F \in [Nat -> [S -> S]]
    PROVE  \E f : Iterates(f, S, base, F)
<1> DEFINE Is(f, n) == f[0] = base /\ \A k \in Nat : k < n => f[k + 1] = F[k][f[k]]
           T == {n \in Nat : \E f \in [Nat -> S] : Is(f, n)}
           some(n) == CHOOSE f \in [Nat -> S] : Is(f, n)
           all == [n \in Nat |-> some(n)[n]]
<1>1. 0 \in T
  <2>1. [k \in Nat |-> base] \in [Nat -> S] /\ Is([k \in Nat |-> base], 0)
    OBVIOUS
  <2> QED
    BY <2>1
<1>2. ASSUME NEW n \in Nat, n \in T PROVE n + 1 \in T
  <2>1. PICK f \in [Nat -> S] : Is(f, n)
    BY <1>2
  <2> DEFINE g == [f EXCEPT ![n + 1] = F[n][f[n]]]
  <2>2. F[n] \in [S -> S] /\ f[n] \in S
    OBVIOUS
  <2>3. g \in [Nat -> S]
    BY <2>2
  <2>4. g[0] = base
    BY <2>1
  <2>5. \A k \in Nat : k < n + 1 => g[k + 1] = F[k][g[k]]
    BY <2>1
  <2>6. Is(g, n + 1)
    BY <2>4, <2>5
  <2> HIDE DEF g, Is
  <2> QED
    BY <2>3, <2>6
<1>3. \A n \in Nat : n \in T
  <2> HIDE DEF T
  <2> QED
    BY <1>1, <1>2, Induction
<1>4. \A n \in Nat : some(n) \in [Nat -> S] /\ Is(some(n), n)
  BY <1>3
<1> HIDE DEF some
<1>5. ASSUME NEW n \in Nat PROVE some(n)[n] = some(n + 1)[n]
  <2>1. \A k \in 1..n : k - 1 \in Nat /\ k - 1 < n /\ k - 1 < n + 1 /\ k - 1 + 1 = k
    OBVIOUS
  <2>2. some(n)[0] = some(n + 1)[0]
    BY <1>4
  <2>3. ASSUME NEW k \in 1..n, some(n)[k-1] = some(n + 1)[k-1]
        PROVE  some(n)[k] = some(n + 1)[k]
    BY <1>4, <2>1, <2>3
  <2> QED
    BY <2>2, <2>3, Agreement
<1>6. all \in [Nat -> S] /\ all[0] = base
  BY <1>4
<1>7. ASSUME NEW k \in Nat PROVE all[k + 1] = F[k][all[k]]
  <2>1. some(k + 1)[k + 1] = F[k][some(k + 1)[k]]
    BY <1>4
  <2> QED
    BY <1>5, <2>1
<1> HIDE DEF all
<1> QED
  BY <1>6, <1>7 DEF Iterates

\* The quotient and the remainder of a division by the radix.
LEMMA Division ==
    ASSUME NEW n \in Nat
    PROVE  /\ n \div Radix \in Nat /\ n % Radix \in 0..(Radix - 1)
           /\ n = Radix * (n \div Radix) + (n % Radix)
<1>1. Radix \in Nat /\ Radix > 1
  BY KvqAssumption
<1> QED
  BY <1>1

\* They are the only ones.
LEMMA DivisionUnique ==
    ASSUME NEW q \in Nat, NEW d \in 0..(Radix - 1)
    PROVE  (Radix * q + d) \div Radix = q /\ (Radix * q + d) % Radix = d
<1>1. Radix \in Nat /\ Radix > 1
  BY KvqAssumption
<1> QED
  BY <1>1

\* A number below another has no greater quotient.
LEMMA DivisionMonotone ==
    ASSUME NEW a \in Nat, NEW b \in Nat, a <= b
    PROVE  a \div Radix <= b \div Radix
<1>1. Radix \in Nat /\ Radix > 1
  BY KvqAssumption
<1> QED
  BY <1>1

\* A number below Radix * p has a quotient below p.
LEMMA DivisionBound ==
    ASSUME NEW a \in Nat, NEW p \in Nat, a < Radix * p
    PROVE  a \div Radix < p
<1>1. Radix \in Nat /\ Radix > 1
  BY KvqAssumption
<1> QED
  BY <1>1

\* Shifted divides once per byte.
LEMMA Shifts ==
    ASSUME NEW i \in Nat
    PROVE  /\ Shifted(i, 0) = i
           /\ \A n \in Nat : Shifted(i, n) \in Nat /\ Shifted(i, n + 1) = Shifted(i, n) \div Radix
<1> DEFINE F == [k \in Nat |-> [h \in Nat |-> h \div Radix]]
           Is(g, n) == g = [k \in 0..n |-> IF k = 0 THEN i ELSE g[k-1] \div Radix]
           some(n) == CHOOSE g : Is(g, n)
<1>1. F \in [Nat -> [Nat -> Nat]]
  BY Division
<1>2. \A k \in Nat, h \in Nat : F[k][h] = h \div Radix
  OBVIOUS
<1> HIDE DEF F
<1>3. PICK f : Iterates(f, Nat, i, F)
  BY <1>1, Iteration, Zenon
<1>4. f \in [Nat -> Nat] /\ f[0] = i /\ \A k \in Nat : f[k + 1] = f[k] \div Radix
  BY <1>2, <1>3 DEF Iterates
<1>5. ASSUME NEW n \in Nat PROVE Shifted(i, n) = f[n]
  <2> DEFINE r == [k \in 0..n |-> f[k]]
  <2>1. \A k \in 1..n : k - 1 \in Nat /\ k - 1 \in 0..n /\ k - 1 + 1 = k
    OBVIOUS
  <2>2. Is(r, n)
    <3>1. ASSUME NEW k \in 0..n PROVE r[k] = IF k = 0 THEN i ELSE r[k-1] \div Radix
      <4>1. CASE k = 0
        BY <1>4, <4>1
      <4>2. CASE k \in 1..n
        <5>1. f[k] = f[k-1] \div Radix /\ r[k-1] = f[k-1] /\ r[k] = f[k]
          BY <1>4, <2>1, <4>2
        <5> QED
          BY <4>2, <5>1
      <4> QED
        BY <4>1, <4>2
    <3>2. r = [k \in 0..n |-> r[k]]
      OBVIOUS
    <3> HIDE DEF r
    <3> QED
      BY <3>1, <3>2
  <2>3. Is(some(n), n)
    <3> HIDE DEF r, Is
    <3> QED
      BY <2>2
  <2>4. Shifted(i, n) = some(n)[n]
    BY DEF Shifted
  <2> HIDE DEF some
  <2>5. some(n)[0] = f[0]
    BY <1>4, <2>3
  <2>6. \A k \in 1..n : some(n)[k] = some(n)[k-1] \div Radix
    BY <2>3
  <2>7. \A k \in 1..n : f[k] = f[k-1] \div Radix
    BY <1>4, <2>1
  <2> QED
    BY <2>4, <2>5, <2>6, <2>7, Agreement
<1> QED
  BY <1>4, <1>5

\* Power multiplies once per byte.
LEMMA Powers ==
    /\ Power(0) = 1
    /\ \A n \in Nat : Power(n) \in Nat /\ Power(n + 1) = Radix * Power(n)
<1>1. Radix \in Nat
  BY KvqAssumption
<1> DEFINE F == [k \in Nat |-> [h \in Nat |-> Radix * h]]
           Is(g, n) == g = [k \in 0..n |-> IF k = 0 THEN 1 ELSE Radix * g[k-1]]
           some(n) == CHOOSE g : Is(g, n)
<1>0. F \in [Nat -> [Nat -> Nat]]
  BY <1>1
<1>2. \A k \in Nat, h \in Nat : F[k][h] = Radix * h
  OBVIOUS
<1> HIDE DEF F
<1>3. PICK f : Iterates(f, Nat, 1, F)
  BY <1>0, Iteration, Zenon
<1>4. f \in [Nat -> Nat] /\ f[0] = 1 /\ \A k \in Nat : f[k + 1] = Radix * f[k]
  BY <1>2, <1>3 DEF Iterates
<1>5. ASSUME NEW n \in Nat PROVE Power(n) = f[n]
  <2> DEFINE r == [k \in 0..n |-> f[k]]
  <2>1. \A k \in 1..n : k - 1 \in Nat /\ k - 1 \in 0..n /\ k - 1 + 1 = k
    OBVIOUS
  <2>2. Is(r, n)
    <3>1. ASSUME NEW k \in 0..n PROVE r[k] = IF k = 0 THEN 1 ELSE Radix * r[k-1]
      <4>1. CASE k = 0
        BY <1>4, <4>1
      <4>2. CASE k \in 1..n
        <5>1. f[k] = Radix * f[k-1] /\ r[k-1] = f[k-1] /\ r[k] = f[k]
          BY <1>4, <2>1, <4>2
        <5> QED
          BY <4>2, <5>1
      <4> QED
        BY <4>1, <4>2
    <3>2. r = [k \in 0..n |-> r[k]]
      OBVIOUS
    <3> HIDE DEF r
    <3> QED
      BY <3>1, <3>2
  <2>3. Is(some(n), n)
    <3> HIDE DEF r, Is
    <3> QED
      BY <2>2
  <2>4. Power(n) = some(n)[n]
    BY DEF Power
  <2> HIDE DEF some
  <2>5. some(n)[0] = f[0]
    BY <1>4, <2>3
  <2>6. \A k \in 1..n : some(n)[k] = Radix * some(n)[k-1]
    BY <2>3
  <2>7. \A k \in 1..n : f[k] = Radix * f[k-1]
    BY <1>4, <2>1
  <2> QED
    BY <2>4, <2>5, <2>6, <2>7, Agreement
<1> QED
  BY <1>4, <1>5

\* The constants' types, one by one.
LEMMA KvqTypes == Radix \in Nat /\ Radix > 1 /\ KeyLen \in Nat /\ KeyLen >= 1
BY KvqAssumption

\* A number of KeyLen bytes is used up after KeyLen bytes.
LEMMA ShiftsFit ==
    ASSUME NEW n \in Typed
    PROVE  n \in Nat /\ Shifted(n, KeyLen) = 0
<1> DEFINE T == {l \in Nat : l <= KeyLen => Shifted(n, l) < Power(KeyLen - l)}
<1>1. Power(KeyLen) \in Nat
  BY Powers, KvqTypes
<1>2. n \in Nat /\ n < Power(KeyLen)
  BY <1>1 DEF Typed
<1>3. 0 \in T
  <2>1. KeyLen - 0 = KeyLen /\ Shifted(n, 0) = n
    BY <1>2, Shifts, KvqTypes
  <2> QED
    BY <1>2, <2>1
<1>4. ASSUME NEW l \in Nat, l \in T PROVE l + 1 \in T
  <2>1. SUFFICES ASSUME l + 1 <= KeyLen PROVE Shifted(n, l + 1) < Power(KeyLen - (l + 1))
    OBVIOUS
  <2> DEFINE p == KeyLen - (l + 1)
  <2>2. p \in Nat /\ p + 1 = KeyLen - l /\ l <= KeyLen
    BY <2>1, KvqTypes
  <2> HIDE DEF p
  <2>3. Power(p) \in Nat /\ Power(p + 1) = Radix * Power(p)
    BY <2>2, Powers
  <2>4. Shifted(n, l) \in Nat /\ Shifted(n, l + 1) = Shifted(n, l) \div Radix
    BY <1>2, Shifts
  <2>5. Shifted(n, l) < Radix * Power(p)
    BY <1>4, <2>2, <2>3
  <2>6. Shifted(n, l) \div Radix < Power(p)
    BY <2>3, <2>4, <2>5, DivisionBound
  <2> QED
    BY <2>4, <2>6 DEF p
<1>5. \A l \in Nat : l \in T
  <2> HIDE DEF T
  <2> QED
    BY <1>3, <1>4, Induction
<1>6. KeyLen \in T /\ KeyLen - KeyLen = 0
  BY <1>5, KvqTypes
<1>7. Shifted(n, KeyLen) < Power(0)
  BY <1>6
<1>8. Shifted(n, KeyLen) \in Nat
  BY <1>2, Shifts, KvqTypes
<1> QED
  BY <1>2, <1>7, <1>8, Powers

\* Shifting keeps the order.
LEMMA ShiftMonotone ==
    ASSUME NEW a \in Nat, NEW b \in Nat, a <= b
    PROVE  \A l \in Nat : Shifted(a, l) <= Shifted(b, l)
<1> DEFINE T == {l \in Nat : Shifted(a, l) <= Shifted(b, l)}
<1>1. 0 \in T
  BY Shifts
<1>2. ASSUME NEW l \in Nat, l \in T PROVE l + 1 \in T
  <2>1. /\ Shifted(a, l) \in Nat /\ Shifted(a, l + 1) = Shifted(a, l) \div Radix
        /\ Shifted(b, l) \in Nat /\ Shifted(b, l + 1) = Shifted(b, l) \div Radix
    BY Shifts
  <2>2. Shifted(a, l) \div Radix <= Shifted(b, l) \div Radix
    BY <1>2, <2>1, DivisionMonotone
  <2> QED
    BY <2>1, <2>2
<1>3. \A l \in Nat : l \in T
  <2> HIDE DEF T
  <2> QED
    BY <1>1, <1>2, Induction
<1> QED
  BY <1>3

\* A number's bytes are a key.
LEMMA BytesType ==
    ASSUME NEW n \in Nat
    PROVE  /\ to_bytes(n) \in Keys
           /\ \A i \in 1..KeyLen : to_bytes(n)[i] = Shifted(n, KeyLen - i) % Radix
<1>1. ASSUME NEW i \in 1..KeyLen PROVE Shifted(n, KeyLen - i) % Radix \in 0..(Radix - 1)
  <2>1. KeyLen - i \in Nat
    BY KvqTypes
  <2>2. Shifted(n, KeyLen - i) \in Nat
    BY <2>1, Shifts
  <2> QED
    BY <2>2, Division
<1> QED
  BY <1>1 DEF to_bytes, Keys

\* Big endian: the order of the numbers is the order of their bytes.
LEMMA BytesOrder ==
    ASSUME NEW m \in Typed, NEW n \in Typed, m < n
    PROVE  KeyLess(to_bytes(m), to_bytes(n))
<1> DEFINE T == {l \in Nat : \A k \in Nat : k >= l /\ k <= KeyLen => Shifted(m, k) = Shifted(n, k)}
<1>1. m \in Nat /\ n \in Nat /\ Shifted(m, KeyLen) = 0 /\ Shifted(n, KeyLen) = 0
  BY ShiftsFit
<1>2. KeyLen \in T
  <2>1. \A k \in Nat : k >= KeyLen /\ k <= KeyLen => k = KeyLen
    BY KvqTypes
  <2> QED
    BY <1>1, <2>1, KvqTypes
<1>3. PICK x \in T : \A y \in T : x <= y
  <2>1. T \subseteq Nat /\ T # {}
    BY <1>2
  <2> HIDE DEF T
  <2> QED
    BY <2>1, LeastNumber, Zenon
<1>4. x \in Nat /\ \A k \in Nat : k >= x /\ k <= KeyLen => Shifted(m, k) = Shifted(n, k)
  BY <1>3
<1>5. x <= KeyLen /\ x # 0
  <2>1. x <= KeyLen
    BY <1>2, <1>3
  <2>2. x # 0
    <3>1. SUFFICES ASSUME x = 0 PROVE FALSE
      OBVIOUS
    <3>2. Shifted(m, 0) = Shifted(n, 0)
      BY <1>4, <3>1, KvqTypes
    <3> QED
      BY <1>1, <3>2, Shifts
  <2> QED
    BY <2>1, <2>2
<1> DEFINE l == x - 1
           i == KeyLen - l
<1>6. /\ l \in Nat /\ l + 1 = x /\ l < KeyLen /\ i \in 1..KeyLen /\ KeyLen - i = l
  BY <1>4, <1>5, KvqTypes
<1>7. Shifted(m, l) # Shifted(n, l)
  <2>1. l \notin T
    BY <1>3, <1>6
  <2>2. PICK k \in Nat : k >= l /\ k <= KeyLen /\ Shifted(m, k) # Shifted(n, k)
    BY <1>6, <2>1
  <2>3. k = l
    BY <1>4, <1>6, <2>2
  <2> QED
    BY <2>2, <2>3
<1> HIDE DEF T, l, i
<1> DEFINE sm == Shifted(m, l)
           sn == Shifted(n, l)
<1>8. sm \in Nat /\ sn \in Nat /\ sm < sn
  <2>1. sm \in Nat /\ sn \in Nat
    BY <1>1, <1>6, Shifts
  <2>2. sm <= sn
    BY <1>1, <1>6, ShiftMonotone
  <2> QED
    BY <1>7, <2>1, <2>2
<1>9. sm \div Radix = sn \div Radix
  <2>1. Shifted(m, l + 1) = sm \div Radix /\ Shifted(n, l + 1) = sn \div Radix
    BY <1>1, <1>6, Shifts
  <2>2. Shifted(m, x) = Shifted(n, x)
    BY <1>4, <1>5
  <2> QED
    BY <1>6, <2>1, <2>2
<1> HIDE DEF sm, sn
<1>10. sm % Radix < sn % Radix
  <2> DEFINE q == sm \div Radix
  <2>1. /\ q \in Nat /\ sm = Radix * q + (sm % Radix) /\ sm % Radix \in 0..(Radix - 1)
    BY <1>8, Division
  <2>2. sn = Radix * q + (sn % Radix) /\ sn % Radix \in 0..(Radix - 1)
    BY <1>8, <1>9, Division
  <2> DEFINE dm == sm % Radix
             dn == sn % Radix
             rq == Radix * q
  <2>3. dm \in Nat /\ dn \in Nat /\ rq \in Nat /\ sm = rq + dm /\ sn = rq + dn
    BY <2>1, <2>2, KvqTypes
  <2> HIDE DEF q, dm, dn, rq
  <2>4. dm < dn
    BY <1>8, <2>3
  <2> QED
    BY <2>4 DEF dm, dn
<1>11. to_bytes(m)[i] < to_bytes(n)[i]
  <2>1. to_bytes(m)[i] = sm % Radix /\ to_bytes(n)[i] = sn % Radix
    BY <1>1, <1>6, BytesType DEF sm, sn
  <2> QED
    BY <1>10, <2>1
<1>12. ASSUME NEW j \in 1..(i - 1) PROVE to_bytes(m)[j] = to_bytes(n)[j]
  <2>1. j \in 1..KeyLen /\ KeyLen - j \in Nat /\ KeyLen - j >= x /\ KeyLen - j <= KeyLen
    <3>1. i \in Nat /\ i <= KeyLen /\ j \in Nat /\ j >= 1 /\ j <= i - 1
      BY <1>6, KvqTypes
    <3> QED
      BY <1>6, <3>1, KvqTypes
  <2>2. Shifted(m, KeyLen - j) = Shifted(n, KeyLen - j)
    BY <1>4, <2>1
  <2> QED
    BY <1>1, <2>1, <2>2, BytesType
<1> QED
  BY <1>6, <1>11, <1>12 DEF KeyLess

\* The order of keys has no two keys below each other.
LEMMA KeyLessAsymmetric ==
    ASSUME NEW a \in Keys, NEW b \in Keys, KeyLess(a, b)
    PROVE  ~KeyLess(b, a) /\ a # b
<1>1. PICK i \in 1..KeyLen : a[i] < b[i] /\ \A j \in 1..(i - 1) : a[j] = b[j]
  BY DEF KeyLess
<1>2. \A j \in 1..KeyLen : a[j] \in Nat /\ b[j] \in Nat
  BY KvqTypes DEF Keys
<1>3. a # b
  BY <1>1, <1>2
<1>4. ASSUME NEW k \in 1..KeyLen, b[k] < a[k], \A j \in 1..(k - 1) : b[j] = a[j]
      PROVE  FALSE
  <2>1. i \in Nat /\ k \in Nat /\ i >= 1 /\ k >= 1
    BY KvqTypes
  <2>2. CASE k < i
    <3>1. k \in 1..(i - 1)
      BY <2>1, <2>2
    <3> QED
      BY <1>1, <1>2, <1>4, <3>1
  <2>3. CASE i < k
    <3>1. i \in 1..(k - 1)
      BY <2>1, <2>3
    <3> QED
      BY <1>1, <1>2, <1>4, <3>1
  <2>4. CASE i = k
    BY <1>1, <1>2, <1>4, <2>4
  <2> QED
    BY <2>1, <2>2, <2>3, <2>4
<1> QED
  BY <1>3, <1>4 DEF KeyLess

\* Keys with the same bytes are the same key.
LEMMA KeyEquality ==
    ASSUME NEW a \in Keys, NEW b \in Keys, \A i \in 1..KeyLen : a[i] = b[i]
    PROVE  a = b
<1> DEFINE I == 1..KeyLen
           S == 0..(Radix - 1)
<1>1. a \in [I -> S] /\ b \in [I -> S] /\ \A i \in I : a[i] = b[i]
  BY DEF Keys
<1> HIDE DEF I, S
<1> QED
  BY <1>1

\* Every key is the bytes of a number.
LEMMA BytesOnto ==
    ASSUME NEW key \in Keys
    PROVE  \E n \in Typed : to_bytes(n) = key
<1> DEFINE d == [i \in Nat |-> IF i \in 1..KeyLen THEN key[i] ELSE 0]
           F == [k \in Nat |-> [h \in Nat |-> Radix * h + d[k + 1]]]
<1>1. \A i \in Nat : d[i] \in 0..(Radix - 1)
  BY KvqTypes DEF Keys
<1>2. \A i \in 1..KeyLen : i \in Nat /\ d[i] = key[i]
  BY KvqTypes
<1> HIDE DEF d
<1>3. F \in [Nat -> [Nat -> Nat]]
  <2>1. ASSUME NEW k \in Nat, NEW h \in Nat PROVE Radix * h + d[k + 1] \in Nat
    <3>1. d[k + 1] \in Nat /\ Radix * h \in Nat
      BY <1>1, KvqTypes
    <3> QED
      BY <3>1
  <2> QED
    BY <2>1
<1>4. \A k \in Nat, h \in Nat : F[k][h] = Radix * h + d[k + 1]
  OBVIOUS
<1> HIDE DEF F
<1>5. PICK v : Iterates(v, Nat, 0, F)
  <2>1. 0 \in Nat
    OBVIOUS
  <2> QED
    BY <1>3, <2>1, Iteration, Zenon
<1>6. v \in [Nat -> Nat] /\ v[0] = 0 /\ \A k \in Nat : v[k + 1] = Radix * v[k] + d[k + 1]
  BY <1>4, <1>5 DEF Iterates
<1> DEFINE n == v[KeyLen]
           P == {i \in Nat : v[i] < Power(i)}
           Q == {l \in Nat : l <= KeyLen => Shifted(n, l) = v[KeyLen - l]}
<1>7. n \in Nat
  BY <1>6, KvqTypes
<1>8. 0 \in P
  BY <1>6, Powers
<1>9. ASSUME NEW i \in Nat, i \in P PROVE i + 1 \in P
  <2> DEFINE a == v[i]
             e == d[i + 1]
             p == Power(i)
  <2>1. a \in Nat /\ e \in 0..(Radix - 1) /\ p \in Nat /\ a < p
    BY <1>1, <1>6, <1>9, Powers
  <2>2. v[i + 1] = Radix * a + e /\ Power(i + 1) = Radix * p
    BY <1>6, Powers
  <2> HIDE DEF a, e, p
  <2>3. Radix * a + Radix <= Radix * p
    <3>1. a + 1 <= p
      BY <2>1
    <3>2. \A r, x, y \in Nat : x <= y => r * x <= r * y
      OBVIOUS
    <3>3. Radix * (a + 1) <= Radix * p
      BY <2>1, <3>1, <3>2, KvqTypes
    <3>4. Radix * (a + 1) = Radix * a + Radix
      BY <2>1, KvqTypes
    <3> QED
      BY <3>3, <3>4
  <2>4. Radix * a + e < Radix * p
    <3> DEFINE ra == Radix * a
               rp == Radix * p
    <3>1. ra \in Nat /\ rp \in Nat /\ ra + Radix <= rp
      BY <2>1, <2>3, KvqTypes
    <3> HIDE DEF ra, rp
    <3>2. ra + e < rp
      BY <2>1, <3>1, KvqTypes
    <3> QED
      BY <3>2 DEF ra, rp
  <2> QED
    BY <2>2, <2>4
<1>10. \A i \in Nat : i \in P
  <2> HIDE DEF P
  <2> QED
    BY <1>8, <1>9, Induction
<1>11. n \in Typed
  <2>1. n < Power(KeyLen) /\ Power(KeyLen) \in Nat
    BY <1>10, Powers, KvqTypes
  <2> HIDE DEF n
  <2>2. \A a, b \in Nat : a < b => a \in 0..(b - 1)
    OBVIOUS
  <2> QED
    BY <1>7, <2>1, <2>2 DEF Typed
<1>12. 0 \in Q
  <2>1. Shifted(n, 0) = n /\ KeyLen - 0 = KeyLen
    <3> HIDE DEF n
    <3> QED
      BY <1>7, Shifts, KvqTypes
  <2> QED
    BY <2>1
<1>13. ASSUME NEW l \in Nat, l \in Q PROVE l + 1 \in Q
  <2>1. SUFFICES ASSUME l + 1 <= KeyLen PROVE Shifted(n, l + 1) = v[KeyLen - (l + 1)]
    OBVIOUS
  <2> DEFINE p == KeyLen - (l + 1)
  <2>2. p \in Nat /\ p + 1 = KeyLen - l /\ l <= KeyLen
    BY <2>1, KvqTypes
  <2>3. Shifted(n, l) = v[p + 1]
    BY <1>13, <2>2
  <2> HIDE DEF p, n
  <2>4. Shifted(n, l + 1) = Shifted(n, l) \div Radix
    BY <1>7, Shifts
  <2>5. v[p + 1] = Radix * v[p] + d[p + 1] /\ v[p] \in Nat /\ d[p + 1] \in 0..(Radix - 1)
    BY <1>1, <1>6, <2>2
  <2>6. (Radix * v[p] + d[p + 1]) \div Radix = v[p]
    BY <2>5, DivisionUnique
  <2> QED
    BY <2>3, <2>4, <2>5, <2>6 DEF p
<1>14. \A l \in Nat : l \in Q
  <2> HIDE DEF Q
  <2> QED
    BY <1>12, <1>13, Induction
<1>15. ASSUME NEW i \in 1..KeyLen PROVE to_bytes(n)[i] = key[i]
  <2> DEFINE p == i - 1
  <2>1. p \in Nat /\ p + 1 = i /\ KeyLen - i \in Nat /\ KeyLen - i <= KeyLen /\ KeyLen - (KeyLen - i) = i
    BY KvqTypes
  <2>2. Shifted(n, KeyLen - i) = v[i]
    BY <1>14, <2>1
  <2>3. to_bytes(n)[i] = v[i] % Radix
    BY <1>7, <2>2, BytesType
  <2> HIDE DEF p, n
  <2>4. v[p + 1] = Radix * v[p] + d[p + 1] /\ v[p] \in Nat /\ d[p + 1] \in 0..(Radix - 1)
    BY <1>1, <1>6, <2>1
  <2>5. (Radix * v[p] + d[p + 1]) % Radix = d[p + 1]
    BY <2>4, DivisionUnique
  <2>6. v[i] % Radix = d[i]
    BY <2>1, <2>4, <2>5
  <2> QED
    BY <1>2, <2>3, <2>6
<1>16. to_bytes(n) = key
  <2>1. to_bytes(n) \in Keys
    BY <1>7, BytesType
  <2> DEFINE bytes == to_bytes(n)
  <2>2. bytes \in Keys /\ \A i \in 1..KeyLen : bytes[i] = key[i]
    BY <1>15, <2>1
  <2> HIDE DEF bytes
  <2>3. bytes = key
    BY <2>2, KeyEquality
  <2> QED
    BY <2>3 DEF bytes
<1> QED
  BY <1>11, <1>16

\* to_bytes and from_bytes: the order of keys is that of the numbers, and a
\* number comes back from its bytes.
LEMMA Bytes ==
    ASSUME NEW n \in Typed
    PROVE  /\ n \in Nat /\ to_bytes(n) \in Keys /\ 0..n \subseteq Typed /\ n \in 0..n
           /\ from_bytes(to_bytes(n)) = n
           /\ \A m \in Typed : KeyLess(to_bytes(m), to_bytes(n)) <=> m < n
           /\ \A m \in Typed : to_bytes(m) = to_bytes(n) => m = n
<1>1. n \in Nat /\ to_bytes(n) \in Keys
  BY ShiftsFit, BytesType
<1>2. 0..n \subseteq Typed /\ n \in 0..n
  BY <1>1, Powers, KvqTypes DEF Typed
<1>3. ASSUME NEW m \in Typed
      PROVE  /\ KeyLess(to_bytes(m), to_bytes(n)) <=> m < n
             /\ to_bytes(m) = to_bytes(n) => m = n
  <2>1. m \in Nat /\ to_bytes(m) \in Keys
    BY ShiftsFit, BytesType
  <2>2. CASE m < n
    <3>1. KeyLess(to_bytes(m), to_bytes(n))
      BY <2>2, BytesOrder
    <3>2. to_bytes(m) # to_bytes(n)
      BY <1>1, <2>1, <3>1, KeyLessAsymmetric
    <3> QED
      BY <2>2, <3>1, <3>2
  <2>3. CASE n < m
    <3>1. KeyLess(to_bytes(n), to_bytes(m))
      BY <2>3, BytesOrder
    <3>2. to_bytes(m) # to_bytes(n) /\ ~KeyLess(to_bytes(m), to_bytes(n))
      BY <1>1, <2>1, <3>1, KeyLessAsymmetric
    <3> QED
      BY <1>1, <2>1, <2>3, <3>2
  <2>4. CASE m = n
    <3>1. ~KeyLess(to_bytes(n), to_bytes(n))
      BY <1>1, KeyLessAsymmetric
    <3> QED
      BY <1>1, <2>4, <3>1
  <2> QED
    BY <1>1, <2>1, <2>2, <2>3, <2>4
<1>4. from_bytes(to_bytes(n)) = n
  <2> DEFINE bytes == to_bytes(n)
  <2>1. \A m \in Typed : to_bytes(m) = bytes <=> m = n
    BY <1>3
  <2> HIDE DEF bytes
  <2>2. from_bytes(bytes) = n
    BY <2>1 DEF from_bytes
  <2> QED
    BY <2>2 DEF bytes
<1> QED
  BY <1>1, <1>2, <1>3, <1>4

\* The keys of the numbers in M.
Image(M) == {to_bytes(m) : m \in M}

\* A range over all the bytes starts at 0, so it holds the numbers up to the
\* one asked for.
LEMMA RangeBelow ==
    ASSUME NEW n \in Typed
    PROVE  /\ InRange(to_bytes(n), KeyLen) = Image(0..n)
           /\ NothingBelow(to_bytes(n), KeyLen) <=> n = 0
<1> DEFINE zero == base_key(to_bytes(n), KeyLen)
<1>1. zero \in Keys /\ \A i \in 1..KeyLen : zero[i] = 0
  <2>1. KeyLen - KeyLen = 0 /\ \A i \in 1..KeyLen : i > 0
    BY KvqTypes
  <2>2. zero = [i \in 1..KeyLen |-> 0]
    BY <2>1 DEF base_key
  <2>3. 0 \in 0..(Radix - 1)
    BY KvqTypes
  <2> QED
    BY <2>2, <2>3 DEF Keys
<1> HIDE DEF zero
<1>2. ASSUME NEW k \in Keys PROVE ~KeyLess(k, zero)
  <2>1. \A i \in 1..KeyLen : k[i] \in Nat
    BY KvqTypes DEF Keys
  <2> QED
    BY <1>1, <2>1 DEF KeyLess
<1>3. InRange(to_bytes(n), KeyLen) = {k \in Keys : ~KeyLess(to_bytes(n), k)}
  BY <1>2 DEF InRange, zero
<1>4. ASSUME NEW m \in Typed
      PROVE  /\ m \in Nat /\ to_bytes(m) \in Keys
             /\ ~KeyLess(to_bytes(n), to_bytes(m)) <=> m \in 0..n
  <2>1. m \in Nat /\ n \in Nat /\ to_bytes(m) \in Keys
    BY Bytes
  <2>2. KeyLess(to_bytes(n), to_bytes(m)) <=> n < m
    BY Bytes
  <2> QED
    BY <2>1, <2>2
<1>5. InRange(to_bytes(n), KeyLen) = Image(0..n)
  <2>1. ASSUME NEW k \in Keys, ~KeyLess(to_bytes(n), k) PROVE k \in Image(0..n)
    <3>1. PICK m \in Typed : to_bytes(m) = k
      BY BytesOnto
    <3>2. m \in 0..n
      BY <1>4, <2>1, <3>1
    <3> QED
      BY <3>1, <3>2 DEF Image
  <2>2. ASSUME NEW m \in 0..n PROVE to_bytes(m) \in Keys /\ ~KeyLess(to_bytes(n), to_bytes(m))
    <3>1. m \in Typed
      BY Bytes
    <3> QED
      BY <1>4, <3>1
  <2> QED
    BY <1>3, <2>1, <2>2 DEF Image
<1>6. PICK z \in Typed : to_bytes(z) = zero
  BY <1>1, BytesOnto
<1>7. z = 0
  <2>1. z \in Nat /\ 0 \in Typed
    <3>1. z \in Nat /\ 0..z \subseteq Typed
      BY Bytes
    <3> QED
      BY <3>1
  <2>2. ~KeyLess(to_bytes(0), to_bytes(z))
    BY <1>2, <1>4, <1>6, <2>1
  <2>3. ~(0 < z)
    BY <2>1, <2>2, Bytes
  <2> QED
    BY <2>1, <2>3
<1>8. zero = to_bytes(n) <=> n = 0
  BY <1>6, <1>7, Bytes
<1> QED
  BY <1>5, <1>8 DEF NothingBelow, zero

\* A set of numbers up to n has a greatest one, and Last finds its key.
LEMMA GreatestKey ==
    ASSUME NEW n \in Typed, NEW M \in SUBSET (0..n), M # {}
    PROVE  \E x \in M : (\A y \in M : y <= x) /\ Last(Image(M)) = to_bytes(x)
<1> DEFINE D == {n - y : y \in M}
<1>1. n \in Nat /\ M \subseteq Typed
  BY Bytes
<1>2. D \subseteq Nat /\ D # {}
  BY <1>1
<1>3. PICK d \in D : \A e \in D : d <= e
  <2> HIDE DEF D
  <2> QED
    BY <1>2, LeastNumber, Zenon
<1>4. PICK x \in M : d = n - x
  BY <1>3
<1>5. ASSUME NEW y \in M PROVE y <= x
  <2>1. n - y \in D
    OBVIOUS
  <2>2. n - x <= n - y
    <3> HIDE DEF D
    <3> QED
      BY <1>3, <1>4, <2>1
  <2>3. y \in 0..n /\ x \in 0..n
    BY <1>4
  <2> HIDE DEF D
  <2> QED
    BY <1>1, <2>2, <2>3
<1>6. ASSUME NEW y \in M PROVE y \in Nat /\ (KeyLess(to_bytes(y), to_bytes(x)) <=> y < x)
                               /\ (KeyLess(to_bytes(x), to_bytes(y)) <=> x < y)
  <2>1. x \in Typed /\ y \in Typed
    BY <1>1
  <2>2. y \in Nat /\ (KeyLess(to_bytes(x), to_bytes(y)) <=> x < y)
    BY <2>1, Bytes
  <2>3. KeyLess(to_bytes(y), to_bytes(x)) <=> y < x
    BY <2>1, Bytes
  <2> QED
    BY <2>2, <2>3
<1> DEFINE Greatest(k) == \A other \in Image(M) : ~KeyLess(k, other)
<1>7. to_bytes(x) \in Image(M) /\ Greatest(to_bytes(x))
  BY <1>1, <1>5, <1>6 DEF Image
<1>8. ASSUME NEW k \in Image(M), Greatest(k) PROVE k = to_bytes(x)
  <2>1. PICK y \in M : k = to_bytes(y)
    BY DEF Image
  <2>2. ~KeyLess(k, to_bytes(x))
    BY <1>7, <1>8
  <2>3. y \in Nat /\ x \in Nat /\ ~(y < x) /\ y <= x
    BY <1>5, <1>6, <2>1, <2>2
  <2> QED
    BY <2>1, <2>3
<1>9. Last(Image(M)) = to_bytes(x)
  <2>1. Last(Image(M)) = CHOOSE k \in Image(M) : Greatest(k)
    BY DEF Last
  <2> HIDE DEF Greatest
  <2> QED
    BY <1>7, <1>8, <2>1
<1> QED
  BY <1>5, <1>9

\* ... and a least one, and First finds its key.
LEMMA LeastKey ==
    ASSUME NEW n \in Typed, NEW M \in SUBSET (0..n), M # {}
    PROVE  \E x \in M : (\A y \in M : x <= y) /\ First(Image(M)) = to_bytes(x)
<1>1. n \in Nat /\ M \subseteq Typed /\ M \subseteq Nat
  BY Bytes
<1>2. PICK x \in M : \A y \in M : x <= y
  BY <1>1, LeastNumber, Zenon
<1>3. ASSUME NEW y \in M PROVE y \in Nat /\ (KeyLess(to_bytes(y), to_bytes(x)) <=> y < x)
                               /\ (KeyLess(to_bytes(x), to_bytes(y)) <=> x < y)
  <2>1. x \in Typed /\ y \in Typed
    BY <1>1
  <2>2. y \in Nat /\ (KeyLess(to_bytes(x), to_bytes(y)) <=> x < y)
    BY <2>1, Bytes
  <2>3. KeyLess(to_bytes(y), to_bytes(x)) <=> y < x
    BY <2>1, Bytes
  <2> QED
    BY <2>2, <2>3
<1> DEFINE Least(k) == \A other \in Image(M) : ~KeyLess(other, k)
<1>4. to_bytes(x) \in Image(M) /\ Least(to_bytes(x))
  BY <1>1, <1>2, <1>3 DEF Image
<1>5. ASSUME NEW k \in Image(M), Least(k) PROVE k = to_bytes(x)
  <2>1. PICK y \in M : k = to_bytes(y)
    BY DEF Image
  <2>2. ~KeyLess(to_bytes(x), k)
    BY <1>4, <1>5
  <2>3. y \in Nat /\ x \in Nat /\ ~(x < y) /\ x <= y
    BY <1>2, <1>3, <2>1, <2>2
  <2> QED
    BY <2>1, <2>3
<1>6. First(Image(M)) = to_bytes(x)
  <2>1. First(Image(M)) = CHOOSE k \in Image(M) : Least(k)
    BY DEF First
  <2> HIDE DEF Least
  <2> QED
    BY <1>4, <1>5, <2>1
<1> QED
  BY <1>2, <1>6

-----------------------------------------------------------------------------
(* The ordered lookup *)

\* The numbers up to n that a store holds, and those with a value in the cache.
Held(map_, n) == {m \in 0..n : map_[to_bytes(m)] # None}
Live(n) == {m \in 0..n : map[to_bytes(m)] \notin {None, Removed}}

\* What a lookup that answers x passes over is in the cache, above a cached one.
PassesCached(x, n) ==
    \A m \in Held(promised, n) : m > x => m \in Live(n) /\ \E c \in Live(n) : c <= x

\* The value v answered for x is the current one, unless the cache has removed x
\* or has replaced it while it holds a lower one.
CurrentValue(x, v, n) ==
    \/ v = promised[to_bytes(x)]
    \/ map[to_bytes(x)] = Removed
    \/ x \in Live(n) /\ \E c \in Live(n) : c < x

\* The answer is a pair with these two properties.
Answered(pair, n) ==
    \E x \in 0..n, v \in Values :
        /\ pair = KVQPair(to_bytes(x), v)
        /\ PassesCached(x, n) /\ CurrentValue(x, v, n)

\* KVQSimpleMemoryBackingStore: its ordered lookup finds the greatest number.
LEMMA StoreLeq ==
    ASSUME NEW n \in Typed
    PROVE  LET found == simple_get_leq_kv(store, to_bytes(n), KeyLen)
           IN  IF Held(store, n) = {} THEN found = None
               ELSE \E s \in Held(store, n) :
                        /\ \A y \in Held(store, n) : y <= s
                        /\ found = KVQPair(to_bytes(s), store[to_bytes(s)])
<1> DEFINE S == Held(store, n)
           found == InRange(to_bytes(n), KeyLen) \cap Present(store)
<1>1. \A m \in 0..n : to_bytes(m) \in Keys
  BY Bytes
<1>2. found = Image(S)
  BY <1>1, RangeBelow DEF Present, Image, Held
<1>3. ~(KeyLen > KeyLen)
  BY KvqTypes
<1>4. simple_get_leq_kv(store, to_bytes(n), KeyLen)
          = IF Image(S) = {} THEN None ELSE KVQPair(Last(Image(S)), store[Last(Image(S))])
  BY <1>2, <1>3 DEF simple_get_leq_kv
<1>5. Image(S) = {} <=> S = {}
  BY DEF Image
<1>6. S \in SUBSET (0..n)
  BY DEF Held
<1> HIDE DEF S
<1>7. CASE S = {}
  BY <1>4, <1>5, <1>7 DEF S
<1>8. CASE S # {}
  <2>1. PICK s \in S : (\A y \in S : y <= s) /\ Last(Image(S)) = to_bytes(s)
    BY <1>6, <1>8, GreatestKey
  <2>2. simple_get_leq_kv(store, to_bytes(n), KeyLen) = KVQPair(to_bytes(s), store[to_bytes(s)])
    BY <1>4, <1>5, <1>8, <2>1
  <2> QED
    BY <1>8, <2>1, <2>2 DEF S
<1> QED
  BY <1>7, <1>8

\* The entries up to n: what was promised is what the cache holds, and what the
\* store holds where the cache has no entry.
LEMMA EntriesBelow ==
    ASSUME CacheInv, handed = Nothing, NEW n \in Typed, NEW m \in 0..n
    PROVE  /\ m \in Typed /\ m \in Nat /\ to_bytes(m) \in Keys /\ from_bytes(to_bytes(m)) = m
           /\ map[to_bytes(m)] = Removed => promised[to_bytes(m)] = None
           /\ map[to_bytes(m)] = None => promised[to_bytes(m)] = store[to_bytes(m)]
           /\ m \in Live(n) => /\ promised[to_bytes(m)] = map[to_bytes(m)]
                               /\ map[to_bytes(m)] \in Values
           /\ m \in Live(n) <=> map[to_bytes(m)] \notin {None, Removed}
           /\ store[to_bytes(m)] # None => store[to_bytes(m)] \in Values
<1> DEFINE k == to_bytes(m)
<1>1. m \in Typed /\ m \in Nat /\ k \in Keys /\ from_bytes(k) = m
  <2>1. m \in Typed
    BY Bytes
  <2> QED
    BY <2>1, Bytes
<1>2. m \in Live(n) <=> map[k] \notin {None, Removed}
  BY DEF Live
<1> HIDE DEF k
<1>3. map[k] \in Values \cup {None, Removed} /\ store[k] \in Values \cup {None}
  BY <1>1 DEF CacheInv, TypeOK, Maps
<1>4. promised[k] = IF map[k] = Removed THEN None ELSE IF map[k] # None THEN map[k] ELSE store[k]
  BY <1>1 DEF CacheInv, Readable, get_exact_if_exists
<1>5. None # Removed
  BY KvqAssumption
<1>6. /\ map[k] = Removed => promised[k] = None
      /\ map[k] = None => promised[k] = store[k]
      /\ m \in Live(n) => promised[k] = map[k] /\ map[k] \in Values
      /\ store[k] # None => store[k] \in Values
  BY <1>2, <1>3, <1>4, <1>5
<1> QED
  BY <1>1, <1>2, <1>6 DEF k

\* get_leq_kv: the cached candidate is the least of the cached entries, the stored
\* one the greatest of the store, and the answer the greater of the two.
LEMMA CacheLeq ==
    ASSUME CacheInv, handed = Nothing, NEW n \in Typed
    PROVE  \/ get_leq_kv(to_bytes(n), KeyLen) = None /\ Held(promised, n) = {}
           \/ Answered(get_leq_kv(to_bytes(n), KeyLen), n)
<1> DEFINE b(m) == to_bytes(m)
           C == Live(n)
           S == Held(store, n)
           W == Held(promised, n)
           G == get_leq_kv(b(n), KeyLen)
           stored == simple_get_leq_kv(store, b(n), KeyLen)
           cached == CachedCandidate(b(n), KeyLen)
           below == NothingBelow(b(n), KeyLen)
<1>1. ~(KeyLen > KeyLen) /\ n \in Nat /\ n \in 0..n
  BY KvqTypes, Bytes
<1>2. below <=> n = 0
  BY RangeBelow
<1>3. G = IF below /\ map[b(n)] # None
          THEN IF map[b(n)] = Removed THEN None ELSE KVQPair(b(n), map[b(n)])
          ELSE IF cached = None THEN stored ELSE Later(stored, cached)
  BY <1>1 DEF get_leq_kv
<1>4. ASSUME NEW m \in 0..n
      PROVE  /\ m \in Typed /\ m \in Nat /\ b(m) \in Keys
             /\ map[b(m)] = Removed => promised[b(m)] = None
             /\ map[b(m)] = None => promised[b(m)] = store[b(m)]
             /\ m \in C => promised[b(m)] = map[b(m)] /\ map[b(m)] \in Values
             /\ m \in C <=> map[b(m)] \notin {None, Removed}
             /\ store[b(m)] # None => store[b(m)] \in Values
  BY EntriesBelow
<1>5. /\ \A m : m \in C => m \in 0..n
      /\ \A m : m \in S <=> m \in 0..n /\ store[b(m)] # None
      /\ \A m : m \in W <=> m \in 0..n /\ promised[b(m)] # None
  BY DEF Held, Live
<1>6. \A y \in W : y \in Nat /\ (y \in C \/ y \in S)
  BY <1>4, <1>5
<1>7. InRange(b(n), KeyLen) \cap get_non_removed_keys = Image(C)
  <2>1. InRange(b(n), KeyLen) = Image(0..n)
    BY RangeBelow
  <2>2. ASSUME NEW m \in 0..n PROVE b(m) \in get_non_removed_keys <=> m \in C
    BY <1>4 DEF get_non_removed_keys
  <2> HIDE DEF C
  <2> QED
    BY <1>5, <2>1, <2>2 DEF Image
<1>8. IF S = {} THEN stored = None
      ELSE \E s \in S : (\A y \in S : y <= s) /\ stored = KVQPair(b(s), store[b(s)])
  BY StoreLeq
<1>9. ASSUME NEW x \in 0..n, NEW v \in Values, G = KVQPair(b(x), v),
             \A m \in W : m > x => m \in C /\ \E c \in C : c <= x,
             v = promised[b(x)] \/ map[b(x)] = Removed \/ (x \in C /\ \E c \in C : c < x)
      PROVE  Answered(G, n)
  <2>1. PassesCached(x, n)
    BY <1>9 DEF PassesCached
  <2>2. CurrentValue(x, v, n)
    BY <1>9 DEF CurrentValue
  <2> HIDE DEF G
  <2> QED
    BY <1>9, <2>1, <2>2 DEF Answered
<1>10. SUFFICES (G = None /\ W = {}) \/ Answered(G, n)
  OBVIOUS
<1> HIDE DEF C, S, W, G, stored, cached, below
<1>11. CASE below /\ map[b(n)] # None
  <2>1. n = 0 /\ \A y \in W : y = n
    BY <1>1, <1>2, <1>5, <1>11
  <2>2. CASE map[b(n)] = Removed
    <3>1. promised[b(n)] = None
      BY <1>1, <1>4, <2>2
    <3> QED
      BY <1>3, <1>5, <1>11, <2>1, <2>2, <3>1
  <2>3. CASE map[b(n)] # Removed
    <3>1. promised[b(n)] = map[b(n)] /\ map[b(n)] \in Values
      BY <1>1, <1>4, <1>11, <2>3
    <3>2. G = KVQPair(b(n), map[b(n)])
      BY <1>3, <1>11, <2>3
    <3>3. \A m \in W : ~(m > n)
      BY <1>1, <2>1
    <3> QED
      BY <1>1, <1>9, <3>1, <3>2, <3>3
  <2> QED
    BY <2>2, <2>3
<1>12. ASSUME NEW s \in S, \A y \in S : y <= s, G = KVQPair(b(s), store[b(s)]),
              C = {} \/ \E c \in C : c < s
       PROVE  Answered(G, n)
  <2>1. s \in 0..n /\ s \in Nat /\ store[b(s)] \in Values
    BY <1>4, <1>5
  <2>2. ASSUME NEW m \in W, m > s PROVE m \in C /\ \E c \in C : c <= s
    <3>1. m \in Nat /\ m \notin S
      BY <1>6, <1>12, <2>1, <2>2
    <3>2. m \in C
      BY <1>6, <3>1
    <3>3. PICK c \in C : c < s
      BY <1>12, <3>2
    <3>4. c \in Nat
      BY <1>4, <1>5
    <3>5. c <= s
      BY <2>1, <3>3, <3>4
    <3> QED
      BY <3>2, <3>5
  <2>3. \/ store[b(s)] = promised[b(s)] \/ map[b(s)] = Removed
        \/ s \in C /\ \E c \in C : c < s
    BY <1>4, <1>12, <2>1
  <2> QED
    BY <1>9, <1>12, <2>1, <2>2, <2>3
<1>13. CASE ~(below /\ map[b(n)] # None) /\ C = {}
  <2>1. cached = None
    <3>1. Image(C) = {}
      BY <1>13 DEF Image
    <3> QED
      BY <1>7, <3>1 DEF CachedCandidate, cached
  <2>2. G = stored
    BY <1>3, <1>13, <2>1
  <2>3. CASE S = {}
    BY <1>6, <1>8, <1>13, <2>2, <2>3
  <2>4. CASE S # {}
    <3>1. PICK s \in S : (\A y \in S : y <= s) /\ stored = KVQPair(b(s), store[b(s)])
      BY <1>8, <2>4
    <3> QED
      BY <1>12, <1>13, <2>2, <3>1
  <2> QED
    BY <2>3, <2>4
<1>14. CASE ~(below /\ map[b(n)] # None) /\ C # {}
  <2>1. PICK c \in C : (\A y \in C : c <= y) /\ First(Image(C)) = b(c)
    <3>1. C \in SUBSET (0..n)
      BY <1>5
    <3> QED
      BY <1>14, <3>1, LeastKey
  <2>2. /\ c \in 0..n /\ c \in Nat /\ c \in Typed /\ b(c) \in Keys /\ map[b(c)] \in Values
        /\ promised[b(c)] = map[b(c)]
    BY <1>4, <1>5, <2>1
  <2>3. cached = KVQPair(b(c), map[b(c)])
    <3>1. Image(C) # {}
      BY <1>14 DEF Image
    <3> QED
      BY <1>7, <2>1, <3>1 DEF CachedCandidate, cached
  <2>4. cached # None
    BY <2>2, <2>3, PairAssumption
  <2>5. G = Later(stored, cached)
    BY <1>3, <1>14, <2>4
  <2>6. ASSUME G = cached, \A y \in S : y <= c PROVE Answered(G, n)
    <3>1. ASSUME NEW m \in W, m > c PROVE m \in C /\ \E e \in C : e <= c
      <4>1. m \in Nat /\ m \notin S
        BY <1>6, <2>2, <2>6, <3>1
      <4>2. m \in C /\ c <= c
        BY <1>6, <2>2, <4>1
      <4> QED
        BY <2>1, <4>2
    <3> QED
      BY <1>9, <2>2, <2>3, <2>6, <3>1
  <2>7. CASE S = {}
    <3>1. stored = None
      BY <1>8, <2>7
    <3>2. G = cached
      BY <2>5, <3>1 DEF Later
    <3> QED
      BY <2>6, <2>7, <3>2
  <2>8. CASE S # {}
    <3>1. PICK s \in S : (\A y \in S : y <= s) /\ stored = KVQPair(b(s), store[b(s)])
      BY <1>8, <2>8
    <3>2. s \in 0..n /\ s \in Typed /\ s \in Nat /\ b(s) \in Keys /\ store[b(s)] \in Values
      BY <1>4, <1>5, <3>1
    <3>3. stored # None
      BY <3>1, <3>2, PairAssumption
    <3>4. cached.key = b(c) /\ stored.key = b(s)
      BY <2>3, <3>1 DEF KVQPair
    <3>5. KeyLess(b(c), b(s)) <=> c < s
      BY <2>2, <3>2, Bytes
    <3>6. CASE c < s
      <4>1. G = stored
        BY <2>5, <3>3, <3>4, <3>5, <3>6 DEF Later
      <4> QED
        BY <1>12, <2>1, <3>1, <3>6, <4>1
    <3>7. CASE ~(c < s)
      <4>1. G = cached
        BY <2>5, <3>4, <3>5, <3>7 DEF Later
      <4>2. ASSUME NEW y \in S PROVE y <= c
        <5>1. y \in Nat /\ y <= s
          BY <1>4, <1>5, <3>1
        <5> QED
          BY <2>2, <3>2, <3>7, <5>1
      <4> QED
        BY <2>6, <4>1, <4>2
    <3> QED
      BY <3>6, <3>7
  <2> QED
    BY <2>7, <2>8
<1> QED
  BY <1>11, <1>13, <1>14

\* get_leq_kv, get_leq and the typed adapter, for keys of any length and every
\* state of the cache: nothing is missed when the answer is None; a greater entry
\* is passed over only if it is cached above another one; the value is current
\* unless the cache has removed the entry, or replaced it while it holds a lower.
THEOREM LeqLookup == Spec => []LeqErrsOnlyByCache
<1>1. ASSUME CacheInv, handed = Nothing, NEW n \in Typed
      PROVE  LET within == Held(promised, n)
                 cached == Live(n)
                 found == adapter_get_leq_kv(n, KeyLen)
             IN  IF found = None THEN within = {}
                 ELSE /\ found.key \in 0..n
                      /\ \A m \in within :
                           m > found.key => m \in cached /\ \E c \in cached : c <= found.key
                      /\ \/ found.value = promised[to_bytes(found.key)]
                         \/ is_removed(to_bytes(found.key))
                         \/ found.key \in cached /\ \E c \in cached : c < found.key
                      /\ get_leq(to_bytes(n), KeyLen) = found.value
  <2> DEFINE W == Held(promised, n)
             G == get_leq_kv(to_bytes(n), KeyLen)
             found == adapter_get_leq_kv(n, KeyLen)
  <2>1. (G = None /\ W = {}) \/ Answered(G, n)
    BY <1>1, CacheLeq
  <2>2. found = IF G \in {None, Err} THEN G ELSE KVQPair(from_bytes(G.key), G.value)
    BY DEF adapter_get_leq_kv
  <2>3. CASE G = None /\ W = {}
    BY <2>2, <2>3
  <2>4. CASE Answered(G, n)
    <3>1. PICK x \in 0..n, v \in Values :
              G = KVQPair(to_bytes(x), v) /\ PassesCached(x, n) /\ CurrentValue(x, v, n)
      BY <2>4 DEF Answered
    <3>2. to_bytes(x) \in Keys /\ from_bytes(to_bytes(x)) = x
      BY <1>1, EntriesBelow
    <3>3. G \notin {None, Err}
      BY <3>1, <3>2, PairAssumption
    <3>4. G.key = to_bytes(x) /\ G.value = v
      BY <3>1 DEF KVQPair
    <3>5. found = KVQPair(x, v)
      BY <2>2, <3>2, <3>3, <3>4
    <3> HIDE DEF found, W, G
    <3>6. found.key = x /\ found.value = v
      BY <3>5 DEF KVQPair
    <3>7. get_leq(to_bytes(n), KeyLen) = v
      <4>1. ~(KeyLen > KeyLen) /\ n \in Nat
        BY KvqTypes, Bytes
      <4>2. CASE NothingBelow(to_bytes(n), KeyLen) /\ map[to_bytes(n)] = None
        <5>1. n = 0 /\ x = n
          BY <4>1, <4>2, RangeBelow
        <5>2. simple_get_leq(store, to_bytes(n), KeyLen) = store[to_bytes(n)]
          BY <4>1, <4>2 DEF simple_get_leq
        <5>3. promised[to_bytes(x)] = store[to_bytes(x)] /\ x \notin Live(n)
          BY <1>1, <4>2, <5>1, EntriesBelow
        <5>4. None # Removed
          BY KvqAssumption
        <5>5. v = promised[to_bytes(x)]
          BY <3>1, <4>2, <5>1, <5>3, <5>4 DEF CurrentValue
        <5> QED
          BY <4>1, <4>2, <5>1, <5>2, <5>3, <5>5 DEF get_leq
      <4>3. CASE ~(NothingBelow(to_bytes(n), KeyLen) /\ map[to_bytes(n)] = None)
        <5>1. get_leq(to_bytes(n), KeyLen) = IF G = None THEN None ELSE G.value
          BY <4>1, <4>3 DEF get_leq, G
        <5> QED
          BY <3>3, <3>4, <5>1
      <4> QED
        BY <4>2, <4>3
    <3>8. found.key \in 0..n
      BY <3>6
    <3>9. \A m \in W : m > x => m \in Live(n) /\ \E c \in Live(n) : c <= x
      BY <3>1 DEF PassesCached, W
    <3>10. v = promised[to_bytes(x)] \/ is_removed(to_bytes(x))
           \/ (x \in Live(n) /\ \E c \in Live(n) : c < x)
      BY <3>1 DEF CurrentValue, is_removed
    <3>11. found # None
      <4>1. x \in Typed
        BY <1>1, EntriesBelow
      <4> QED
        BY <3>5, <4>1, PairAssumption
    <3> QED
      BY <3>6, <3>7, <3>8, <3>9, <3>10, <3>11 DEF found, W
  <2> QED
    BY <2>1, <2>3, <2>4
<1>2. CacheInv => LeqErrsOnlyByCache
  BY <1>1 DEF LeqErrsOnlyByCache, Held, Live
<1> QED
  BY <1>2, CacheInvariant, PTL
=============================================================================
