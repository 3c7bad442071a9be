------------------------------ MODULE KvqCache ------------------------------
(***************************************************************************)
(* KVQBinaryStoreCached of kvq/src/cache/mod.rs over a simple store shared   *)
(* through KVQArcImmutableStoreWrapper, read and written by typed keys       *)
(* (adapters/standard.rs).  The owner of the cache sets, deletes and         *)
(* flushes; other holders of the Arc read the store, and their locks make    *)
(* the owner's try_read and try_write fail.                                  *)
(***************************************************************************)
EXTENDS KvqStore

CONSTANT Readers   \* other holders of the store

VARIABLES
    store,    \* the shared store
    map,      \* the cache: key -> None (no entry), Removed, or a value
    pc,       \* what is left of flush_simple: "idle", "delete" or "clear"
    handed,   \* what flush_changes returned and the caller has not applied
    locks,    \* readers holding the read lock
    promised  \* history: what a plain store with the same calls would hold

vars == <<store, map, pc, handed, locks, promised>>

Nothing == [set |-> [k \in {} |-> None], removed |-> {}]
Empty == [k \in Keys |-> None]

-----------------------------------------------------------------------------
(* Lookups *)

get_exact_if_exists(key) ==
    IF map[key] = Removed THEN None
    ELSE IF map[key] # None THEN map[key]
    ELSE store[key]

get_exact(key) ==
    IF map[key] = Removed THEN Err
    ELSE IF map[key] # None THEN map[key]
    ELSE simple_get_exact(store, key)

get_many_exact(keys) ==
    IF \E k \in keys : get_exact(k) = Err THEN Err ELSE [k \in keys |-> get_exact(k)]

is_removed(key) == map[key] = Removed
EveryKey == {k \in Keys : map[k] # None}
get_non_removed_keys == {k \in Keys : map[k] \notin {None, Removed}}
get_removed_keys == {k \in Keys : map[k] = Removed}

\* The loop over the cached range stops at the first entry that is not Removed.
CachedCandidate(key, fuzzy_bytes) ==
    LET live == InRange(key, fuzzy_bytes) \cap get_non_removed_keys
    IN  IF live = {} THEN None ELSE KVQPair(First(live), map[First(live)])

\* rnt.key > rok.key: the greater of the two candidates.
Later(stored, cached) ==
    IF stored # None /\ KeyLess(cached.key, stored.key) THEN stored ELSE cached

get_leq_kv(key, fuzzy_bytes) ==
    LET stored == simple_get_leq_kv(store, key, fuzzy_bytes)
        cached == CachedCandidate(key, fuzzy_bytes)
    IN  IF fuzzy_bytes > KeyLen THEN Err
        ELSE IF NothingBelow(key, fuzzy_bytes) /\ map[key] # None
        THEN IF map[key] = Removed THEN None ELSE KVQPair(key, map[key])
        ELSE IF cached = None THEN stored
        ELSE Later(stored, cached)

get_leq(key, fuzzy_bytes) ==
    LET found == get_leq_kv(key, fuzzy_bytes)
    IN  IF fuzzy_bytes > KeyLen THEN Err
        ELSE IF NothingBelow(key, fuzzy_bytes) /\ map[key] = None
        THEN simple_get_leq(store, key, fuzzy_bytes)
        ELSE IF found = None THEN None ELSE found.value

ChainsBoth(key, fuzzy_bytes) ==
    {KVQPair(k, map[k]) : k \in InRange(key, fuzzy_bytes) \cap get_non_removed_keys}
    \cup simple_get_fuzzy_range_leq_kv(store, key, fuzzy_bytes)

\* The cached entries of the range, then those of the store that the cache has
\* no entry for.
get_fuzzy_range_leq_kv(key, fuzzy_bytes) ==
    {KVQPair(k, map[k]) : k \in InRange(key, fuzzy_bytes) \cap get_non_removed_keys}
    \cup {p \in simple_get_fuzzy_range_leq_kv(store, key, fuzzy_bytes) :
             map[p.key] = None}

-----------------------------------------------------------------------------
(* The typed adapter *)

adapter_get_exact_if_exists(key) == get_exact_if_exists(to_bytes(key))

adapter_get_leq_kv(key, fuzzy_bytes) ==
    LET found == get_leq_kv(to_bytes(key), fuzzy_bytes)
    IN  IF found \in {None, Err} THEN found
        ELSE KVQPair(from_bytes(found.key), found.value)

-----------------------------------------------------------------------------
Init ==
    /\ store \in [Keys -> Values \cup {None}]
    /\ map = Empty /\ pc = "idle" /\ handed = Nothing /\ locks = {}
    /\ promised = store

\* The owner calls one method at a time; what flush_changes handed out is
\* applied before the cache is used again.
Idle == pc = "idle" /\ handed = Nothing

\* set, set_ref
set(key, value) ==
    /\ Idle
    /\ map' = [map EXCEPT ![key] = value]
    /\ promised' = simple_set(promised, key, value)
    /\ UNCHANGED <<store, pc, handed, locks>>

\* set_many_ref, set_many_vec, set_many_split_ref of lists of one length
set_many_ref(items) ==
    /\ Idle
    /\ map' = [k \in Keys |-> IF k \in DOMAIN items THEN items[k] ELSE map[k]]
    /\ promised' = simple_set_many_ref(promised, items)
    /\ UNCHANGED <<store, pc, handed, locks>>

OrInsert(key) ==
    /\ Idle
    /\ map' = [map EXCEPT ![key] = IF @ = None THEN Removed ELSE @]
    /\ promised' = simple_delete(promised, key)
    /\ UNCHANGED <<store, pc, handed, locks>>

delete(key) ==
    /\ Idle
    /\ map' = [map EXCEPT ![key] = Removed]
    /\ promised' = simple_delete(promised, key)
    /\ UNCHANGED <<store, pc, handed, locks>>

delete_many(keys) ==
    /\ Idle
    /\ map' = [k \in Keys |-> IF k \in keys THEN Removed ELSE map[k]]
    /\ promised' = simple_delete_many(promised, keys)
    /\ UNCHANGED <<store, pc, handed, locks>>

\* The adapter's set, set_ref, delete and delete_many.
adapter_set(key, value) == set(to_bytes(key), value)
adapter_delete(key) == delete(to_bytes(key))
adapter_delete_many(keys) == delete_many({to_bytes(k) : k \in keys})

\* KVQArcImmutableStoreWrapper: another holder's guard lives for one call.
read(reader) ==
    /\ reader \notin locks
    /\ locks' = locks \cup {reader}
    /\ UNCHANGED <<store, map, pc, handed, promised>>

ReadDone(reader) ==
    /\ reader \in locks
    /\ locks' = locks \ {reader}
    /\ UNCHANGED <<store, map, pc, handed, promised>>

try_write == locks = {}

SetItems == [k \in get_non_removed_keys |-> map[k]]

\* flush_simple: imm_set_many_ref ...
flush_simple ==
    /\ Idle /\ try_write
    /\ store' = simple_set_many_ref(store, SetItems)
    /\ pc' = "delete"
    /\ UNCHANGED <<map, handed, locks, promised>>

\* ... then imm_delete_many, under a lock of its own ...
FlushDeletes ==
    /\ pc = "delete" /\ try_write
    /\ store' = simple_delete_many(store, get_removed_keys)
    /\ pc' = "clear"
    /\ UNCHANGED <<map, handed, locks, promised>>

ClearsOnError ==
    /\ pc = "delete" /\ ~try_write
    /\ pc' = "idle" /\ map' = Empty
    /\ UNCHANGED <<store, handed, locks, promised>>

\* ... which fails while someone reads: flush_simple returns the error.
FlushFails ==
    /\ pc = "delete" /\ ~try_write
    /\ pc' = "idle"
    /\ UNCHANGED <<store, map, handed, locks, promised>>

FlushClears ==
    /\ pc = "clear"
    /\ map' = Empty /\ pc' = "idle"
    /\ UNCHANGED <<store, handed, locks, promised>>

flush_changes ==
    /\ Idle /\ (get_non_removed_keys # {} \/ get_removed_keys # {})
    /\ handed' = [set |-> SetItems, removed |-> get_removed_keys]
    /\ map' = Empty
    /\ UNCHANGED <<store, pc, locks, promised>>

\* The caller writes what it was handed into the store.
ApplyChanges ==
    /\ handed # Nothing /\ try_write
    /\ store' = simple_delete_many(simple_set_many_ref(store, handed.set), handed.removed)
    /\ handed' = Nothing
    /\ UNCHANGED <<map, pc, locks, promised>>

Next ==
    \/ \E k \in Typed, v \in Values : adapter_set(k, v)
    \/ \E k1, k2 \in Keys, v1, v2 \in Values :
          set_many_ref([k \in {k1, k2} |-> IF k = k2 THEN v2 ELSE v1])
    \/ \E k \in Typed : adapter_delete(k)
    \/ \E k1, k2 \in Typed : adapter_delete_many({k1, k2})
    \/ \E r \in Readers : read(r) \/ ReadDone(r)
    \/ flush_simple \/ FlushDeletes \/ FlushFails \/ FlushClears
    \/ flush_changes \/ ApplyChanges

Spec == Init /\ [][Next]_vars

-----------------------------------------------------------------------------
Maps == [Keys -> Values \cup {None}]

\* The store never holds the cache's Removed marker, and flush_changes hands out
\* only values and keys.
TypeOK ==
    /\ store \in Maps /\ promised \in Maps
    /\ map \in [Keys -> Values \cup {None, Removed}]
    /\ pc \in {"idle", "delete", "clear"}
    /\ handed \in [set : UNION {[S -> Values] : S \in SUBSET Keys},
                   removed : SUBSET Keys]
    /\ locks \subseteq Readers

\* get_exact_if_exists, get_exact, get_many_exact, is_removed: through sets,
\* deletes, flushes, and flushes that fail half way because the store is being
\* read, the cache reads as a plain store would after the same calls.
ReadsYourWrites ==
    handed = Nothing =>
        /\ \A k \in Keys :
             /\ get_exact_if_exists(k) = promised[k]
             /\ get_exact(k) = simple_get_exact(promised, k)
             /\ is_removed(k) => promised[k] = None
        /\ \A keys \in SUBSET Keys :
             get_many_exact(keys) = simple_get_many_exact(promised, keys)

\* flush_simple, flush_changes: what the other holders of the store see only
\* ever changes to what the owner last set or deleted, also when a flush stops
\* half way and is made again: no old value and no deleted entry comes back.
StoreMovesForward ==
    [][\A k \in Keys : store'[k] # store[k] => store'[k] = promised[k]]_vars

\* get_fuzzy_range_leq_kv: a range holds exactly the live entries, each once.
RangeIsExact ==
    handed = Nothing =>
        \A k \in Keys, fuzzy \in 0..KeyLen :
            get_fuzzy_range_leq_kv(k, fuzzy)
                = simple_get_fuzzy_range_leq_kv(promised, k, fuzzy)

\* get_leq_kv, get_leq and the typed adapter: for every state of the cache, how
\* far the ordered lookup may be from the greatest number not above the one asked
\* for. None only when there is nothing; a greater entry is passed over only if it
\* is in the cache above another cached one (the loop stops at the first); and the
\* value is the current one, unless the answer is an entry of the store that the
\* cache has removed, or has replaced while it holds a lower one.
LeqErrsOnlyByCache ==
    handed = Nothing =>
        \A n \in Typed :
            LET within == {m \in 0..n : promised[to_bytes(m)] # None}
                cached == {m \in 0..n : map[to_bytes(m)] \notin {None, Removed}}
                found == adapter_get_leq_kv(n, KeyLen)
            IN  IF found = None THEN within = {}
                ELSE /\ found.key \in 0..n
                     /\ \A m \in within :
                          m > found.key => m \in cached /\ \E c \in cached : c <= found.key
                     /\ \/ found.value = promised[to_bytes(found.key)]
                        \/ is_removed(to_bytes(found.key))
                        \/ found.key \in cached /\ \E c \in cached : c < found.key
                     /\ get_leq(to_bytes(n), KeyLen) = found.value

=============================================================================
