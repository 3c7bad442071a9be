------------------------------ MODULE KvqStore ------------------------------
(***************************************************************************)
(* Keys, ordered lookups and the in-memory store of kvq: base_types.rs,      *)
(* memory/simple.rs and the typed adapter of adapters/standard.rs.  A store  *)
(* is a function from byte keys to values, None where there is no entry.     *)
(* A lookup answers Err where the code returns an error.                     *)
(***************************************************************************)
EXTENDS Integers

CONSTANTS
    KeyLen, Radix,  \* keys are KeyLen bytes, a byte is below Radix
    Values,
    None, Err,
    Removed         \* CacheValueType::Removed

ASSUME KvqAssumption ==
    /\ KeyLen \in Nat \ {0} /\ Radix \in Nat \ {0, 1}
    /\ {None, Err, Removed} \cap Values = {}
    /\ None # Removed /\ None # Err /\ Err # Removed

Keys == [1..KeyLen -> 0..(Radix - 1)]

\* The numbers that fit into KeyLen bytes.
Power(bytes) ==
    LET power[l \in 0..bytes] == IF l = 0 THEN 1 ELSE Radix * power[l-1]
    IN  power[bytes]

Typed == 0..(Power(KeyLen) - 1)

\* n without its last bytes.
Shifted(n, bytes) ==
    LET shifted[l \in 0..bytes] == IF l = 0 THEN n ELSE shifted[l-1] \div Radix
    IN  shifted[bytes]

\* impl_kvq_serialize: integers are written big endian ...
LittleEndian(n) == [i \in 1..KeyLen |-> Shifted(n, i - 1) % Radix]
to_bytes(n) == [i \in 1..KeyLen |-> Shifted(n, KeyLen - i) % Radix]

\* ... and read back.
from_bytes(bytes) == CHOOSE n \in Typed : to_bytes(n) = bytes

\* The order of BTreeMap<Vec<u8>, _>, for keys of one length.
KeyLess(a, b) ==
    \E i \in 1..KeyLen : a[i] < b[i] /\ \A j \in 1..(i - 1) : a[j] = b[j]

\* The last fuzzy_bytes bytes of the key set to 0: where a range starts.
base_key(key, fuzzy_bytes) ==
    [i \in 1..KeyLen |-> IF i > KeyLen - fuzzy_bytes THEN 0 ELSE key[i]]

\* range((Included(base_key), Included(key_end)))
InRange(key, fuzzy_bytes) ==
    {k \in Keys : ~KeyLess(k, base_key(key, fuzzy_bytes)) /\ ~KeyLess(key, k)}

First(S) == CHOOSE k \in S : \A other \in S : ~KeyLess(other, k)
Last(S) == CHOOSE k \in S : \A other \in S : ~KeyLess(k, other)

KVQPair(key, value) == [key |-> key, value |-> value]

\* An answer with a pair is neither no answer nor an error.
ASSUME PairAssumption ==
    \A k \in Keys \cup Typed, v \in Values : KVQPair(k, v) \notin {None, Err}

-----------------------------------------------------------------------------
(* KVQSimpleMemoryBackingStore *)

Present(map) == {k \in Keys : map[k] # None}

simple_get_exact(map, key) == IF map[key] = None THEN Err ELSE map[key]

\* get_many_exact: one missing key fails the whole lookup.
simple_get_many_exact(map, keys) ==
    IF \E k \in keys : map[k] = None THEN Err ELSE [k \in keys |-> map[k]]

simple_get_leq_kv(map, key, fuzzy_bytes) ==
    LET found == InRange(key, fuzzy_bytes) \cap Present(map)
    IN  IF fuzzy_bytes > KeyLen THEN Err
        ELSE IF found = {} THEN None
        ELSE KVQPair(Last(found), map[Last(found)])

\* sum_end = 0: every fuzzy byte of the key is 0 already.
NothingBelow(key, fuzzy_bytes) == base_key(key, fuzzy_bytes) = key

simple_get_leq(map, key, fuzzy_bytes) ==
    LET found == simple_get_leq_kv(map, key, fuzzy_bytes)
    IN  IF fuzzy_bytes > KeyLen THEN Err
        ELSE IF NothingBelow(key, fuzzy_bytes) THEN map[key]
        ELSE IF found = None THEN None ELSE found.value

simple_get_fuzzy_range_leq_kv(map, key, fuzzy_bytes) ==
    IF fuzzy_bytes > KeyLen THEN Err
    ELSE {KVQPair(k, map[k]) : k \in InRange(key, fuzzy_bytes) \cap Present(map)}

simple_set(map, key, value) == [map EXCEPT ![key] = value]
simple_delete(map, key) == [map EXCEPT ![key] = None]

\* set_many_ref, delete_many: items is a function from the keys of the batch.
simple_set_many_ref(map, items) ==
    [k \in Keys |-> IF k \in DOMAIN items THEN items[k] ELSE map[k]]
simple_delete_many(map, keys) ==
    [k \in Keys |-> IF k \in keys THEN None ELSE map[k]]

=============================================================================
