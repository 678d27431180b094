------------------------------- MODULE Table -------------------------------
(***************************************************************************)
(* The open-addressing hash table of table.c. It keeps the global          *)
(* variables (vm.globals) and the interned strings (vm.strings).           *)
(*                                                                         *)
(* A table is a record of its count, its capacity and its entries, a       *)
(* function on 0..capacity-1. "hash" gives the hash of each key.           *)
(***************************************************************************)
EXTENDS Integers

CONSTANTS
    NoKey,          \* NULL in the key of an entry
    Nil,            \* NIL_VAL
    True,           \* BOOL_VAL(true), what tableDelete leaves in an entry
    MinCapacity     \* the 8 of GROW_CAPACITY

\* Every divisor but 1 is even.
IsPowerOfTwo(n) == n > 0 /\ \A d \in 2..n : n % d = 0 => d % 2 = 0

\* A table of one entry would be full with its first key.
ASSUME TableAssumption == MinCapacity \in Nat \ {1} /\ IsPowerOfTwo(MinCapacity) /\ Nil # True

Entry(k, v) == [key |-> k, value |-> v]
Empty == Entry(NoKey, Nil)
Tombstone == Entry(NoKey, True)

initTable == [count |-> 0, capacity |-> 0, entries |-> [i \in {} |-> Empty]]

\* Fault: growth by half.
GrowCapacity_Half(c) == IF c < MinCapacity THEN MinCapacity ELSE c + c \div 2

GrowCapacity(c) == IF c < MinCapacity THEN MinCapacity ELSE 2 * c

\* The index after d steps from where hash h belongs. The code masks with
\* capacity - 1, as the capacity is a power of two.
Probe(capacity, h, d) == (h + d) % capacity

\* The index at which the search for a key of hash h ends: the first entry on
\* the way that has this key or none. A tombstone ends it as well: the "return
\* entry" of table.c:39 is reached on both branches.
FindEntry(entries, capacity, h, key) ==
    LET Stops(d) == entries[Probe(capacity, h, d)].key \in {NoKey, key}
        steps == CHOOSE d \in 0..(capacity - 1) : Stops(d) /\ \A e \in 0..(d - 1) : ~Stops(e)
    IN  Probe(capacity, h, steps)

\* The value of key, or what "missing" is when there is no such key.
TableGet(t, hash, key, missing) ==
    IF t.count = 0 THEN missing
    ELSE LET entry == t.entries[FindEntry(t.entries, t.capacity, hash[key], key)]
         IN  IF entry.key = NoKey THEN missing ELSE entry.value

\* t with this entry at index i, and this count.
Put(t, i, entry, count) ==
    [count |-> count, capacity |-> t.capacity, entries |-> [t.entries EXCEPT ![i] = entry]]

\* Fault: the entries stay at their indices in the larger array.
AdjustCapacity_InPlace(t, hash, capacity) ==
    [count |-> t.count, capacity |-> capacity,
     entries |-> [i \in 0..(capacity - 1) |-> IF i < t.capacity THEN t.entries[i] ELSE Empty]]

\* Moves the entries that have a key, in the order of the old array.
AdjustCapacity(t, hash, capacity) ==
    LET moved[i \in 0..t.capacity] ==
          IF i = 0
          THEN [count |-> 0, capacity |-> capacity,
                entries |-> [j \in 0..(capacity - 1) |-> Empty]]
          ELSE LET entry == t.entries[i - 1]
                   sofar == moved[i - 1]
                   dest == FindEntry(sofar.entries, capacity, hash[entry.key], entry.key)
               IN  IF entry.key = NoKey THEN sofar
                   ELSE Put(sofar, dest, entry, sofar.count + 1)
    IN  moved[t.capacity]

\* TABLE_MAX_LOAD is 0.75.
MustGrow(t) == 4 * (t.count + 1) > 3 * t.capacity

Grown(t, hash) ==
    IF MustGrow(t) THEN AdjustCapacity(t, hash, GrowCapacity(t.capacity)) ELSE t

\* Is a key that is stored in t new to it, once t has grown?
IsNewKey(t, hash, key) ==
    t.entries[FindEntry(t.entries, t.capacity, hash[key], key)].key = NoKey

\* The rest of tableSet, with room for one more entry.
Store(t, hash, key, value) ==
    LET i == FindEntry(t.entries, t.capacity, hash[key], key)
    IN  Put(t, i, Entry(key, value), IF t.entries[i] = Empty THEN t.count + 1 ELSE t.count)

TableSet(t, hash, key, value) == Store(Grown(t, hash), hash, key, value)

\* Fault: the tombstone is not counted.
TableDelete_CountsDown(t, hash, key) ==
    LET i == FindEntry(t.entries, t.capacity, hash[key], key)
    IN  IF t.count = 0 \/ t.entries[i].key = NoKey THEN t
        ELSE Put(t, i, Tombstone, t.count - 1)

\* An entry that has no key is left alone.
TableDelete(t, hash, key) ==
    IF t.count = 0 THEN t
    ELSE LET i == FindEntry(t.entries, t.capacity, hash[key], key)
         IN  IF t.entries[i].key = NoKey THEN t ELSE Put(t, i, Tombstone, t.count)
-----------------------------------------------------------------------------
(* What makes a table t well formed.                                       *)

Used(t) == {i \in DOMAIN t.entries : t.entries[i] # Empty}
Stored(t) == {i \in DOMAIN t.entries : t.entries[i].key # NoKey}

\* Shape of a table with these keys and values.
IsTable(t, keys, values) ==
    /\ t.capacity = 0 \/ IsPowerOfTwo(t.capacity)
    /\ t.count \in 0..t.capacity
    /\ t.entries \in [0..(t.capacity - 1) -> [key : keys, value : values] \cup {Empty, Tombstone}]

\* A search for a key that is absent ends, as some entry is empty.
SearchEnds(t) == t.capacity > 0 => Used(t) # DOMAIN t.entries

\* Each key is where a search for it ends, and nowhere else.
KeysFound(t, hash) ==
    \A i \in Stored(t) : FindEntry(t.entries, t.capacity, hash[t.entries[i].key], t.entries[i].key) = i
=============================================================================
