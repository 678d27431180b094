--------------------------- MODULE GlobalsProofs ---------------------------
(***************************************************************************)
(* The hash table of table.c, the interned strings and the global          *)
(* variables, for any texts, hashes, addresses and values, any size of the *)
(* tables and any number of steps.                                         *)
(*                                                                         *)
(* A table is seen in three ways: as entries on the way of a search        *)
(* (Slots, Probe, Ends), as what it maps (Pairs), and as what              *)
(* tableFindString comes to (OnPath), which skips the tombstones that      *)
(* findEntry stops at. Loops over a table are recursive functions, which   *)
(* LoopRecursion of Recursion unfolds.                                     *)
(***************************************************************************)
EXTENDS Globals, Recursion, FiniteSetTheorems, SequenceTheorems, TLAPS

(* Probing. *)

\* The indices of an array of n entries.
Slots(n) == 0..(n - 1)

\* A remainder is known by its bounds.
LEMMA Remainder ==
    ASSUME NEW n \in Nat \ {0}, NEW q \in Nat, NEW r \in Slots(n)
    PROVE  (n * q + r) % n = r
<1>1. n * q \in Nat /\ n * q + r \in Nat
  <2>1. n * q \in Nat
    OBVIOUS
  <2> QED
    BY <2>1 DEF Slots
<1> DEFINE a == n * q + r
           p == a \div n
<1>2. p \in Nat /\ n * p + (a % n) = a /\ a % n \in Slots(n)
  <2> HIDE DEF a
  <2> QED
    BY <1>1 DEF Slots, a
<1>3. CASE p = q
  BY <1>2, <1>3 DEF Slots
<1>4. CASE p < q
  <2>1. n * (p + 1) <= n * q
    BY <1>2, <1>4
  <2> QED
    BY <1>2, <2>1 DEF Slots
<1>5. CASE p > q
  <2>1. n * (q + 1) <= n * p
    BY <1>2, <1>5
  <2> QED
    BY <1>2, <2>1 DEF Slots
<1> QED
  BY <1>2, <1>3, <1>4, <1>5

\* Every step of a search is at some index, and some step is at every index.
LEMMA Probing ==
    ASSUME NEW n \in Nat \ {0}, NEW h \in Nat
    PROVE  /\ \A d \in Nat : Probe(n, h, d) \in Slots(n)
           /\ \A i \in Slots(n) : \E d \in Slots(n) : Probe(n, h, d) = i
<1>1. \A d \in Nat : Probe(n, h, d) \in Slots(n)
  BY DEF Probe, Slots
<1>2. ASSUME NEW i \in Slots(n) PROVE \E d \in Slots(n) : Probe(n, h, d) = i
  <2> DEFINE q == h \div n
             r == h % n
  <2>1. q \in Nat /\ r \in Slots(n) /\ h = n * q + r
    BY DEF Slots
  <2> HIDE DEF q, r
  <2>2. CASE r <= i
    <3>1. i - r \in Slots(n) /\ h + (i - r) = n * q + i
      BY <2>1, <2>2 DEF Slots
    <3> QED
      BY <2>1, <3>1, Remainder DEF Probe
  <2>3. CASE i < r
    <3>1. n + i - r \in Slots(n) /\ h + (n + i - r) = n * q + n + i
      BY <2>1, <2>3 DEF Slots
    <3>2. n * q + n = n * (q + 1) /\ q + 1 \in Nat
      BY <2>1
    <3>3. h + (n + i - r) = n * (q + 1) + i
      BY <3>1, <3>2
    <3> QED
      BY <2>1, <3>1, <3>2, <3>3, Remainder DEF Probe
  <2> QED
    BY <2>1, <2>2, <2>3 DEF Slots
<1> QED
  BY <1>1, <1>2

\* Step d of a search from hash h is the first at an index in S.
First(S, n, h, d) ==
    /\ d \in Slots(n) /\ Probe(n, h, d) \in S
    /\ \A e \in 0..(d - 1) : Probe(n, h, e) \notin S

\* The way goes over all indices, so it comes to S.
LEMMA FirstExists ==
    ASSUME NEW n \in Nat \ {0}, NEW h \in Nat, NEW S \in SUBSET Slots(n), S # {}
    PROVE  \E d : First(S, n, h, d)
<1> DEFINE T == {d \in Slots(n) : Probe(n, h, d) \in S}
<1>1. T # {}
  BY Probing
<1>2. T \in SUBSET Nat
  BY DEF Slots
<1>3. PICK d \in T : \A e \in T : d <= e
  <2> HIDE DEF T
  <2> QED
    BY <1>1, <1>2, LeastNatural
<1>4. \A e \in 0..(d - 1) : e \in Slots(n) /\ ~(d <= e)
  BY DEF Slots
<1> QED
  BY <1>3, <1>4 DEF First

\* And it comes to S once for the first time.
LEMMA FirstUnique ==
    ASSUME NEW n \in Nat \ {0}, NEW h \in Nat, NEW S, NEW d, NEW e, First(S, n, h, d), First(S, n, h, e)
    PROVE  d = e
BY DEF First, Slots

-----------------------------------------------------------------------------
(* Searches in a table. *)

\* Where a search for a key ends.
Stops(entries, key) == {i \in DOMAIN entries : entries[i].key \in {NoKey, key}}

\* findEntry returns the first of them.
LEMMA FindEntryFirst ==
    ASSUME NEW n \in Nat \ {0}, NEW h \in Nat, NEW entries, DOMAIN entries = Slots(n), NEW key,
           Stops(entries, key) # {}
    PROVE  \E d : First(Stops(entries, key), n, h, d) /\ FindEntry(entries, n, h, key) = Probe(n, h, d)
<1> DEFINE Stop(d) == entries[Probe(n, h, d)].key \in {NoKey, key}
           Ends(d) == d \in 0..(n - 1) /\ Stop(d) /\ \A e \in 0..(d - 1) : ~Stop(e)
           steps == CHOOSE d \in 0..(n - 1) : Stop(d) /\ \A e \in 0..(d - 1) : ~Stop(e)
<1>1. \A d \in Slots(n) : Stop(d) <=> Probe(n, h, d) \in Stops(entries, key)
  <2>1. \A d \in Slots(n) : Probe(n, h, d) \in Slots(n)
    BY Probing DEF Slots
  <2> QED
    BY <2>1 DEF Stops
<1>2. \A d : First(Stops(entries, key), n, h, d) <=> Ends(d)
  <2>1. \A d \in Slots(n) : \A e \in 0..(d - 1) : e \in Slots(n)
    BY DEF Slots
  <2> HIDE DEF Stop
  <2> QED
    BY <1>1, <2>1 DEF First, Slots
<1>3. PICK d : First(Stops(entries, key), n, h, d)
  <2>1. Stops(entries, key) \in SUBSET Slots(n)
    BY DEF Stops
  <2> QED
    BY <2>1, FirstExists
<1>4. steps \in 0..(n - 1) /\ Stop(steps) /\ \A e \in 0..(steps - 1) : ~Stop(e)
  <2>1. \E x \in 0..(n - 1) : Stop(x) /\ \A e \in 0..(x - 1) : ~Stop(e)
    BY <1>2, <1>3
  <2> HIDE DEF Stop
  <2> QED
    BY <2>1
<1>5. First(Stops(entries, key), n, h, steps)
  <2> HIDE DEF steps, Stop
  <2> QED
    BY <1>2, <1>4
<1>6. FindEntry(entries, n, h, key) = Probe(n, h, steps)
  BY DEF FindEntry
<1> QED
  BY <1>5, <1>6

\* So the search is known by the first stop.
LEMMA FindEntryIs ==
    ASSUME NEW n \in Nat \ {0}, NEW h \in Nat, NEW entries, DOMAIN entries = Slots(n), NEW key,
           NEW d, First(Stops(entries, key), n, h, d)
    PROVE  FindEntry(entries, n, h, key) = Probe(n, h, d)
<1>1. Stops(entries, key) # {}
  BY DEF First
<1> QED
  BY <1>1, FindEntryFirst, FirstUnique

\* What an entry may be, and the tables of n entries.
Entries(V) == [key : Addresses, value : V] \cup {Empty, Tombstone}
Tables(n, V) == [count : Nat, capacity : {n}, entries : [Slots(n) -> Entries(V)]]

\* What TableGet and the others take as "hash".
Hashes == [Addresses -> Nat]

\* An entry has a key or is one of the two that have none.
LEMMA EntryTypes ==
    ASSUME NEW V
    PROVE  /\ NoKey \notin Addresses /\ Empty # Tombstone /\ Empty.key = NoKey /\ Tombstone.key = NoKey
           /\ Empty \in Entries(V) /\ Tombstone \in Entries(V)
           /\ \A e \in Entries(V) : e.key # NoKey =>
                 e.key \in Addresses /\ e.value \in V /\ e = Entry(e.key, e.value)
           /\ \A k \in Addresses, v \in V :
                 /\ Entry(k, v) \in Entries(V) /\ Entry(k, v).key = k /\ Entry(k, v).value = v
                 /\ Entry(k, v) # Empty
<1>1. Nil # True /\ NoKey \notin Addresses
  BY TableAssumption, StringsAssumption
<1>2. Empty # Tombstone /\ Empty.key = NoKey /\ Tombstone.key = NoKey
  <2>1. Empty.value = Nil /\ Tombstone.value = True
    BY DEF Empty, Tombstone, Entry
  <2>2. Empty.key = NoKey /\ Tombstone.key = NoKey
    BY DEF Empty, Tombstone, Entry
  <2> QED
    BY <1>1, <2>1, <2>2
<1>3. \A k \in Addresses, v \in V :
         /\ Entry(k, v) \in [key : Addresses, value : V] /\ Entry(k, v).key = k /\ Entry(k, v).value = v
  BY DEF Entry
<1>4. \A e \in [key : Addresses, value : V] : e.key \in Addresses /\ e.value \in V /\ e = Entry(e.key, e.value)
  BY DEF Entry
<1> HIDE DEF Empty, Tombstone
<1> QED
  BY <1>1, <1>2, <1>3, <1>4 DEF Entries

\* Another entry at an index.
LEMMA Puts ==
    ASSUME NEW n \in Nat \ {0}, NEW V, NEW t \in Tables(n, V), NEW i \in Slots(n), NEW e \in Entries(V),
           NEW c \in Nat
    PROVE  /\ Put(t, i, e, c) \in Tables(n, V)
           /\ Put(t, i, e, c).count = c /\ Put(t, i, e, c).capacity = n
           /\ \A j \in Slots(n) : Put(t, i, e, c).entries[j] = IF j = i THEN e ELSE t.entries[j]
<1> DEFINE a == [t.entries EXCEPT ![i] = e]
<1>1. t.entries \in [Slots(n) -> Entries(V)] /\ t.capacity = n
  BY DEF Tables
<1>2. a \in [Slots(n) -> Entries(V)] /\ \A j \in Slots(n) : a[j] = IF j = i THEN e ELSE t.entries[j]
  BY <1>1
<1> HIDE DEF a
<1> DEFINE u == [count |-> c, capacity |-> n, entries |-> a]
<1>3. u \in Tables(n, V) /\ u.count = c /\ u.capacity = n /\ u.entries = a
  BY <1>2 DEF Tables
<1>4. Put(t, i, e, c) = u
  BY <1>1 DEF Put, a
<1> HIDE DEF u
<1> QED
  BY <1>2, <1>3, <1>4

\* How many entries are not empty, and that one is empty if those are not all.
LEMMA UsedSlots ==
    ASSUME NEW n \in Nat, NEW V, NEW t \in Tables(n, V)
    PROVE  /\ Used(t) \in SUBSET Slots(n) /\ Stored(t) \in SUBSET Used(t)
           /\ IsFiniteSet(Used(t)) /\ Cardinality(Used(t)) \in 0..n
           /\ IsFiniteSet(Stored(t)) /\ Cardinality(Stored(t)) \in 0..Cardinality(Used(t))
           /\ (Cardinality(Used(t)) < n => Used(t) # Slots(n))
           /\ DOMAIN t.entries = Slots(n)
<1>1. DOMAIN t.entries = Slots(n)
  BY DEF Tables
<1>2. Used(t) \in SUBSET Slots(n) /\ Stored(t) \in SUBSET Used(t)
  BY <1>1, EntryTypes DEF Used, Stored
<1>3. IsFiniteSet(Slots(n)) /\ Cardinality(Slots(n)) = n
  <2>1. 0 \in Int /\ n - 1 \in Int /\ (IF 0 > n - 1 THEN 0 ELSE n - 1 - 0 + 1) = n
    OBVIOUS
  <2> DEFINE m == n - 1
  <2> HIDE DEF m
  <2>2. IsFiniteSet(0..m) /\ Cardinality(0..m) = IF 0 > m THEN 0 ELSE m - 0 + 1
    BY <2>1, FS_Interval DEF m
  <2> QED
    BY <2>1, <2>2 DEF m, Slots
<1>4. IsFiniteSet(Used(t)) /\ Cardinality(Used(t)) <= n
  BY <1>2, <1>3, FS_Subset
<1>5. Cardinality(Used(t)) \in Nat
  BY <1>4, FS_CardinalityType
<1>6. IsFiniteSet(Stored(t)) /\ Cardinality(Stored(t)) <= Cardinality(Used(t))
  BY <1>2, <1>4, FS_Subset
<1>7. Cardinality(Stored(t)) \in Nat
  BY <1>6, FS_CardinalityType
<1> QED
  BY <1>1, <1>2, <1>3, <1>4, <1>5, <1>6, <1>7

\* Where a search in t ends.
Ends(t, hash, key) == FindEntry(t.entries, t.capacity, hash[key], key)

\* A search ends at the first entry on its way that has the key or none, if there is one.
LEMMA SearchEntry ==
    ASSUME NEW n \in Nat \ {0}, NEW V, NEW t \in Tables(n, V), NEW hash \in Hashes, NEW key \in Addresses,
           Stops(t.entries, key) # {}
    PROVE  /\ Ends(t, hash, key) \in Slots(n) /\ t.entries[Ends(t, hash, key)].key \in {NoKey, key}
           /\ \E d \in Slots(n) :
                 /\ First(Stops(t.entries, key), n, hash[key], d) /\ Ends(t, hash, key) = Probe(n, hash[key], d)
                 /\ \A e \in 0..(d - 1) :
                       /\ Probe(n, hash[key], e) \in Slots(n)
                       /\ t.entries[Probe(n, hash[key], e)].key \notin {NoKey, key}
<1> DEFINE h == hash[key]
<1>1. h \in Nat /\ t.capacity = n /\ DOMAIN t.entries = Slots(n)
  BY DEF Hashes, Tables
<1> HIDE DEF h
<1>2. PICK d : First(Stops(t.entries, key), n, h, d) /\ FindEntry(t.entries, n, h, key) = Probe(n, h, d)
  BY <1>1, FindEntryFirst
<1>3. d \in Slots(n) /\ Probe(n, h, d) \in Stops(t.entries, key)
      /\ \A e \in 0..(d - 1) : Probe(n, h, e) \notin Stops(t.entries, key)
  BY <1>2 DEF First
<1>4. d \in Nat /\ \A e \in 0..(d - 1) : e \in Nat
  BY <1>3 DEF Slots
<1>5. \A e \in 0..(d - 1) : Probe(n, h, e) \in Slots(n) /\ t.entries[Probe(n, h, e)].key \notin {NoKey, key}
  BY <1>1, <1>3, <1>4, Probing DEF Stops
<1>6. Ends(t, hash, key) = Probe(n, h, d)
  BY <1>1, <1>2 DEF Ends, h
<1>7. Probe(n, h, d) \in Slots(n) /\ t.entries[Probe(n, h, d)].key \in {NoKey, key}
  BY <1>1, <1>3 DEF Stops
<1> QED
  BY <1>2, <1>3, <1>5, <1>6, <1>7 DEF h

\* Some entry is empty: so every search ends.
LEMMA EmptyStops ==
    ASSUME NEW n \in Nat \ {0}, NEW V, NEW t \in Tables(n, V), Used(t) # Slots(n), NEW key
    PROVE  Stops(t.entries, key) # {}
<1>1. PICK i \in Slots(n) : i \notin Used(t)
  BY UsedSlots
<1>2. i \in DOMAIN t.entries /\ t.entries[i] = Empty
  BY <1>1, UsedSlots DEF Used
<1> QED
  BY <1>2, EntryTypes DEF Stops

\* A search ends where it first can.
LEMMA SearchIs ==
    ASSUME NEW n \in Nat \ {0}, NEW V, NEW t \in Tables(n, V), NEW hash \in Hashes, NEW key \in Addresses,
           NEW d \in Slots(n), t.entries[Probe(n, hash[key], d)].key \in {NoKey, key},
           \A e \in 0..(d - 1) : t.entries[Probe(n, hash[key], e)].key \notin {NoKey, key}
    PROVE  Ends(t, hash, key) = Probe(n, hash[key], d)
<1> DEFINE h == hash[key]
<1>1. h \in Nat /\ t.capacity = n /\ DOMAIN t.entries = Slots(n)
  BY DEF Hashes, Tables
<1> HIDE DEF h
<1>2. d \in Nat
  BY DEF Slots
<1>3. Probe(n, h, d) \in Slots(n)
  BY <1>1, <1>2, Probing
<1>4. First(Stops(t.entries, key), n, h, d)
  BY <1>1, <1>3 DEF First, Stops, h
<1> QED
  BY <1>1, <1>4, FindEntryIs DEF Ends, h

\* What a table of strings is searched for: there is an entry for this key
\* before the first empty one.
OnPath(t, h, key) ==
    \E d \in Slots(t.capacity) :
        /\ t.entries[Probe(t.capacity, h, d)].key = key
        /\ \A e \in 0..(d - 1) : t.entries[Probe(t.capacity, h, e)] # Empty

\* What a table maps.
Pairs(t) == {t.entries[i] : i \in Stored(t)}

\* All but what is mapped for this key.
Without(pairs, key) == {e \in pairs : e.key # key}

\* u is t with this value for this key.
Filled(u, t, hash, key, v) ==
    /\ Ends(u, hash, key) = Ends(t, hash, key) /\ OnPath(u, hash[key], key)
    /\ \A k \in Addresses : OnPath(t, hash[k], k) => OnPath(u, hash[k], k)
    /\ KeysFound(t, hash) => KeysFound(u, hash) /\ Pairs(u) = Without(Pairs(t), key) \cup {Entry(key, v)}
    /\ \A k \in Addresses : (\E e \in Pairs(u) : e.key = k) <=> k = key \/ (\E e \in Pairs(t) : e.key = k)
    /\ Cardinality(Used(u)) =
          IF t.entries[Ends(t, hash, key)] = Empty THEN Cardinality(Used(t)) + 1 ELSE Cardinality(Used(t))

\* What is always kept of keys by another entry for one of them, at the index where a search
\* for it ends.
LEMMA FillKeepsKeys ==
    ASSUME NEW n \in Nat \ {0}, NEW V, NEW t \in Tables(n, V), NEW hash \in Hashes, NEW key \in Addresses,
           Stops(t.entries, key) # {}, NEW v \in V, NEW c \in Nat
    PROVE  LET u == Put(t, Ends(t, hash, key), Entry(key, v), c)
           IN  /\ Ends(u, hash, key) = Ends(t, hash, key)
               /\ OnPath(u, hash[key], key)
               /\ \A k \in Addresses : OnPath(t, hash[k], k) => OnPath(u, hash[k], k)
               /\ KeysFound(t, hash) => KeysFound(u, hash)
<1> DEFINE i == Ends(t, hash, key)
           e == Entry(key, v)
           u == Put(t, i, e, c)
           P(k, d) == Probe(n, hash[k], d)
<1>1. i \in Slots(n) /\ t.entries[i].key \in {NoKey, key}
  BY SearchEntry
<1>2. PICK d \in Slots(n) :
         /\ i = P(key, d)
         /\ \A x \in 0..(d - 1) : P(key, x) \in Slots(n) /\ t.entries[P(key, x)].key \notin {NoKey, key}
  BY SearchEntry
<1> HIDE DEF i
<1>3. e \in Entries(V) /\ e.key = key /\ e # Empty
  BY EntryTypes
<1> HIDE DEF e
<1>4. /\ u \in Tables(n, V) /\ u.capacity = n /\ t.capacity = n
      /\ \A j \in Slots(n) : u.entries[j] = IF j = i THEN e ELSE t.entries[j]
  <2>1. t.capacity = n
    BY DEF Tables
  <2> QED
    BY <1>1, <1>3, <2>1, Puts
<1>5. DOMAIN u.entries = Slots(n) /\ DOMAIN t.entries = Slots(n)
  BY <1>4 DEF Tables
<1>6. \A j \in Slots(n) : t.entries[j] \in Entries(V)
  BY DEF Tables
<1> HIDE DEF u
<1>7. \A k \in Addresses, x \in Nat : P(k, x) \in Slots(n)
  BY Probing DEF Hashes
<1>8. \A x \in Slots(n) : x \in Nat /\ \A y \in 0..(x - 1) : y \in Nat /\ y \in Slots(n)
  BY DEF Slots
<1>9. NoKey # key /\ NoKey \notin Addresses /\ Empty.key = NoKey
  BY EntryTypes
<1> HIDE DEF P
<1>10. i = Ends(u, hash, key)
  <2>1. u.entries[P(key, d)].key = key
    BY <1>1, <1>2, <1>3, <1>4
  <2>2. \A x \in 0..(d - 1) : u.entries[P(key, x)].key \notin {NoKey, key}
    BY <1>1, <1>2, <1>3, <1>4, <1>8, <2>1
  <2> QED
    BY <1>2, <1>4, <2>1, <2>2, SearchIs DEF P
<1>11. OnPath(u, hash[key], key)
  <2>1. u.entries[P(key, d)].key = key
    BY <1>1, <1>2, <1>3, <1>4
  <2>2. \A x \in 0..(d - 1) : u.entries[P(key, x)] # Empty
    BY <1>1, <1>2, <1>3, <1>4, <1>9
  <2> QED
    BY <1>2, <1>4, <2>1, <2>2 DEF OnPath, P
<1>12. ASSUME NEW k \in Addresses, OnPath(t, hash[k], k) PROVE OnPath(u, hash[k], k)
  <2>1. PICK x \in Slots(n) : t.entries[P(k, x)].key = k /\ \A y \in 0..(x - 1) : t.entries[P(k, y)] # Empty
    BY <1>4, <1>12 DEF OnPath, P
  <2>2. u.entries[P(k, x)].key = k
    BY <1>1, <1>3, <1>4, <1>7, <1>8, <1>9, <2>1
  <2>3. \A y \in 0..(x - 1) : u.entries[P(k, y)] # Empty
    BY <1>3, <1>4, <1>7, <1>8, <2>1
  <2> QED
    BY <1>4, <2>2, <2>3 DEF OnPath, P
<1>13. ASSUME KeysFound(t, hash) PROVE KeysFound(u, hash)
  <2> SUFFICES ASSUME NEW j \in Stored(u), j # i PROVE Ends(u, hash, u.entries[j].key) = j
    <3>1. i \in Stored(u) => u.entries[i].key = key
      BY <1>1, <1>3, <1>4
    <3> QED
      BY <1>10, <3>1 DEF KeysFound, Ends
  <2> DEFINE k == t.entries[j].key
  <2>1. j \in Slots(n) /\ u.entries[j] = t.entries[j] /\ k # NoKey
    BY <1>4, <1>5 DEF Stored
  <2>2. j \in Stored(t) /\ k \in Addresses
    BY <1>5, <1>6, <2>1, EntryTypes DEF Stored
  <2>3. Ends(t, hash, k) = j
    BY <1>13, <2>2 DEF KeysFound, Ends
  <2>4. j \in Stops(t.entries, k)
    BY <1>5, <2>1 DEF Stops
  <2> HIDE DEF k
  <2>5. PICK x \in Slots(n) :
           /\ j = P(k, x)
           /\ \A y \in 0..(x - 1) : P(k, y) \in Slots(n) /\ t.entries[P(k, y)].key \notin {NoKey, k}
    BY <2>2, <2>3, <2>4, SearchEntry DEF P
  <2>6. \A y \in 0..(x - 1) : u.entries[P(k, y)].key \notin {NoKey, k}
    BY <1>1, <1>3, <1>4, <1>9, <2>5
  <2>7. u.entries[P(k, x)].key = k
    BY <2>1, <2>5 DEF k
  <2>8. Ends(u, hash, k) = j
    BY <1>4, <2>2, <2>5, <2>6, <2>7, SearchIs DEF P
  <2> QED
    BY <2>1, <2>8 DEF k
<1> QED
  BY <1>10, <1>11, <1>12, <1>13 DEF u, e, i

\* The same for what it maps keys to, and for how much of it is used.
LEMMA FillKeepsPairs ==
    ASSUME NEW n \in Nat \ {0}, NEW V, NEW t \in Tables(n, V), NEW hash \in Hashes, NEW key \in Addresses,
           Stops(t.entries, key) # {}, NEW v \in V, NEW c \in Nat
    PROVE  LET i == Ends(t, hash, key)
               u == Put(t, i, Entry(key, v), c)
           IN  /\ KeysFound(t, hash) => Pairs(u) = Without(Pairs(t), key) \cup {Entry(key, v)}
               /\ \A k \in Addresses : (\E e \in Pairs(u) : e.key = k) <=> k = key \/ (\E e \in Pairs(t) : e.key = k)
               /\ Used(u) = Used(t) \cup {i}
               /\ Cardinality(Used(u)) = IF t.entries[i] = Empty THEN Cardinality(Used(t)) + 1 ELSE Cardinality(Used(t))
<1> DEFINE i == Ends(t, hash, key)
           a == Entry(key, v)
           u == Put(t, i, a, c)
<1>1. i \in Slots(n) /\ t.entries[i].key \in {NoKey, key}
  BY SearchEntry
<1>2. \A j \in Stored(t) : t.entries[j].key = key /\ KeysFound(t, hash) => j = i
  BY DEF KeysFound, Ends
<1> HIDE DEF i
<1>3. a \in Entries(V) /\ a.key = key /\ a # Empty
  BY EntryTypes
<1> HIDE DEF a
<1>4. /\ u \in Tables(n, V)
      /\ \A j \in Slots(n) : u.entries[j] = IF j = i THEN a ELSE t.entries[j]
  BY <1>1, <1>3, Puts DEF Tables
<1>5. DOMAIN u.entries = Slots(n) /\ DOMAIN t.entries = Slots(n)
  BY <1>4 DEF Tables
<1>6. NoKey # key
  BY EntryTypes
<1> HIDE DEF u
<1>7. Stored(u) = Stored(t) \cup {i} /\ Used(u) = Used(t) \cup {i}
  BY <1>1, <1>3, <1>4, <1>5, <1>6 DEF Stored, Used
<1>8. \A j \in Stored(t) : j \in Slots(n)
  BY <1>5 DEF Stored
<1>9. KeysFound(t, hash) => Pairs(u) = Without(Pairs(t), key) \cup {a}
  <2> SUFFICES ASSUME KeysFound(t, hash) PROVE Pairs(u) = Without(Pairs(t), key) \cup {a}
    OBVIOUS
  <2>1. ASSUME NEW e PROVE e \in Pairs(u) <=> e = a \/ (e \in Pairs(t) /\ e.key # key)
    <3>1. e \in Pairs(u) <=> e = a \/ \E j \in Stored(t) : j # i /\ e = t.entries[j]
      BY <1>1, <1>4, <1>7, <1>8 DEF Pairs
    <3>2. e \in Pairs(t) /\ e.key # key <=> \E j \in Stored(t) : e = t.entries[j] /\ e.key # key
      BY DEF Pairs
    <3>3. \A j \in Stored(t) : t.entries[j].key # key <=> j # i
      BY <1>1, <1>2 DEF Stored
    <3> QED
      BY <3>1, <3>2, <3>3
  <2> QED
    BY <2>1 DEF Without
<1>10. ASSUME NEW k \in Addresses
       PROVE  (\E e \in Pairs(u) : e.key = k) <=> k = key \/ (\E e \in Pairs(t) : e.key = k)
  <2>1. (\E e \in Pairs(u) : e.key = k) <=> \E j \in Stored(u) : u.entries[j].key = k
    BY DEF Pairs
  <2>2. (\E e \in Pairs(t) : e.key = k) <=> \E j \in Stored(t) : t.entries[j].key = k
    BY DEF Pairs
  <2>3. (\E j \in Stored(u) : u.entries[j].key = k) <=> k = key \/ \E j \in Stored(t) : t.entries[j].key = k
    BY <1>1, <1>3, <1>4, <1>7, <1>8, EntryTypes
  <2> QED
    BY <2>1, <2>2, <2>3
<1>11. Cardinality(Used(u)) = IF t.entries[i] = Empty THEN Cardinality(Used(t)) + 1 ELSE Cardinality(Used(t))
  <2>1. IsFiniteSet(Used(t))
    BY UsedSlots
  <2>2. i \in Used(t) <=> t.entries[i] # Empty
    BY <1>1, <1>5 DEF Used
  <2>3. CASE i \in Used(t)
    BY <1>7, <2>2, <2>3
  <2>4. CASE i \notin Used(t)
    BY <1>7, <2>1, <2>2, <2>4, FS_AddElement
  <2> QED
    BY <2>3, <2>4
<1> QED
  BY <1>7, <1>9, <1>10, <1>11 DEF u, a, i

\* The entry at which a search for its key ends is the place for it, for all purposes.
LEMMA Fill ==
    ASSUME NEW n \in Nat \ {0}, NEW V, NEW t \in Tables(n, V), NEW hash \in Hashes, NEW key \in Addresses,
           Stops(t.entries, key) # {}, NEW v \in V, NEW c \in Nat
    PROVE  Filled(Put(t, Ends(t, hash, key), Entry(key, v), c), t, hash, key, v)
<1> DEFINE u == Put(t, Ends(t, hash, key), Entry(key, v), c)
<1>1. /\ Ends(u, hash, key) = Ends(t, hash, key)
      /\ OnPath(u, hash[key], key)
      /\ \A k \in Addresses : OnPath(t, hash[k], k) => OnPath(u, hash[k], k)
      /\ KeysFound(t, hash) => KeysFound(u, hash)
  BY FillKeepsKeys
<1>2. /\ KeysFound(t, hash) => Pairs(u) = Without(Pairs(t), key) \cup {Entry(key, v)}
      /\ \A k \in Addresses : (\E e \in Pairs(u) : e.key = k) <=> k = key \/ (\E e \in Pairs(t) : e.key = k)
      /\ Cardinality(Used(u)) =
            IF t.entries[Ends(t, hash, key)] = Empty THEN Cardinality(Used(t)) + 1 ELSE Cardinality(Used(t))
  BY FillKeepsPairs
<1> HIDE DEF u
<1>3. Filled(u, t, hash, key, v)
  BY <1>1, <1>2 DEF Filled
<1> QED
  BY <1>3 DEF u

\* An entry that is put anywhere leaves a table.
LEMMA PutTyped ==
    ASSUME NEW n \in Nat, NEW V, NEW t \in Tables(n, V), NEW i, NEW e \in Entries(V), NEW c \in Nat
    PROVE  Put(t, i, e, c) \in Tables(n, V)
<1> DEFINE a == [t.entries EXCEPT ![i] = e]
<1>1. t.entries \in [Slots(n) -> Entries(V)] /\ t.capacity = n
  BY DEF Tables
<1>2. a \in [Slots(n) -> Entries(V)]
  BY <1>1
<1> HIDE DEF a
<1>3. [count |-> c, capacity |-> n, entries |-> a] \in Tables(n, V)
  BY <1>2 DEF Tables
<1> QED
  BY <1>1, <1>3 DEF Put, a

-----------------------------------------------------------------------------
(* Growth. *)

\* A round of adjustCapacity.
Move(s, entry, hash) ==
    IF entry.key = NoKey THEN s ELSE Put(s, Ends(s, hash, entry.key), entry, s.count + 1)

\* The new array.
Fresh(n) == [count |-> 0, capacity |-> n, entries |-> [j \in 0..(n - 1) |-> Empty]]

\* The tables that the loop of adjustCapacity goes through.
MovesThrough(w, n, m, t, hash, V) ==
    /\ w \in [0..n -> Tables(m, V)] /\ w[0] = Fresh(m) /\ AdjustCapacity(t, hash, m) = w[n]
    /\ \A k \in 1..n : w[k] = Move(w[k - 1], t.entries[k - 1], hash)

\* adjustCapacity is its loop.
LEMMA AdjustLoop ==
    ASSUME NEW n \in Nat, NEW m \in Nat \ {0}, NEW V, NEW t \in Tables(n, V), NEW hash \in Hashes
    PROVE  \E w : MovesThrough(w, n, m, t, hash, V)
<1> DEFINE A == Tables(m, V)
           moved[i \in 0..t.capacity] ==
              IF i = 0 THEN Fresh(m)
              ELSE LET entry == t.entries[i - 1]
                       sofar == moved[i - 1]
                       dest == FindEntry(sofar.entries, m, hash[entry.key], entry.key)
                   IN  IF entry.key = NoKey THEN sofar ELSE Put(sofar, dest, entry, sofar.count + 1)
           step == [k \in 1..n |-> [s \in A |-> Move(s, t.entries[k - 1], hash)]]
<1>1. t.capacity = n /\ t.entries \in [Slots(n) -> Entries(V)]
  BY DEF Tables
<1>2. \A k \in 1..n : t.entries[k - 1] \in Entries(V)
  BY <1>1 DEF Slots
<1>3. \A s \in A : s.capacity = m /\ s.count + 1 \in Nat
  BY DEF Tables
<1>4. Fresh(m) \in A
  <2> DEFINE f == [j \in 0..(m - 1) |-> Empty]
  <2>1. f \in [Slots(m) -> Entries(V)]
    BY EntryTypes DEF Slots
  <2> HIDE DEF f
  <2>2. [count |-> 0, capacity |-> m, entries |-> f] \in A
    BY <2>1 DEF Tables
  <2> QED
    BY <2>2 DEF Fresh, f
<1>5. \A s \in A, e \in Entries(V) : Move(s, e, hash) \in A
  BY <1>3, PutTyped DEF Move
<1> HIDE DEF A
<1>6. step \in [1..n -> [A -> A]]
  BY <1>2, <1>5
<1>7. PICK f \in [0..n -> A] : FollowsLoop(f, n, Fresh(m), step)
  <2> HIDE DEF step
  <2> QED
    BY <1>4, <1>6, LoopRecursion
<1>8. \A k \in 1..n : f[k - 1] \in A /\ step[k][f[k - 1]] = Move(f[k - 1], t.entries[k - 1], hash)
  <2>1. \A k \in 1..n : k - 1 \in 0..n
    OBVIOUS
  <2> QED
    BY <1>7, <2>1
<1>9. f[0] = Fresh(m) /\ \A k \in 1..n : f[k] = Move(f[k - 1], t.entries[k - 1], hash)
  <2>1. f[0] = Fresh(m)
    BY <1>7 DEF FollowsLoop
  <2>2. \A k \in 1..n : k \in 0..n /\ k # 0
    OBVIOUS
  <2>3. \A k \in 0..n : f[k] = IF k = 0 THEN Fresh(m) ELSE step[k][f[k - 1]]
    <3> HIDE DEF step
    <3> QED
      BY <1>7 DEF FollowsLoop
  <2> HIDE DEF step
  <2> QED
    BY <1>8, <2>1, <2>2, <2>3
<1> DEFINE Round(g, i) ==
              IF i = 0 THEN Fresh(m)
              ELSE LET entry == t.entries[i - 1]
                       sofar == g[i - 1]
                       dest == FindEntry(sofar.entries, m, hash[entry.key], entry.key)
                   IN  IF entry.key = NoKey THEN sofar ELSE Put(sofar, dest, entry, sofar.count + 1)
<1>10. \A k \in 1..n : \A g : g[k - 1] \in A => Round(g, k) = Move(g[k - 1], t.entries[k - 1], hash)
  <2> SUFFICES ASSUME NEW k \in 1..n, NEW g, g[k - 1] \in A
               PROVE  Round(g, k) = Move(g[k - 1], t.entries[k - 1], hash)
    OBVIOUS
  <2>1. k # 0
    OBVIOUS
  <2>2. g[k - 1].capacity = m
    BY <1>3
  <2> QED
    BY <2>1, <2>2 DEF Move, Ends
<1>11. f = [i \in 0..t.capacity |-> Round(f, i)]
  <2>1. Round(f, 0) = Fresh(m)
    OBVIOUS
  <2>2. \A k \in 0..n : f[k] = Round(f, k)
    <3>1. \A k \in 0..n : k = 0 \/ k \in 1..n
      OBVIOUS
    <3>2. \A k \in 1..n : f[k] = Round(f, k)
      <4> HIDE DEF Round
      <4> QED
        BY <1>8, <1>9, <1>10
    <3> HIDE DEF Round
    <3> QED
      BY <1>9, <2>1, <3>1, <3>2
  <2> HIDE DEF Round
  <2> QED
    BY <1>1, <1>7, <2>2
<1>12. moved = [i \in 0..t.capacity |-> Round(moved, i)]
  <2>1. \E g : g = [i \in 0..t.capacity |-> Round(g, i)]
    BY <1>11
  <2> DEFINE some == CHOOSE g : g = [i \in 0..t.capacity |-> Round(g, i)]
  <2>2. some = [i \in 0..t.capacity |-> Round(some, i)]
    <3> HIDE DEF Round
    <3> QED
      BY <2>1
  <2>3. moved = some
    BY DEF Round
  <2> HIDE DEF some, moved, Round
  <2> QED
    BY <2>2, <2>3
<1>13. AdjustCapacity(t, hash, m) = moved[n]
  <2>1. AdjustCapacity(t, hash, m) = moved[t.capacity]
    BY Zenon DEF AdjustCapacity, Fresh
  <2> HIDE DEF moved
  <2> QED
    BY <1>1, <2>1
<1> HIDE DEF moved
<1>14. DOMAIN moved = 0..n /\ moved[0] = Fresh(m) /\ \A k \in 1..n : moved[k] = Round(moved, k)
  <2>1. Round(moved, 0) = Fresh(m)
    OBVIOUS
  <2>2. 0 \in 0..n /\ \A k \in 1..n : k \in 0..n
    OBVIOUS
  <2> HIDE DEF Round
  <2> QED
    BY <1>1, <1>12, <2>1, <2>2
<1> HIDE DEF Round
<1> DEFINE Bad == {k \in 0..n : moved[k] # f[k]}
<1>15. Bad = {}
  <2> SUFFICES ASSUME Bad # {} PROVE FALSE
    OBVIOUS
  <2>1. PICK k \in Bad : \A j \in Bad : k <= j
    <3>1. Bad \in SUBSET Nat
      OBVIOUS
    <3> HIDE DEF Bad
    <3> QED
      BY <3>1, LeastNatural
  <2>2. k \in 1..n /\ k - 1 \in 0..n /\ ~(k <= k - 1)
    BY <1>9, <1>14, <2>1
  <2>3. moved[k - 1] = f[k - 1]
    BY <2>1, <2>2
  <2>4. moved[k] = f[k]
    BY <1>8, <1>9, <1>10, <1>14, <2>2, <2>3
  <2> QED
    BY <2>1, <2>4
<1>16. AdjustCapacity(t, hash, m) = f[n]
  BY <1>13, <1>15
<1>17. MovesThrough(f, n, m, t, hash, V)
  BY <1>7, <1>9, <1>16 DEF A, MovesThrough
<1> QED
  BY <1>17

\* No key is in two entries.
Distinct(t) == \A i, j \in Stored(t) : t.entries[i].key = t.entries[j].key => i = j

\* The keys that the first k rounds have moved.
Before(t, k) == {j \in Stored(t) : j < k}

\* s has what t has in its first k entries.
Moved(s, t, hash, k) ==
    /\ s.count = Cardinality(Before(t, k)) /\ Cardinality(Used(s)) <= s.count
    /\ KeysFound(s, hash)
    /\ \A key \in Addresses : (\E e \in Pairs(s) : e.key = key) <=> \E j \in Before(t, k) : t.entries[j].key = key
    /\ Distinct(t) => Pairs(s) = {t.entries[j] : j \in Before(t, k)}

\* No round has moved nothing.
LEMMA FreshMoved ==
    ASSUME NEW n \in Nat, NEW m \in Nat \ {0}, NEW V, NEW t \in Tables(n, V), NEW hash \in Hashes
    PROVE  Moved(Fresh(m), t, hash, 0)
<1> DEFINE s == Fresh(m)
<1>1. s.count = 0 /\ DOMAIN s.entries = Slots(m) /\ \A i \in Slots(m) : s.entries[i] = Empty
  BY DEF Fresh, Slots
<1> HIDE DEF s
<1>2. Used(s) = {} /\ Stored(s) = {} /\ Pairs(s) = {}
  BY <1>1, EntryTypes DEF Used, Stored, Pairs
<1>3. Before(t, 0) = {}
  BY UsedSlots DEF Before, Slots
<1>4. Cardinality(Before(t, 0)) = 0 /\ Cardinality(Used(s)) = 0
  BY <1>2, <1>3, FS_EmptySet
<1>5. KeysFound(s, hash)
  BY <1>2 DEF KeysFound
<1> QED
  BY <1>1, <1>2, <1>3, <1>4, <1>5 DEF Moved, s

\* A round moves one key or none.
LEMMA BeforeGrows ==
    ASSUME NEW n \in Nat, NEW V, NEW t \in Tables(n, V), NEW k \in 1..n
    PROVE  /\ Before(t, k) = IF t.entries[k - 1].key = NoKey THEN Before(t, k - 1) ELSE Before(t, k - 1) \cup {k - 1}
           /\ k - 1 \notin Before(t, k - 1) /\ IsFiniteSet(Before(t, k - 1))
           /\ Cardinality(Before(t, k - 1)) \in 0..n
<1> DEFINE S == Before(t, k - 1)
<1>1. Stored(t) \in SUBSET Slots(n) /\ IsFiniteSet(Stored(t)) /\ Cardinality(Stored(t)) \in 0..n
  BY UsedSlots
<1>2. k - 1 \in Stored(t) <=> t.entries[k - 1].key # NoKey
  <2>1. k - 1 \in DOMAIN t.entries
    BY UsedSlots DEF Slots
  <2> QED
    BY <2>1 DEF Stored
<1>3. \A j \in Stored(t) : j \in Int /\ (j < k <=> j < k - 1 \/ j = k - 1)
  BY <1>1 DEF Slots
<1>4. Before(t, k) = IF t.entries[k - 1].key = NoKey THEN S ELSE S \cup {k - 1}
  BY <1>2, <1>3 DEF Before
<1>5. k - 1 \notin S /\ S \subseteq Stored(t)
  BY DEF Before
<1>6. IsFiniteSet(S) /\ Cardinality(S) <= Cardinality(Stored(t))
  BY <1>1, <1>5, FS_Subset
<1>7. Cardinality(S) \in Nat
  BY <1>6, FS_CardinalityType
<1> QED
  BY <1>1, <1>4, <1>5, <1>6, <1>7

\* A round finds the place for its entry, as the new array is larger than what was moved.
LEMMA MoveOne ==
    ASSUME NEW n \in Nat, NEW m \in Nat \ {0}, n < m, NEW V, NEW t \in Tables(n, V), NEW hash \in Hashes,
           NEW k \in 1..n, NEW s \in Tables(m, V), Moved(s, t, hash, k - 1)
    PROVE  Moved(Move(s, t.entries[k - 1], hash), t, hash, k)
<1> DEFINE entry == t.entries[k - 1]
           key == entry.key
           u == Put(s, Ends(s, hash, key), Entry(key, entry.value), s.count + 1)
           S == Before(t, k - 1)
<1>1. entry \in Entries(V)
  BY DEF Tables, Slots
<1>2. /\ Before(t, k) = IF key = NoKey THEN S ELSE S \cup {k - 1}
      /\ k - 1 \notin S /\ IsFiniteSet(S) /\ Cardinality(S) \in 0..n
  BY BeforeGrows
<1>3. CASE key = NoKey
  BY <1>2, <1>3 DEF Move, Moved
<1>4. CASE key # NoKey
  <2>1. key \in Addresses /\ entry.value \in V /\ entry = Entry(key, entry.value)
    BY <1>1, <1>4, EntryTypes
  <2>2. Move(s, entry, hash) = u
    BY <1>4, <2>1 DEF Move
  <2>3. /\ s.count = Cardinality(S) /\ Cardinality(Used(s)) <= s.count /\ KeysFound(s, hash)
        /\ \A a \in Addresses : (\E e \in Pairs(s) : e.key = a) <=> \E j \in S : t.entries[j].key = a
        /\ Distinct(t) => Pairs(s) = {t.entries[j] : j \in S}
    BY DEF Moved
  <2> HIDE DEF key, S
  <2>4. Cardinality(Used(s)) \in Nat /\ Used(s) # Slots(m) /\ s.count + 1 \in Nat
    <3>1. Cardinality(Used(s)) \in Nat /\ (Cardinality(Used(s)) < m => Used(s) # Slots(m))
      BY UsedSlots
    <3>2. Cardinality(Used(s)) < m /\ s.count + 1 \in Nat
      BY <1>2, <2>3, <3>1
    <3> QED
      BY <3>1, <3>2
  <2>5. Stops(s.entries, key) # {}
    BY <2>4, EmptyStops
  <2>6. Filled(u, s, hash, key, entry.value)
    BY <2>1, <2>4, <2>5, Fill
  <2>7. /\ KeysFound(u, hash) /\ Pairs(u) = Without(Pairs(s), key) \cup {entry}
        /\ \A a \in Addresses : (\E e \in Pairs(u) : e.key = a) <=> a = key \/ (\E e \in Pairs(s) : e.key = a)
        /\ Cardinality(Used(u)) \in {Cardinality(Used(s)), Cardinality(Used(s)) + 1}
    <3> HIDE DEF u, entry
    <3> QED
      BY <2>1, <2>3, <2>6 DEF Filled
  <2>8. u.count = s.count + 1
    BY DEF Put
  <2> HIDE DEF u
  <2>9. Before(t, k) = S \cup {k - 1} /\ Cardinality(Before(t, k)) = Cardinality(S) + 1
    BY <1>2, <1>4, FS_AddElement
  <2>10. u.count = Cardinality(Before(t, k)) /\ Cardinality(Used(u)) <= u.count
    BY <1>2, <2>3, <2>4, <2>7, <2>8, <2>9
  <2>11. \A a \in Addresses : (\E e \in Pairs(u) : e.key = a) <=> \E j \in Before(t, k) : t.entries[j].key = a
    BY <2>3, <2>7, <2>9 DEF key
  <2>12. ASSUME Distinct(t) PROVE Pairs(u) = {t.entries[j] : j \in Before(t, k)}
    <3>1. Pairs(s) = {t.entries[j] : j \in S}
      BY <2>3, <2>12
    <3>2. \A j \in S : j \in Stored(t) /\ j # k - 1
      BY <1>2 DEF S, Before
    <3>3. k - 1 \in Stored(t)
      BY <2>9 DEF Before
    <3>4. \A j \in S : t.entries[j].key # key
      BY <2>12, <3>2, <3>3 DEF Distinct, key
    <3>5. \A e \in Pairs(s) : e.key # key
      BY <3>1, <3>4
    <3>6. Pairs(u) = Pairs(s) \cup {entry}
      BY <2>7, <3>5 DEF Without
    <3> HIDE DEF S
    <3> QED
      BY <2>9, <3>1, <3>6
  <2> QED
    BY <2>2, <2>7, <2>10, <2>11, <2>12 DEF Moved
<1> QED
  BY <1>3, <1>4

\* What is in the table after it has grown, and what is always kept.
LEMMA Adjusted ==
    ASSUME NEW n \in Nat, NEW m \in Nat \ {0}, n < m, NEW V, NEW t \in Tables(n, V), NEW hash \in Hashes
    PROVE  LET u == AdjustCapacity(t, hash, m)
           IN  /\ u \in Tables(m, V) /\ u.count <= Cardinality(Used(t)) /\ Cardinality(Used(u)) <= u.count
               /\ KeysFound(u, hash)
               /\ \A k \in Addresses : (\E e \in Pairs(u) : e.key = k) <=> (\E e \in Pairs(t) : e.key = k)
               /\ Distinct(t) => Pairs(u) = Pairs(t)
<1>1. PICK w \in [0..n -> Tables(m, V)] :
         /\ w[0] = Fresh(m) /\ \A k \in 1..n : w[k] = Move(w[k - 1], t.entries[k - 1], hash)
         /\ AdjustCapacity(t, hash, m) = w[n]
  <2>1. \E w : MovesThrough(w, n, m, t, hash, V)
    BY AdjustLoop
  <2> QED
    BY <2>1 DEF MovesThrough
<1> DEFINE Bad == {k \in 0..n : ~Moved(w[k], t, hash, k)}
<1>2. Bad = {}
  <2> SUFFICES ASSUME Bad # {} PROVE FALSE
    OBVIOUS
  <2>1. PICK k \in Bad : \A j \in Bad : k <= j
    <3>1. Bad \in SUBSET Nat
      OBVIOUS
    <3> HIDE DEF Bad
    <3> QED
      BY <3>1, LeastNatural
  <2>2. Moved(w[0], t, hash, 0)
    BY <1>1, FreshMoved
  <2>3. k \in 1..n /\ k - 1 \in 0..n /\ ~(k <= k - 1)
    BY <2>1, <2>2
  <2>4. Moved(w[k - 1], t, hash, k - 1)
    BY <2>1, <2>3
  <2>5. Moved(w[k], t, hash, k)
    BY <1>1, <2>3, <2>4, MoveOne
  <2> QED
    BY <2>1, <2>5
<1> DEFINE u == w[n]
<1>3. u \in Tables(m, V) /\ Moved(u, t, hash, n)
  BY <1>1, <1>2
<1> HIDE DEF u
<1>4. Before(t, n) = Stored(t)
  BY UsedSlots DEF Before, Slots
<1>5. u.count = Cardinality(Stored(t)) /\ Cardinality(Stored(t)) <= Cardinality(Used(t))
  <2>1. Cardinality(Used(t)) \in Nat /\ Cardinality(Stored(t)) \in 0..Cardinality(Used(t))
    BY UsedSlots
  <2> QED
    BY <1>3, <1>4, <2>1 DEF Moved
<1>6. AdjustCapacity(t, hash, m) = u
  BY <1>1 DEF u
<1>7. Cardinality(Used(u)) <= u.count /\ u.count <= Cardinality(Used(t)) /\ KeysFound(u, hash)
  <2>1. Cardinality(Stored(t)) \in Nat /\ Cardinality(Used(t)) \in Nat
    BY UsedSlots
  <2> QED
    BY <1>3, <1>5, <2>1 DEF Moved
<1>8. ASSUME NEW k \in Addresses PROVE (\E e \in Pairs(u) : e.key = k) <=> (\E e \in Pairs(t) : e.key = k)
  <2>1. (\E e \in Pairs(u) : e.key = k) <=> \E j \in Stored(t) : t.entries[j].key = k
    BY <1>3, <1>4 DEF Moved
  <2> QED
    BY <2>1 DEF Pairs
<1>9. Distinct(t) => Pairs(u) = Pairs(t)
  BY <1>3, <1>4 DEF Moved, Pairs
<1> QED
  BY <1>3, <1>6, <1>7, <1>8, <1>9

\* Tables that double keep a capacity for which the mask of the code is the remainder.
LEMMA Doubling ==
    ASSUME NEW n \in Nat, IsPowerOfTwo(n) PROVE IsPowerOfTwo(2 * n)
<1>1. n > 0 /\ 2 * n > 0 /\ 2 * n \in Nat
  BY DEF IsPowerOfTwo
<1>2. ASSUME NEW d \in 2..(2 * n), (2 * n) % d = 0, d % 2 # 0 PROVE FALSE
  <2> DEFINE q == (2 * n) \div d
             j == d \div 2
             r == q \div 2
  <2>1. d \in Nat \ {0} /\ d >= 2
    BY <1>1
  <2>2. q \in Nat /\ 2 * n = d * q
    BY <1>1, <1>2, <2>1
  <2>3. j \in Nat /\ d = 2 * j + 1
    BY <1>2, <2>1
  <2> HIDE DEF q, j
  <2>4. 2 * n = 2 * (j * q) + q
    <3>1. d * q = 2 * (j * q) + q
      BY <2>2, <2>3
    <3> QED
      BY <2>2, <3>1
  <2>5. r \in Nat /\ q = 2 * r
    <3> DEFINE p == j * q
    <3>1. p \in Nat
      BY <2>2, <2>3
    <3> HIDE DEF p
    <3>2. 2 * n = 2 * p + q
      BY <2>4 DEF p
    <3> QED
      BY <1>1, <2>2, <3>1, <3>2
  <2> HIDE DEF r
  <2>6. n = d * r
    <3>1. d * q = 2 * (d * r)
      BY <2>1, <2>5
    <3> DEFINE p == d * r
    <3>2. p \in Nat
      BY <2>1, <2>5
    <3> HIDE DEF p
    <3>3. 2 * n = 2 * p
      BY <2>2, <3>1 DEF p
    <3>4. n = p
      BY <3>2, <3>3
    <3> QED
      BY <3>4 DEF p
  <2>7. r # 0 /\ n >= d
    BY <1>1, <2>1, <2>5, <2>6
  <2>8. n % d = 0
    <3>1. (d * r + 0) % d = 0
      BY <2>1, <2>5, Remainder DEF Slots
    <3> QED
      BY <2>6, <3>1
  <2>9. d \in 2..n
    BY <2>1, <2>7
  <2> QED
    BY <1>2, <2>8, <2>9 DEF IsPowerOfTwo
<1> QED
  BY <1>1, <1>2 DEF IsPowerOfTwo

-----------------------------------------------------------------------------
(* What is always so of a table. *)

\* The count is at least the number of entries that are not empty, as a tombstone
\* stays counted, and at most three quarters of them all.
TableInv(t, V) ==
    /\ t.capacity \in Nat /\ t \in Tables(t.capacity, V)
    /\ t.capacity = 0 \/ (t.capacity >= MinCapacity /\ IsPowerOfTwo(t.capacity))
    /\ Cardinality(Used(t)) <= t.count /\ 4 * t.count <= 3 * t.capacity

\* Then one entry is empty.
LEMMA TableInvSearchEnds ==
    ASSUME NEW V, NEW t, TableInv(t, V)
    PROVE  SearchEnds(t) /\ IsTable(t, Addresses, V)
<1>1. t.capacity \in Nat /\ t \in Tables(t.capacity, V)
  BY DEF TableInv
<1>2. t.count \in Nat /\ t.entries \in [Slots(t.capacity) -> Entries(V)]
  BY <1>1 DEF Tables
<1>3. /\ Cardinality(Used(t)) \in Nat /\ DOMAIN t.entries = Slots(t.capacity)
      /\ (Cardinality(Used(t)) < t.capacity => Used(t) # Slots(t.capacity))
  BY <1>1, UsedSlots
<1>4. t.capacity > 0 => Cardinality(Used(t)) < t.capacity
  BY <1>1, <1>2, <1>3 DEF TableInv
<1>5. t.count \in 0..t.capacity
  BY <1>1, <1>2 DEF TableInv
<1>6. t.capacity = 0 \/ IsPowerOfTwo(t.capacity)
  BY DEF TableInv
<1> QED
  BY <1>2, <1>3, <1>4, <1>5, <1>6 DEF SearchEnds, IsTable, Slots, Entries

\* A new table.
LEMMA InitTableInv ==
    ASSUME NEW V, NEW hash
    PROVE  TableInv(initTable, V) /\ KeysFound(initTable, hash) /\ Pairs(initTable) = {}
<1> DEFINE t == initTable
           f == [i \in {} |-> Empty]
<1>1. f \in [Slots(0) -> Entries(V)]
  BY DEF Slots
<1> HIDE DEF f
<1>2. t.count = 0 /\ t.capacity = 0 /\ t.entries = f /\ t \in Tables(0, V)
  <2>1. initTable = [count |-> 0, capacity |-> 0, entries |-> f]
    BY DEF initTable, f
  <2> QED
    BY <1>1, <2>1 DEF Tables
<1>3. DOMAIN f = {}
  BY <1>1 DEF Slots
<1> HIDE DEF t
<1>4. Used(t) = {} /\ Stored(t) = {} /\ Pairs(t) = {}
  BY <1>2, <1>3 DEF Used, Stored, Pairs
<1>5. Cardinality(Used(t)) = 0
  BY <1>4, FS_EmptySet
<1> QED
  BY <1>2, <1>4, <1>5 DEF TableInv, KeysFound, t

\* A key that is found where it is is nowhere else.
LEMMA FoundDistinct ==
    ASSUME NEW t, NEW hash, KeysFound(t, hash) PROVE Distinct(t)
BY DEF KeysFound, Distinct

\* What a search comes to is stored.
LEMMA OnPathStored ==
    ASSUME NEW n \in Nat, NEW V, NEW t \in Tables(n, V), NEW h \in Nat, NEW key \in Addresses, OnPath(t, h, key)
    PROVE  \E e \in Pairs(t) : e.key = key
<1>1. t.capacity = n /\ DOMAIN t.entries = Slots(n)
  BY DEF Tables
<1>2. PICK d \in Slots(n) : t.entries[Probe(n, h, d)].key = key
  BY <1>1 DEF OnPath
<1>3. n \in Nat \ {0} /\ d \in Nat
  BY <1>2 DEF Slots
<1>4. Probe(n, h, d) \in Slots(n)
  BY <1>3, Probing
<1>5. Probe(n, h, d) \in Stored(t)
  BY <1>1, <1>2, <1>4, EntryTypes DEF Stored
<1> QED
  BY <1>2, <1>5 DEF Pairs

\* What findEntry finds is found when tombstones are skipped as well.
LEMMA FoundOnPath ==
    ASSUME NEW n \in Nat, NEW V, NEW t \in Tables(n, V), NEW hash \in Hashes, NEW key \in Addresses,
           KeysFound(t, hash), \E e \in Pairs(t) : e.key = key
    PROVE  OnPath(t, hash[key], key)
<1>1. PICK i \in Stored(t) : t.entries[i].key = key
  BY DEF Pairs
<1>2. DOMAIN t.entries = Slots(n) /\ t.capacity = n
  BY DEF Tables
<1>3. n \in Nat \ {0} /\ i \in Slots(n)
  BY <1>1, <1>2 DEF Stored, Slots
<1>4. Ends(t, hash, key) = i
  BY <1>1 DEF KeysFound, Ends
<1>5. i \in Stops(t.entries, key)
  BY <1>1, <1>2, <1>3 DEF Stops
<1>6. PICK d \in Slots(n) :
         /\ i = Probe(n, hash[key], d)
         /\ \A e \in 0..(d - 1) : t.entries[Probe(n, hash[key], e)].key \notin {NoKey, key}
  BY <1>3, <1>4, <1>5, SearchEntry
<1>7. \A e \in 0..(d - 1) : t.entries[Probe(n, hash[key], e)] # Empty
  BY <1>6, EntryTypes
<1> QED
  BY <1>1, <1>2, <1>6, <1>7 DEF OnPath

\* u is t with room for one entry more.
Roomier(u, t, hash, V) ==
    /\ TableInv(u, V) /\ u.capacity > 0 /\ 4 * (u.count + 1) <= 3 * u.capacity
    /\ \A k \in Addresses : OnPath(t, hash[k], k) => OnPath(u, hash[k], k)
    /\ \A k \in Addresses : (\E e \in Pairs(u) : e.key = k) <=> (\E e \in Pairs(t) : e.key = k)
    /\ KeysFound(t, hash) => KeysFound(u, hash) /\ Pairs(u) = Pairs(t)

\* A table that must grow is at least doubled: there is room for a key more.
LEMMA Grows ==
    ASSUME NEW V, NEW t, TableInv(t, V), NEW hash \in Hashes
    PROVE  Roomier(Grown(t, hash), t, hash, V)
<1> DEFINE n == t.capacity
           m == GrowCapacity(n)
           u == AdjustCapacity(t, hash, m)
<1>1. n \in Nat /\ t \in Tables(n, V) /\ t.count \in Nat
  BY DEF TableInv, Tables
<1>2. Cardinality(Used(t)) \in Nat /\ Cardinality(Used(t)) <= t.count /\ 4 * t.count <= 3 * n
  BY <1>1, UsedSlots DEF TableInv
<1>3. CASE ~MustGrow(t)
  <2>1. 4 * (t.count + 1) <= 3 * n /\ n > 0
    BY <1>1, <1>3 DEF MustGrow
  <2>2. Grown(t, hash) = t
    BY <1>3 DEF Grown
  <2> QED
    BY <2>1, <2>2 DEF Roomier
<1>4. CASE MustGrow(t)
  <2>1. MinCapacity \in Nat /\ MinCapacity >= 2 /\ IsPowerOfTwo(MinCapacity)
    <3>1. MinCapacity \in Nat /\ MinCapacity # 1 /\ IsPowerOfTwo(MinCapacity)
      BY TableAssumption
    <3> QED
      BY <3>1 DEF IsPowerOfTwo
  <2>2. m \in Nat /\ m >= MinCapacity /\ IsPowerOfTwo(m) /\ (n = 0 \/ m = 2 * n)
    <3>1. n = 0 \/ (n >= MinCapacity /\ IsPowerOfTwo(n))
      BY DEF TableInv
    <3>2. CASE n = 0
      BY <2>1, <3>2 DEF GrowCapacity
    <3>3. CASE n >= MinCapacity /\ IsPowerOfTwo(n)
      <4>1. m = 2 * n
        BY <1>1, <2>1, <3>3 DEF GrowCapacity
      <4> QED
        BY <1>1, <2>1, <3>3, <4>1, Doubling
    <3> QED
      BY <3>1, <3>2, <3>3
  <2>3. Grown(t, hash) = u
    BY <1>4 DEF Grown
  <2> HIDE DEF m
  <2>4. m \in Nat \ {0} /\ n < m
    BY <1>1, <2>1, <2>2
  <2>5. /\ u \in Tables(m, V) /\ u.count <= Cardinality(Used(t)) /\ Cardinality(Used(u)) <= u.count
        /\ KeysFound(u, hash)
        /\ \A k \in Addresses : (\E e \in Pairs(u) : e.key = k) <=> (\E e \in Pairs(t) : e.key = k)
        /\ Distinct(t) => Pairs(u) = Pairs(t)
    <3> HIDE DEF n
    <3> QED
      BY <1>1, <2>4, Adjusted DEF n
  <2> HIDE DEF u
  <2>6. u.capacity = m /\ u.count \in Nat
    BY <2>5 DEF Tables
  <2>7. 4 * (u.count + 1) <= 3 * m
    BY <1>1, <1>2, <2>1, <2>2, <2>4, <2>5, <2>6
  <2>8. TableInv(u, V)
    BY <2>2, <2>5, <2>6, <2>7 DEF TableInv
  <2>9. ASSUME NEW k \in Addresses, OnPath(t, hash[k], k) PROVE OnPath(u, hash[k], k)
    <3>1. hash[k] \in Nat
      BY DEF Hashes
    <3>2. \E e \in Pairs(t) : e.key = k
      <4> HIDE DEF n
      <4> QED
        BY <1>1, <2>9, <3>1, OnPathStored
    <3> QED
      BY <2>4, <2>5, <3>2, FoundOnPath
  <2>10. KeysFound(t, hash) => Distinct(t)
    BY FoundDistinct
  <2>11. Roomier(u, t, hash, V)
    BY <2>4, <2>5, <2>6, <2>7, <2>8, <2>9, <2>10 DEF Roomier
  <2> QED
    BY <2>3, <2>11
<1> QED
  BY <1>3, <1>4

\* Whether a key is in a table, and what it is mapped to, is found by one search.
LEMMA Lookup ==
    ASSUME NEW n \in Nat \ {0}, NEW V, NEW t \in Tables(n, V), Used(t) # Slots(n), NEW hash \in Hashes,
           KeysFound(t, hash), NEW key \in Addresses
    PROVE  LET entry == t.entries[Ends(t, hash, key)]
           IN  /\ entry.key = NoKey <=> ~\E e \in Pairs(t) : e.key = key
               /\ entry.key # NoKey => entry \in Pairs(t) /\ entry.key = key
               /\ \A e \in Pairs(t) : e.key = key => e = entry
<1> DEFINE i == Ends(t, hash, key)
<1>1. i \in Slots(n) /\ t.entries[i].key \in {NoKey, key}
  <2>1. Stops(t.entries, key) # {}
    BY EmptyStops
  <2> QED
    BY <2>1, SearchEntry
<1>2. DOMAIN t.entries = Slots(n) /\ NoKey # key
  BY EntryTypes DEF Tables
<1>3. \A j \in Stored(t) : t.entries[j].key = key => j = i
  BY DEF KeysFound, Ends
<1> HIDE DEF i
<1>4. \A e \in Pairs(t) : e.key = key => e = t.entries[i]
  BY <1>3 DEF Pairs
<1>5. t.entries[i].key # NoKey => t.entries[i] \in Pairs(t) /\ t.entries[i].key = key
  BY <1>1, <1>2 DEF Pairs, Stored
<1> QED
  BY <1>2, <1>4, <1>5 DEF i

-----------------------------------------------------------------------------
(* The operations. *)

\* u is t after tableSet, or after the part of it that follows growth.
IsSet(u, t, hash, key, v, V) ==
    /\ TableInv(u, V) /\ OnPath(u, hash[key], key)
    /\ \A k \in Addresses : OnPath(t, hash[k], k) => OnPath(u, hash[k], k)
    /\ \A k \in Addresses : (\E e \in Pairs(u) : e.key = k) <=> k = key \/ (\E e \in Pairs(t) : e.key = k)
    /\ KeysFound(t, hash) => KeysFound(u, hash) /\ Pairs(u) = Without(Pairs(t), key) \cup {Entry(key, v)}

\* tableSet after growth.
LEMMA StoreSets ==
    ASSUME NEW V, NEW t, TableInv(t, V), t.capacity > 0, 4 * (t.count + 1) <= 3 * t.capacity,
           NEW hash \in Hashes, NEW key \in Addresses, NEW v \in V
    PROVE  IsSet(Store(t, hash, key, v), t, hash, key, v, V)
<1> DEFINE n == t.capacity
           i == Ends(t, hash, key)
           c == IF t.entries[i] = Empty THEN t.count + 1 ELSE t.count
           u == Put(t, i, Entry(key, v), c)
<1>1. n \in Nat \ {0} /\ t \in Tables(n, V) /\ t.count \in Nat /\ c \in Nat
  BY DEF TableInv, Tables
<1>2. /\ Cardinality(Used(t)) \in Nat /\ Cardinality(Used(t)) <= t.count
      /\ n >= MinCapacity /\ IsPowerOfTwo(n)
      /\ (Cardinality(Used(t)) < n => Used(t) # Slots(n))
  <2>1. Cardinality(Used(t)) \in Nat /\ (Cardinality(Used(t)) < n => Used(t) # Slots(n))
    <3> HIDE DEF n
    <3> QED
      BY <1>1, UsedSlots
  <2> QED
    BY <1>1, <2>1 DEF TableInv
<1>3. Used(t) # Slots(n)
  BY <1>1, <1>2
<1>4. Store(t, hash, key, v) = u
  BY DEF Store, Ends
<1>5. 4 * c <= 3 * n /\ c >= t.count /\ (t.entries[i] = Empty => c = t.count + 1)
  BY <1>1
<1> HIDE DEF n, c
<1>6. Stops(t.entries, key) # {}
  BY <1>1, <1>3, EmptyStops
<1>7. Filled(u, t, hash, key, v)
  BY <1>1, <1>6, Fill
<1>8. u \in Tables(n, V) /\ u.count = c /\ u.capacity = n
  <2>1. i \in Slots(n)
    BY <1>1, <1>6, SearchEntry
  <2>2. Entry(key, v) \in Entries(V)
    BY EntryTypes
  <2> HIDE DEF i
  <2> QED
    BY <1>1, <2>1, <2>2, Puts
<1> HIDE DEF u
<1>9. Cardinality(Used(u)) <= c
  BY <1>1, <1>2, <1>5, <1>7 DEF Filled
<1>10. TableInv(u, V)
  BY <1>1, <1>2, <1>5, <1>8, <1>9 DEF TableInv
<1>11. IsSet(u, t, hash, key, v, V)
  BY <1>7, <1>10 DEF IsSet, Filled
<1> QED
  BY <1>4, <1>11

\* tableSet.
LEMMA TableSets ==
    ASSUME NEW V, NEW t, TableInv(t, V), NEW hash \in Hashes, NEW key \in Addresses, NEW v \in V
    PROVE  IsSet(TableSet(t, hash, key, v), t, hash, key, v, V)
<1> DEFINE g == Grown(t, hash)
           u == Store(g, hash, key, v)
<1>1. Roomier(g, t, hash, V)
  BY Grows
<1> HIDE DEF g
<1>2. IsSet(u, g, hash, key, v, V)
  BY <1>1, StoreSets DEF Roomier
<1>3. TableSet(t, hash, key, v) = u
  BY DEF TableSet, g
<1> HIDE DEF u
<1>4. IsSet(u, t, hash, key, v, V)
  BY <1>1, <1>2 DEF Roomier, IsSet
<1> QED
  BY <1>3, <1>4

\* tableGet.
LEMMA Gets ==
    ASSUME NEW V, NEW t, TableInv(t, V), NEW hash \in Hashes, KeysFound(t, hash), NEW key \in Addresses, NEW missing
    PROVE  /\ \A e \in Pairs(t) : e.key = key => TableGet(t, hash, key, missing) = e.value
           /\ (~\E e \in Pairs(t) : e.key = key) => TableGet(t, hash, key, missing) = missing
<1> DEFINE n == t.capacity
<1>1. n \in Nat /\ t \in Tables(n, V) /\ t.count \in Nat
  BY DEF TableInv, Tables
<1>2. /\ Cardinality(Used(t)) \in Nat /\ Cardinality(Used(t)) <= t.count /\ 4 * t.count <= 3 * n
      /\ (Cardinality(Used(t)) < n => Used(t) # Slots(n)) /\ IsFiniteSet(Used(t)) /\ Stored(t) \in SUBSET Used(t)
  <2>1. /\ Cardinality(Used(t)) \in Nat /\ (Cardinality(Used(t)) < n => Used(t) # Slots(n))
        /\ IsFiniteSet(Used(t)) /\ Stored(t) \in SUBSET Used(t)
    <3> HIDE DEF n
    <3> QED
      BY <1>1, UsedSlots
  <2> QED
    BY <1>1, <2>1 DEF TableInv
<1>3. CASE t.count = 0
  <2>1. Cardinality(Used(t)) = 0
    BY <1>2, <1>3
  <2>2. Used(t) = {}
    BY <1>2, <2>1, FS_EmptySet
  <2>3. Pairs(t) = {}
    BY <1>2, <2>2 DEF Pairs
  <2> QED
    BY <1>3, <2>3 DEF TableGet
<1>4. CASE t.count # 0
  <2> DEFINE entry == t.entries[Ends(t, hash, key)]
  <2>1. n \in Nat \ {0} /\ Used(t) # Slots(n)
    BY <1>1, <1>2, <1>4
  <2>2. /\ entry.key = NoKey <=> ~\E e \in Pairs(t) : e.key = key
        /\ \A e \in Pairs(t) : e.key = key => e = entry
    <3> HIDE DEF n
    <3> QED
      BY <1>1, <2>1, Lookup
  <2>3. TableGet(t, hash, key, missing) = IF entry.key = NoKey THEN missing ELSE entry.value
    BY <1>4 DEF TableGet, Ends
  <2> HIDE DEF entry
  <2> QED
    BY <2>2, <2>3
<1> QED
  BY <1>3, <1>4

\* u is t with tombstones in the place of some entries of these keys.
Erased(u, t, keys, V) ==
    /\ TableInv(u, V) /\ u.capacity = t.capacity /\ Used(u) = Used(t)
    /\ \A i \in Slots(t.capacity) :
          u.entries[i] = t.entries[i] \/ (t.entries[i].key \in keys /\ u.entries[i] = Tombstone)

\* tableDelete: a tombstone where the key was found, if it was.
LEMMA Deletes ==
    ASSUME NEW V, NEW t, TableInv(t, V), NEW hash \in Hashes, NEW key \in Addresses
    PROVE  LET u == TableDelete(t, hash, key)
               i == Ends(t, hash, key)
           IN  /\ Erased(u, t, {key}, V)
               /\ t.capacity > 0 /\ t.entries[i].key = key => u.entries[i] = Tombstone
<1> DEFINE n == t.capacity
           i == Ends(t, hash, key)
           u == Put(t, i, Tombstone, t.count)
<1>1. n \in Nat /\ t \in Tables(n, V) /\ t.count \in Nat
  BY DEF TableInv, Tables
<1>2. /\ Cardinality(Used(t)) \in Nat /\ Cardinality(Used(t)) <= t.count /\ 4 * t.count <= 3 * n
      /\ (Cardinality(Used(t)) < n => Used(t) # Slots(n)) /\ IsFiniteSet(Used(t)) /\ Stored(t) \in SUBSET Used(t)
      /\ DOMAIN t.entries = Slots(n)
  <2>1. /\ Cardinality(Used(t)) \in Nat /\ (Cardinality(Used(t)) < n => Used(t) # Slots(n))
        /\ IsFiniteSet(Used(t)) /\ Stored(t) \in SUBSET Used(t) /\ DOMAIN t.entries = Slots(n)
    <3> HIDE DEF n
    <3> QED
      BY <1>1, UsedSlots
  <2> QED
    BY <1>1, <2>1 DEF TableInv
<1>3. Erased(t, t, {key}, V)
  BY DEF Erased
<1>4. NoKey # key
  BY EntryTypes
<1>5. CASE t.count = 0
  <2>1. Cardinality(Used(t)) = 0
    BY <1>2, <1>5
  <2>2. Used(t) = {}
    BY <1>2, <2>1, FS_EmptySet
  <2>3. TableDelete(t, hash, key) = t
    BY <1>5 DEF TableDelete
  <2>4. t.capacity > 0 => i \in Slots(n)
    <3>1. t.capacity > 0 => Used(t) # Slots(n) /\ n \in Nat \ {0}
      BY <1>1, <2>2 DEF Slots
    <3> HIDE DEF n
    <3>2. n \in Nat \ {0} /\ Used(t) # Slots(n) => Stops(t.entries, key) # {}
      BY <1>1, EmptyStops
    <3>3. n \in Nat \ {0} /\ Stops(t.entries, key) # {} => i \in Slots(n)
      BY <1>1, SearchEntry
    <3> QED
      BY <3>1, <3>2, <3>3
  <2>5. t.capacity > 0 => t.entries[i].key # key
    BY <1>2, <1>4, <2>2, <2>4 DEF Stored
  <2> QED
    BY <1>3, <2>3, <2>5
<1>6. CASE t.count # 0
  <2>1. n \in Nat \ {0} /\ Used(t) # Slots(n)
    BY <1>1, <1>2, <1>6
  <2>2. i \in Slots(n) /\ t.entries[i].key \in {NoKey, key}
    <3> HIDE DEF n
    <3>1. Stops(t.entries, key) # {}
      BY <1>1, <2>1, EmptyStops
    <3> QED
      BY <1>1, <2>1, <3>1, SearchEntry
  <2>3. TableDelete(t, hash, key) = IF t.entries[i].key = NoKey THEN t ELSE u
    BY <1>6 DEF TableDelete, Ends
  <2>4. CASE t.entries[i].key = NoKey
    BY <1>3, <1>4, <2>3, <2>4
  <2>5. CASE t.entries[i].key = key
    <3>1. TableDelete(t, hash, key) = u
      BY <1>4, <2>3, <2>5
    <3> HIDE DEF i
    <3>2. /\ u \in Tables(n, V) /\ u.count = t.count /\ u.capacity = n
          /\ \A j \in Slots(n) : u.entries[j] = IF j = i THEN Tombstone ELSE t.entries[j]
      <4> HIDE DEF n
      <4> QED
        BY <1>1, <2>1, <2>2, EntryTypes, Puts
    <3> HIDE DEF u
    <3>3. DOMAIN u.entries = Slots(n)
      BY <3>2 DEF Tables
    <3>4. Tombstone # Empty /\ t.entries[i] # Empty
      BY <1>4, <2>5, EntryTypes
    <3>5. Used(u) = Used(t)
      BY <1>2, <3>2, <3>3, <3>4 DEF Used
    <3>6. TableInv(u, V)
      BY <1>2, <3>2, <3>5 DEF TableInv
    <3>7. Erased(u, t, {key}, V)
      BY <2>5, <3>2, <3>5, <3>6 DEF Erased
    <3> QED
      BY <2>2, <3>1, <3>2, <3>7 DEF i
  <2> QED
    BY <2>2, <2>4, <2>5
<1> QED
  BY <1>5, <1>6

\* The same keys in the same entries.
AsKeys(u, t) == \A i \in DOMAIN t.entries : u.entries[i].key = t.entries[i].key

\* Tables with the same keys in the same entries are searched alike.
LEMMA SameKeys ==
    ASSUME NEW n \in Nat \ {0}, NEW V, NEW t \in Tables(n, V), NEW u \in Tables(n, V),
           AsKeys(u, t), NEW hash \in Hashes, NEW key \in Addresses, Stops(t.entries, key) # {}
    PROVE  Ends(u, hash, key) = Ends(t, hash, key)
<1>1. DOMAIN t.entries = Slots(n) /\ DOMAIN u.entries = Slots(n)
  BY DEF Tables
<1>2. PICK d \in Slots(n) :
         /\ Ends(t, hash, key) = Probe(n, hash[key], d)
         /\ \A e \in 0..(d - 1) : /\ Probe(n, hash[key], e) \in Slots(n)
                                  /\ t.entries[Probe(n, hash[key], e)].key \notin {NoKey, key}
  BY SearchEntry
<1>3. Ends(t, hash, key) \in Slots(n) /\ t.entries[Ends(t, hash, key)].key \in {NoKey, key}
  BY SearchEntry
<1>4. u.entries[Probe(n, hash[key], d)].key \in {NoKey, key}
  BY <1>1, <1>2, <1>3 DEF AsKeys
<1>5. \A e \in 0..(d - 1) : u.entries[Probe(n, hash[key], e)].key \notin {NoKey, key}
  BY <1>1, <1>2 DEF AsKeys
<1> QED
  BY <1>2, <1>4, <1>5, SearchIs

\* A failed assignment leaves no trace but a tombstone where there was no key.
LEMMA Undoes ==
    ASSUME NEW V, NEW t, TableInv(t, V), NEW hash \in Hashes, NEW key \in Addresses, NEW v \in V,
           IsNewKey(Grown(t, hash), hash, key), KeysFound(t, hash)
    PROVE  LET u == TableDelete(Store(Grown(t, hash), hash, key, v), hash, key)
           IN  TableInv(u, V) /\ KeysFound(u, hash) /\ Pairs(u) = Pairs(t)
<1> DEFINE g == Grown(t, hash)
           n == g.capacity
           i == Ends(g, hash, key)
           s == Store(g, hash, key, v)
           c == IF g.entries[i] = Empty THEN g.count + 1 ELSE g.count
           u == TableDelete(s, hash, key)
<1>1. Roomier(g, t, hash, V) /\ g.entries[i].key = NoKey
  BY Grows DEF IsNewKey, Ends
<1>2. s = Put(g, i, Entry(key, v), c)
  BY DEF Store, Ends
<1> HIDE DEF g
<1>3. /\ TableInv(g, V) /\ n > 0 /\ 4 * (g.count + 1) <= 3 * n
      /\ KeysFound(g, hash) /\ Pairs(g) = Pairs(t)
  BY <1>1 DEF Roomier
<1>4. n \in Nat \ {0} /\ g \in Tables(n, V) /\ g.count \in Nat /\ c \in Nat
  BY <1>3 DEF TableInv, Tables
<1>5. IsSet(s, g, hash, key, v, V)
  BY <1>3, StoreSets
<1>6. Stops(g.entries, key) # {} /\ \A k \in Addresses : Stops(g.entries, k) # {}
  <2>1. Cardinality(Used(g)) \in Nat /\ Cardinality(Used(g)) <= g.count
        /\ (Cardinality(Used(g)) < n => Used(g) # Slots(n))
    <3>1. Cardinality(Used(g)) \in Nat /\ (Cardinality(Used(g)) < n => Used(g) # Slots(n))
      <4> HIDE DEF n
      <4> QED
        BY <1>4, UsedSlots
    <3> QED
      BY <1>3, <3>1 DEF TableInv
  <2>2. Used(g) # Slots(n)
    BY <1>3, <1>4, <2>1
  <2> HIDE DEF n
  <2> QED
    BY <1>4, <2>2, EmptyStops
<1>7. Ends(s, hash, key) = i
  <2>1. Filled(Put(g, i, Entry(key, v), c), g, hash, key, v)
    <3> HIDE DEF n, c
    <3> QED
      BY <1>4, <1>6, Fill
  <2> HIDE DEF s, c, i
  <2> QED
    BY <1>2, <2>1 DEF Filled, i
<1> HIDE DEF n, c, s
<1>8. i \in Slots(n)
  BY <1>4, <1>6, SearchEntry
<1> HIDE DEF i
<1>9. /\ s \in Tables(n, V) /\ s.capacity = n
      /\ \A j \in Slots(n) : s.entries[j] = IF j = i THEN Entry(key, v) ELSE g.entries[j]
  BY <1>2, <1>4, <1>8, EntryTypes, Puts
<1>10. Entry(key, v).key = key
  BY EntryTypes
<1>11. /\ Erased(u, s, {key}, V) /\ u.entries[i] = Tombstone
  <2>1. TableInv(s, V) /\ s.capacity > 0 /\ s.entries[i].key = key
    BY <1>4, <1>5, <1>8, <1>9, <1>10 DEF IsSet
  <2> QED
    BY <1>7, <2>1, Deletes
<1>12. TableInv(u, V) /\ u \in Tables(n, V) /\ u.capacity = n
  BY <1>9, <1>11 DEF Erased, TableInv
<1>13. \A j \in Slots(n) : j # i => u.entries[j] = g.entries[j]
  <2>1. \A j \in Slots(n) : s.entries[j].key = key => j = i
    <3>1. KeysFound(s, hash) /\ DOMAIN s.entries = Slots(n) /\ NoKey # key
      BY <1>3, <1>5, <1>9, EntryTypes DEF IsSet, Tables
    <3>2. \A j \in Stored(s) : s.entries[j].key = key => j = i
      BY <1>7, <3>1 DEF KeysFound, Ends
    <3> QED
      BY <3>1, <3>2 DEF Stored
  <2>2. \A j \in Slots(n) : u.entries[j] = s.entries[j] \/ s.entries[j].key = key
    BY <1>9, <1>11 DEF Erased
  <2> QED
    BY <1>9, <2>1, <2>2
<1> HIDE DEF u
<1>14. \A j \in Slots(n) : u.entries[j].key = g.entries[j].key
  BY <1>1, <1>11, <1>13, EntryTypes DEF i
<1>15. DOMAIN u.entries = Slots(n) /\ DOMAIN g.entries = Slots(n)
  BY <1>4, <1>12 DEF Tables
<1>16. Stored(u) = Stored(g) /\ \A j \in Stored(g) : u.entries[j] = g.entries[j] /\ g.entries[j].key \in Addresses
  <2>1. Stored(u) = Stored(g)
    BY <1>14, <1>15 DEF Stored
  <2>2. \A j \in Stored(g) : j # i /\ j \in Slots(n)
    BY <1>1, <1>15 DEF Stored, i
  <2>3. \A j \in Stored(g) : g.entries[j].key \in Addresses
    BY <1>4, <2>2, EntryTypes DEF Stored, Tables
  <2> QED
    BY <1>13, <2>1, <2>2, <2>3
<1>17. Pairs(u) = Pairs(g)
  BY <1>16 DEF Pairs
<1>18. KeysFound(u, hash)
  <2> SUFFICES ASSUME NEW j \in Stored(g) PROVE Ends(u, hash, g.entries[j].key) = j
    BY <1>16 DEF KeysFound, Ends
  <2>1. Ends(g, hash, g.entries[j].key) = j
    BY <1>3 DEF KeysFound, Ends
  <2> DEFINE k == g.entries[j].key
  <2>2. k \in Addresses /\ Stops(g.entries, k) # {}
    BY <1>6, <1>16
  <2> HIDE DEF k
  <2>3. AsKeys(u, g)
    BY <1>14, <1>15 DEF AsKeys
  <2>4. Ends(u, hash, k) = Ends(g, hash, k)
    BY <1>4, <1>12, <2>2, <2>3, SameKeys
  <2> QED
    BY <2>1, <2>4 DEF k
<1>19. TableInv(u, V) /\ KeysFound(u, hash) /\ Pairs(u) = Pairs(t)
  BY <1>3, <1>12, <1>17, <1>18
<1> QED
  BY <1>19 DEF u, s, g

-----------------------------------------------------------------------------
(* What a collection does to the table of strings. *)

\* What there may be at each address.
Heaps == [Addresses -> Texts \cup {Free}]

\* The hash of an object is that of its text.
LEMMA HashesOfHeap ==
    ASSUME NEW h \in Heaps
    PROVE  /\ HashOf(h) \in Hashes
           /\ \A a \in Allocated(h) : a \in Addresses /\ h[a] \in Texts /\ HashOf(h)[a] = Hash[h[a]] /\ Hash[h[a]] \in Nat
<1>1. Hash \in [Texts -> Nat]
  BY StringsAssumption
<1>2. \A a \in Addresses : h[a] # Free => h[a] \in Texts
  BY DEF Heaps
<1>3. HashOf(h) \in Hashes
  BY <1>1, <1>2 DEF HashOf, Hashes
<1>4. \A a \in Allocated(h) : a \in Addresses /\ h[a] \in Texts /\ HashOf(h)[a] = Hash[h[a]]
  BY <1>2 DEF Allocated, HashOf
<1> QED
  BY <1>1, <1>3, <1>4

\* A round of tableRemoveWhite.
Clear(s, key, hash, marked) == IF key \in marked \cup {NoKey} THEN s ELSE TableDelete(s, hash, key)

\* tableDelete leaves a table, whatever the hashes.
LEMMA DeleteTyped ==
    ASSUME NEW n \in Nat, NEW V, NEW s \in Tables(n, V), NEW key, NEW hash
    PROVE  TableDelete(s, hash, key) \in Tables(n, V)
<1>1. s.count \in Nat /\ Tombstone \in Entries(V)
  BY EntryTypes DEF Tables
<1>2. \A i : Put(s, i, Tombstone, s.count) \in Tables(n, V)
  BY <1>1, PutTyped
<1> QED
  BY <1>2 DEF TableDelete

\* The tables that the loop of tableRemoveWhite goes through.
ClearsThrough(w, n, t, h, marked, V) ==
    /\ w \in [0..n -> Tables(n, V)] /\ w[0] = t /\ TableRemoveWhite(t, h, marked) = w[n]
    /\ \A k \in 1..n : w[k] = Clear(w[k - 1], t.entries[k - 1].key, HashOf(h), marked)

\* tableRemoveWhite is its loop.
LEMMA RemoveLoop ==
    ASSUME NEW n \in Nat, NEW V, NEW t \in Tables(n, V), NEW h \in Heaps, NEW marked
    PROVE  \E w : ClearsThrough(w, n, t, h, marked, V)
<1> DEFINE A == Tables(n, V)
           hash == HashOf(h)
           cleared[i \in 0..t.capacity] ==
              IF i = 0 THEN t
              ELSE LET key == t.entries[i - 1].key
                   IN  IF key \in marked \cup {NoKey} THEN cleared[i - 1]
                       ELSE TableDelete(cleared[i - 1], HashOf(h), key)
           step == [k \in 1..n |-> [s \in A |-> Clear(s, t.entries[k - 1].key, hash, marked)]]
<1>1. t.capacity = n /\ t \in A
  BY DEF Tables
<1>2. \A s \in A : \A key : Clear(s, key, hash, marked) \in A
  BY DeleteTyped DEF Clear
<1> HIDE DEF A
<1>3. step \in [1..n -> [A -> A]]
  BY <1>2
<1>4. PICK f \in [0..n -> A] : FollowsLoop(f, n, t, step)
  <2> HIDE DEF step
  <2> QED
    BY <1>1, <1>3, LoopRecursion
<1>5. \A k \in 1..n : f[k - 1] \in A /\ step[k][f[k - 1]] = Clear(f[k - 1], t.entries[k - 1].key, hash, marked)
  <2>1. \A k \in 1..n : k - 1 \in 0..n
    OBVIOUS
  <2> QED
    BY <1>4, <2>1
<1> DEFINE Round(g, i) ==
              IF i = 0 THEN t
              ELSE LET key == t.entries[i - 1].key
                   IN  IF key \in marked \cup {NoKey} THEN g[i - 1]
                       ELSE TableDelete(g[i - 1], HashOf(h), key)
<1>6. \A k \in 1..n : \A g : Round(g, k) = Clear(g[k - 1], t.entries[k - 1].key, hash, marked)
  <2>1. \A k \in 1..n : k # 0
    OBVIOUS
  <2> QED
    BY <2>1 DEF Clear
<1>7. \A g : Round(g, 0) = t
  OBVIOUS
<1> HIDE DEF Round, hash
<1>8. f[0] = t /\ \A k \in 1..n : f[k] = Round(f, k)
  <2>1. f[0] = t
    BY <1>4 DEF FollowsLoop
  <2>2. \A k \in 1..n : k \in 0..n /\ k # 0
    OBVIOUS
  <2>3. \A k \in 0..n : f[k] = IF k = 0 THEN t ELSE step[k][f[k - 1]]
    <3> HIDE DEF step
    <3> QED
      BY <1>4 DEF FollowsLoop
  <2> HIDE DEF step
  <2> QED
    BY <1>5, <1>6, <2>1, <2>2, <2>3
<1>9. f = [i \in 0..t.capacity |-> Round(f, i)]
  <2>1. \A k \in 0..n : f[k] = Round(f, k)
    <3>1. \A k \in 0..n : k = 0 \/ k \in 1..n
      OBVIOUS
    <3> QED
      BY <1>7, <1>8, <3>1
  <2> QED
    BY <1>1, <1>4, <2>1
<1>10. cleared = [i \in 0..t.capacity |-> Round(cleared, i)]
  <2> DEFINE some == CHOOSE g : g = [i \in 0..t.capacity |-> Round(g, i)]
  <2>1. some = [i \in 0..t.capacity |-> Round(some, i)]
    BY <1>9
  <2>2. cleared = some
    BY DEF Round
  <2> HIDE DEF some, cleared
  <2> QED
    BY <2>1, <2>2
<1>11. TableRemoveWhite(t, h, marked) = cleared[n]
  <2>1. TableRemoveWhite(t, h, marked) = cleared[t.capacity]
    BY Zenon DEF TableRemoveWhite
  <2> HIDE DEF cleared
  <2> QED
    BY <1>1, <2>1
<1> HIDE DEF cleared
<1>12. DOMAIN cleared = 0..n /\ cleared[0] = t /\ \A k \in 1..n : cleared[k] = Round(cleared, k)
  <2>1. 0 \in 0..n /\ \A k \in 1..n : k \in 0..n
    OBVIOUS
  <2> QED
    BY <1>1, <1>7, <1>10, <2>1
<1> DEFINE Bad == {k \in 0..n : cleared[k] # f[k]}
<1>13. Bad = {}
  <2> SUFFICES ASSUME Bad # {} PROVE FALSE
    OBVIOUS
  <2>1. PICK k \in Bad : \A j \in Bad : k <= j
    <3>1. Bad \in SUBSET Nat
      OBVIOUS
    <3> HIDE DEF Bad
    <3> QED
      BY <3>1, LeastNatural
  <2>2. k \in 1..n /\ k - 1 \in 0..n /\ ~(k <= k - 1)
    BY <1>8, <1>12, <2>1
  <2>3. cleared[k - 1] = f[k - 1]
    BY <2>1, <2>2
  <2>4. cleared[k] = f[k]
    BY <1>6, <1>8, <1>12, <2>2, <2>3
  <2> QED
    BY <2>1, <2>4
<1>14. TableRemoveWhite(t, h, marked) = f[n]
  BY <1>11, <1>13
<1>15. \A k \in 1..n : f[k] = Clear(f[k - 1], t.entries[k - 1].key, HashOf(h), marked)
  BY <1>6, <1>8 DEF hash
<1>16. ClearsThrough(f, n, t, h, marked, V)
  BY <1>4, <1>8, <1>14, <1>15 DEF A, ClearsThrough
<1> QED
  BY <1>16

\* One removal after the other.
LEMMA ErasedTwice ==
    ASSUME NEW V, NEW t, NEW s, NEW u, NEW K, Erased(s, t, K, V), Erased(u, s, K, V)
    PROVE  Erased(u, t, K, V)
BY DEF Erased

\* Only entries whose keys are not marked are replaced.
LEMMA Removes ==
    ASSUME NEW V, NEW t, TableInv(t, V), NEW h \in Heaps, NEW marked
    PROVE  Erased(TableRemoveWhite(t, h, marked), t, Addresses \ marked, V)
<1> DEFINE n == t.capacity
           K == Addresses \ marked
<1>1. n \in Nat /\ t \in Tables(n, V)
  BY DEF TableInv
<1>2. PICK w \in [0..n -> Tables(n, V)] :
         /\ w[0] = t /\ \A k \in 1..n : w[k] = Clear(w[k - 1], t.entries[k - 1].key, HashOf(h), marked)
         /\ TableRemoveWhite(t, h, marked) = w[n]
  <2> HIDE DEF n
  <2>1. \E w : ClearsThrough(w, n, t, h, marked, V)
    BY <1>1, RemoveLoop
  <2> QED
    BY <2>1 DEF ClearsThrough
<1>3. \A k \in 1..n : t.entries[k - 1].key \in Addresses \cup {NoKey}
  BY <1>1, EntryTypes DEF Tables, Slots
<1> HIDE DEF n
<1> DEFINE Bad == {k \in 0..n : ~Erased(w[k], t, K, V)}
<1>4. Bad = {}
  <2> SUFFICES ASSUME Bad # {} PROVE FALSE
    OBVIOUS
  <2>1. PICK k \in Bad : \A j \in Bad : k <= j
    <3>1. Bad \in SUBSET Nat
      BY <1>1
    <3> HIDE DEF Bad
    <3> QED
      BY <3>1, LeastNatural
  <2>2. Erased(t, t, K, V)
    BY DEF Erased
  <2>3. k \in 1..n /\ k - 1 \in 0..n /\ ~(k <= k - 1)
    BY <1>1, <1>2, <2>1, <2>2
  <2>4. Erased(w[k - 1], t, K, V)
    BY <2>1, <2>3
  <2> DEFINE s == w[k - 1]
             key == t.entries[k - 1].key
  <2>5. w[k] = Clear(s, key, HashOf(h), marked) /\ key \in Addresses \cup {NoKey}
    BY <1>2, <1>3, <2>3
  <2>6. TableInv(s, V)
    BY <2>4 DEF Erased
  <2> HIDE DEF s, key
  <2>7. CASE key \in marked \cup {NoKey}
    BY <2>1, <2>4, <2>5, <2>7 DEF Clear, s
  <2>8. CASE key \notin marked \cup {NoKey}
    <3>1. key \in Addresses /\ key \in K
      BY <2>5, <2>8
    <3>2. Erased(TableDelete(s, HashOf(h), key), s, {key}, V)
      BY <2>6, <3>1, Deletes, HashesOfHeap
    <3>3. Erased(w[k], s, K, V)
      BY <2>5, <2>8, <3>1, <3>2 DEF Erased, Clear
    <3>4. Erased(w[k], t, K, V)
      BY <2>4, <3>3, ErasedTwice DEF s
    <3> QED
      BY <2>1, <3>4
  <2> QED
    BY <2>7, <2>8
<1>5. n \in 0..n
  BY <1>1
<1> QED
  BY <1>2, <1>4, <1>5

-----------------------------------------------------------------------------
(* Interned strings. *)

\* Every string of the heap h can be found in t, and its text is nowhere else.
Interned(h, t) ==
    /\ h \in Heaps /\ TableInv(t, {Nil})
    /\ \A a \in Allocated(h) : OnPath(t, Hash[h[a]], a)
    /\ \A a, b \in Allocated(h) : h[a] = h[b] => a = b

\* tableFindString returns the string of this text, or none if there is none.
LEMMA Finds ==
    ASSUME NEW h, NEW t, Interned(h, t), NEW text \in Texts
    PROVE  LET found == TableFindString(t, h, text)
           IN  /\ \A a \in Allocated(h) : h[a] = text => found = a
               /\ found # NoKey => found \in Allocated(h) /\ h[found] = text
<1> DEFINE n == t.capacity
           g == Hash[text]
           At(d) == t.entries[Probe(n, g, d)]
           Stop(d) == At(d) = Empty \/ (At(d).key # NoKey /\ h[At(d).key] = text)
           steps == CHOOSE d \in 0..(n - 1) : Stop(d) /\ \A e \in 0..(d - 1) : ~Stop(e)
           S == {i \in Slots(n) : t.entries[i] = Empty \/ (t.entries[i].key # NoKey /\ h[t.entries[i].key] = text)}
<1>1. n \in Nat /\ t \in Tables(n, {Nil}) /\ t.count \in Nat /\ h \in Heaps /\ g \in Nat
  BY StringsAssumption DEF Interned, TableInv, Tables
<1>2. /\ Cardinality(Used(t)) \in Nat /\ Cardinality(Used(t)) <= t.count /\ 4 * t.count <= 3 * n
      /\ (Cardinality(Used(t)) < n => Used(t) # Slots(n)) /\ IsFiniteSet(Used(t))
      /\ Used(t) \in SUBSET Slots(n) /\ Stored(t) \in SUBSET Used(t) /\ DOMAIN t.entries = Slots(n)
  <2>1. /\ Cardinality(Used(t)) \in Nat /\ IsFiniteSet(Used(t)) /\ Stored(t) \in SUBSET Used(t)
        /\ (Cardinality(Used(t)) < n => Used(t) # Slots(n))
        /\ Used(t) \in SUBSET Slots(n) /\ DOMAIN t.entries = Slots(n)
    <3> HIDE DEF n
    <3> QED
      BY <1>1, UsedSlots
  <2> QED
    BY <1>1, <2>1 DEF Interned, TableInv
<1>3. CASE t.count = 0
  <2>1. Cardinality(Used(t)) = 0
    BY <1>2, <1>3
  <2>2. Used(t) = {}
    BY <1>2, <2>1, FS_EmptySet
  <2>3. Pairs(t) = {}
    BY <1>2, <2>2 DEF Pairs
  <2>4. Allocated(h) = {}
    <3> SUFFICES ASSUME NEW a \in Allocated(h) PROVE FALSE
      OBVIOUS
    <3>1. a \in Addresses /\ Hash[h[a]] \in Nat
      BY <1>1, HashesOfHeap
    <3>2. OnPath(t, Hash[h[a]], a)
      BY DEF Interned
    <3> HIDE DEF n
    <3> QED
      BY <1>1, <2>3, <3>1, <3>2, OnPathStored
  <2>5. TableFindString(t, h, text) = NoKey
    BY <1>3 DEF TableFindString
  <2> QED
    BY <2>4, <2>5
<1>4. CASE t.count # 0
  <2>1. n \in Nat \ {0} /\ Used(t) # Slots(n)
    BY <1>1, <1>2, <1>4
  <2>2. TableFindString(t, h, text) = At(steps).key
    BY <1>4 DEF TableFindString
  <2>3. S # {}
    BY <1>2, <2>1 DEF Used
  <2> HIDE DEF n, g
  <2>4. PICK d : First(S, n, g, d)
    BY <1>1, <2>1, <2>3, FirstExists
  <2>5. \A x \in Slots(n) : Stop(x) <=> Probe(n, g, x) \in S
    <3>1. \A x \in Slots(n) : x \in Nat
      BY DEF Slots
    <3>2. \A x \in Slots(n) : Probe(n, g, x) \in Slots(n)
      BY <1>1, <2>1, <3>1, Probing
    <3> QED
      BY <3>2
  <2>6. \A x : First(S, n, g, x) <=> x \in 0..(n - 1) /\ Stop(x) /\ \A e \in 0..(x - 1) : ~Stop(e)
    <3>1. \A x \in Slots(n) : \A e \in 0..(x - 1) : e \in Slots(n)
      BY <2>1 DEF Slots
    <3> HIDE DEF Stop, S
    <3> QED
      BY <2>5, <3>1 DEF First, Slots
  <2>7. steps \in 0..(n - 1) /\ Stop(steps) /\ \A e \in 0..(steps - 1) : ~Stop(e)
    <3>1. \E x \in 0..(n - 1) : Stop(x) /\ \A e \in 0..(x - 1) : ~Stop(e)
      BY <2>4, <2>6
    <3> HIDE DEF Stop
    <3> QED
      BY <3>1
  <2> HIDE DEF steps
  <2>8. steps \in Slots(n) /\ steps \in Nat
    <3>1. steps \in 0..(n - 1)
      BY <2>7
    <3> QED
      BY <2>1, <3>1 DEF Slots
  <2>9. At(steps) \in Entries({Nil})
    BY <1>1, <2>1, <2>8, Probing DEF Tables
  <2>10. At(steps).key # NoKey => At(steps).key \in Allocated(h) /\ h[At(steps).key] = text
    <3>1. Free \notin Texts
      BY StringsAssumption
    <3>2. At(steps).key # NoKey => At(steps) # Empty /\ At(steps).key \in Addresses
      BY <2>9, EntryTypes
    <3> QED
      BY <2>7, <3>1, <3>2 DEF Allocated
  <2>11. ASSUME NEW a \in Allocated(h), h[a] = text PROVE At(steps).key = a
    <3>1. OnPath(t, g, a)
      BY <2>11 DEF Interned, g
    <3>2. PICK x \in Slots(n) : At(x).key = a /\ \A e \in 0..(x - 1) : At(e) # Empty
      BY <3>1 DEF OnPath, n
    <3>3. a # NoKey
      BY EntryTypes DEF Allocated
    <3>4. Stop(x)
      BY <2>11, <3>2, <3>3
    <3>5. steps = x \/ steps \in 0..(x - 1)
      <4>1. ~(x \in 0..(steps - 1))
        BY <2>7, <3>4
      <4>2. x \in Nat
        BY DEF Slots
      <4> QED
        BY <2>8, <4>1, <4>2
    <3>6. At(steps) # Empty
      BY <3>2, <3>3, <3>5, EntryTypes
    <3>7. At(steps).key # NoKey
      BY <2>7, <3>6
    <3> QED
      BY <2>10, <2>11, <3>7 DEF Interned
  <2> QED
    BY <2>2, <2>10, <2>11
<1> QED
  BY <1>3, <1>4

\* No string has this text.
Absent(h, text) == \A b \in Allocated(h) : h[b] # text

\* The heap g and the table u are h and t with a string of this text at a.
WithString(g, u, h, t, text, a) ==
    /\ Interned(g, u) /\ Allocated(g) = Allocated(h) \cup {a}
    /\ g[a] = text /\ \A b \in Allocated(h) : g[b] = h[b]
    /\ \A k \in Addresses : (\E e \in Pairs(u) : e.key = k) <=> k = a \/ (\E e \in Pairs(t) : e.key = k)

\* allocateString, when no string has the text.
LEMMA Allocates ==
    ASSUME NEW h, NEW t, Interned(h, t), NEW text \in Texts, NEW a \in Addresses \ Allocated(h), Absent(h, text),
           NEW g, g = [h EXCEPT ![a] = text]
    PROVE  WithString(g, TableSet(t, HashOf(g), a, Nil), h, t, text, a)
<1> DEFINE u == TableSet(t, HashOf(g), a, Nil)
<1>1. h \in Heaps /\ TableInv(t, {Nil})
  BY DEF Interned
<1>2. g \in Heaps /\ g[a] = text /\ \A b \in Addresses : b # a => g[b] = h[b]
  BY <1>1 DEF Heaps
<1>3. Free # text
  BY StringsAssumption
<1>4. Allocated(g) = Allocated(h) \cup {a} /\ \A b \in Allocated(h) : b # a /\ g[b] = h[b]
  BY <1>2, <1>3 DEF Allocated
<1>5. HashOf(g) \in Hashes /\ \A b \in Allocated(g) : b \in Addresses /\ HashOf(g)[b] = Hash[g[b]]
  BY <1>2, HashesOfHeap
<1>6. IsSet(u, t, HashOf(g), a, Nil, {Nil})
  BY <1>1, <1>5, TableSets
<1> HIDE DEF u
<1>7. TableInv(u, {Nil})
  BY <1>6 DEF IsSet
<1>8. ASSUME NEW b \in Allocated(g) PROVE OnPath(u, Hash[g[b]], b)
  <2>1. OnPath(u, HashOf(g)[b], b)
    <3>1. CASE b = a
      BY <1>6, <3>1 DEF IsSet
    <3>2. CASE b \in Allocated(h)
      <4>1. OnPath(t, Hash[h[b]], b)
        BY <3>2 DEF Interned
      <4>2. OnPath(t, HashOf(g)[b], b)
        BY <1>4, <1>5, <3>2, <4>1
      <4> QED
        BY <1>5, <1>6, <4>2 DEF IsSet
    <3> QED
      BY <1>4, <3>1, <3>2
  <2> QED
    BY <1>5, <2>1
<1>9. \A b, c \in Allocated(g) : g[b] = g[c] => b = c
  <2>1. \A b, c \in Allocated(h) : h[b] = h[c] => b = c
    BY DEF Interned
  <2>2. \A b \in Allocated(h) : h[b] # text
    BY DEF Absent
  <2> SUFFICES ASSUME NEW b \in Allocated(g), NEW c \in Allocated(g), g[b] = g[c] PROVE b = c
    OBVIOUS
  <2>3. CASE b \in Allocated(h) /\ c \in Allocated(h)
    BY <1>4, <2>1, <2>3
  <2>4. CASE b = a /\ c = a
    BY <2>4
  <2>5. CASE b = a /\ c \in Allocated(h)
    BY <1>2, <1>4, <2>2, <2>5
  <2>6. CASE b \in Allocated(h) /\ c = a
    BY <1>2, <1>4, <2>2, <2>6
  <2> QED
    BY <1>4, <2>3, <2>4, <2>5, <2>6
<1>10. Interned(g, u)
  BY <1>2, <1>7, <1>8, <1>9 DEF Interned
<1>11. \A k \in Addresses : (\E e \in Pairs(u) : e.key = k) <=> k = a \/ (\E e \in Pairs(t) : e.key = k)
  BY <1>6 DEF IsSet
<1> QED
  BY <1>2, <1>4, <1>10, <1>11 DEF WithString, u

\* A collection: what is marked stays as it is and can still be found, whatever
\* tombstones come before it.
LEMMA Collects ==
    ASSUME NEW h, NEW t, Interned(h, t), NEW marked \in SUBSET Allocated(h)
    PROVE  LET g == Sweep(h, marked)
           IN  /\ Interned(g, TableRemoveWhite(t, h, marked))
               /\ Allocated(g) = marked /\ \A a \in marked : g[a] = h[a]
<1> DEFINE g == Sweep(h, marked)
           u == TableRemoveWhite(t, h, marked)
<1>1. h \in Heaps /\ TableInv(t, {Nil})
  BY DEF Interned
<1>2. g \in Heaps /\ Allocated(g) = marked /\ \A a \in marked : g[a] = h[a]
  BY <1>1 DEF Heaps, Sweep, Allocated
<1> HIDE DEF g
<1>3. Erased(u, t, Addresses \ marked, {Nil})
  BY <1>1, Removes
<1> HIDE DEF u
<1>4. TableInv(u, {Nil}) /\ u.capacity = t.capacity
  BY <1>3 DEF Erased
<1> DEFINE n == t.capacity
<1>5. n \in Nat /\ t \in Tables(n, {Nil}) /\ u \in Tables(n, {Nil})
  BY <1>1, <1>4 DEF TableInv
<1>6. DOMAIN t.entries = Slots(n) /\ DOMAIN u.entries = Slots(n)
  BY <1>5 DEF Tables
<1>7. \A i \in Slots(n) : u.entries[i] = Empty => t.entries[i] = Empty
  BY <1>3, EntryTypes DEF Erased
<1>8. \A i \in Slots(n) : t.entries[i].key \in marked => u.entries[i] = t.entries[i]
  BY <1>3 DEF Erased
<1>9. ASSUME NEW a \in marked PROVE OnPath(u, Hash[g[a]], a)
  <2> DEFINE f == Hash[h[a]]
  <2>1. OnPath(t, f, a) /\ f \in Nat /\ Hash[g[a]] = f
    BY <1>1, <1>2, HashesOfHeap DEF Interned
  <2> HIDE DEF f
  <2>2. PICK d \in Slots(n) :
           t.entries[Probe(n, f, d)].key = a /\ \A e \in 0..(d - 1) : t.entries[Probe(n, f, e)] # Empty
    BY <2>1 DEF OnPath
  <2>3. n \in Nat \ {0} /\ d \in Nat
    BY <1>5, <2>2 DEF Slots
  <2> HIDE DEF n
  <2>4. \A e \in Nat : Probe(n, f, e) \in Slots(n)
    BY <2>1, <2>3, Probing
  <2>5. u.entries[Probe(n, f, d)].key = a
    BY <1>8, <2>2, <2>3, <2>4
  <2>6. \A e \in 0..(d - 1) : u.entries[Probe(n, f, e)] # Empty
    <3>1. \A e \in 0..(d - 1) : e \in Nat
      BY <2>3
    <3> QED
      BY <1>7, <2>2, <2>4, <3>1
  <2>7. u.capacity = n
    BY <1>4 DEF n
  <2>8. OnPath(u, f, a)
    BY <2>5, <2>6, <2>7 DEF OnPath
  <2> QED
    BY <2>1, <2>8
<1>10. \A a, b \in marked : g[a] = g[b] => a = b
  BY <1>2 DEF Interned
<1>11. Interned(g, u)
  BY <1>2, <1>4, <1>9, <1>10 DEF Interned
<1> QED
  BY <1>2, <1>11 DEF g, u

\* What is stored has the key of an object.
KeysAllocated(h, t) == \A e \in Pairs(t) : e.key \in Allocated(h)

\* The strings that the constants of the script and the virtual machine keep.
KeptRooted == \A a \in Allocated(heap) : heap[a] \in Range(AtStart) => a \in Roots

\* What is always so of the strings.
StringsInv ==
    /\ Interned(heap, strings) /\ KeptRooted
    /\ held \subseteq Allocated(heap) /\ initString \in Allocated(heap) /\ heap[initString] = InitText

\* The texts that initVM and the first compilation intern.
LEMMA FirstTexts ==
    /\ AtStart \in Seq(Texts) /\ Len(AtStart) \in Nat \ {0} /\ AtStart[1] = InitText
    /\ DOMAIN AtStart = 1..Len(AtStart) /\ Range(AtStart) = {InitText} \cup Range(Kept)
    /\ \A i, j \in DOMAIN AtStart : AtStart[i] = AtStart[j] => i = j
<1>1. Kept \in Seq(Texts) /\ InitText \in Texts /\ IsInjective(AtStart)
  BY StringsAssumption
<1> DEFINE s == <<InitText>>
           m == Len(Kept)
<1>2. s \in Seq(Texts) /\ Len(s) = 1 /\ s[1] = InitText
  BY <1>1
<1>3. m \in Nat /\ DOMAIN Kept = 1..m
  BY <1>1
<1> HIDE DEF s
<1>4. /\ AtStart \in Seq(Texts) /\ Len(AtStart) = m + 1 /\ AtStart[1] = InitText
      /\ \A i \in 1..m : AtStart[i + 1] = Kept[i]
  <2>1. AtStart = s \o Kept
    BY DEF AtStart, s
  <2>2. s \o Kept \in Seq(Texts) /\ Len(s \o Kept) = m + 1
    <3>1. s \o Kept \in Seq(Texts) /\ Len(s \o Kept) = Len(s) + m
      BY <1>1, <1>2, ConcatProperties
    <3>2. 1 + m = m + 1
      BY <1>3
    <3> QED
      BY <1>2, <3>1, <3>2
  <2>3. (s \o Kept)[1] = InitText
    BY <1>1, <1>2, <1>3, ConcatProperties
  <2>4. \A i \in 1..m : (s \o Kept)[i + 1] = Kept[i]
    <3> SUFFICES ASSUME NEW i \in 1..m PROVE (s \o Kept)[i + 1] = Kept[i]
      OBVIOUS
    <3>1. i + 1 \in 1..(Len(s) + Len(Kept)) /\ ~(i + 1 <= Len(s)) /\ (i + 1) - Len(s) = i
      BY <1>2, <1>3
    <3> QED
      BY <1>1, <1>2, <3>1, ConcatProperties
  <2> QED
    BY <2>1, <2>2, <2>3, <2>4
<1>5. DOMAIN AtStart = 1..(m + 1)
  BY <1>4
<1> HIDE DEF m
<1>6. Range(AtStart) = {InitText} \cup Range(Kept)
  <2>1. \A i \in 1..(m + 1) : i = 1 \/ \E j \in 1..m : i = j + 1
    <3> SUFFICES ASSUME NEW i \in 1..(m + 1), i # 1 PROVE \E j \in 1..m : i = j + 1
      OBVIOUS
    <3>1. i - 1 \in 1..m /\ i = (i - 1) + 1
      BY <1>3
    <3> QED
      BY <3>1
  <2>2. 1 \in 1..(m + 1) /\ \A j \in 1..m : j + 1 \in 1..(m + 1)
    BY <1>3
  <2>3. Range(AtStart) = {AtStart[i] : i \in 1..(m + 1)} /\ Range(Kept) = {Kept[i] : i \in 1..m}
    BY <1>3, <1>5 DEF Range
  <2>4. ASSUME NEW i \in 1..(m + 1) PROVE AtStart[i] \in {InitText} \cup Range(Kept)
    BY <1>4, <2>1, <2>3
  <2>5. InitText \in Range(AtStart)
    BY <1>4, <2>2, <2>3
  <2>6. ASSUME NEW i \in 1..m PROVE Kept[i] \in Range(AtStart)
    BY <1>4, <2>2, <2>3
  <2> QED
    BY <2>3, <2>4, <2>5, <2>6
<1>7. m + 1 \in Nat \ {0}
  BY <1>3
<1> QED
  BY <1>1, <1>4, <1>5, <1>6, <1>7 DEF IsInjective

\* Tables of any size.
AllTables(V) == {t \in UNION {Tables(n, V) : n \in Nat} : TableInv(t, V)}

\* Keys that are stored one after the other.
StoreAll(t, hash, keys, v, w) ==
    /\ w[0] = t /\ \A k \in DOMAIN keys : w[k] = TableSet(w[k - 1], hash, keys[k], v)

\* They are all found then, and nothing else is stored but what was.
LEMMA StoresAll ==
    ASSUME NEW V, NEW v \in V, NEW t, TableInv(t, V), NEW hash \in Hashes, NEW n \in Nat, NEW keys \in [1..n -> Addresses],
           NEW w, StoreAll(t, hash, keys, v, w)
    PROVE  /\ TableInv(w[n], V)
           /\ \A k \in Addresses : k \in Range(keys) \/ OnPath(t, hash[k], k) => OnPath(w[n], hash[k], k)
           /\ \A k \in Addresses : (\E e \in Pairs(w[n]) : e.key = k) <=> k \in Range(keys) \/ (\E e \in Pairs(t) : e.key = k)
<1> DEFINE Earlier(i) == {keys[j] : j \in 1..i}
           Good(i) ==
              /\ TableInv(w[i], V)
              /\ \A k \in Addresses : k \in Earlier(i) \/ OnPath(t, hash[k], k) => OnPath(w[i], hash[k], k)
              /\ \A k \in Addresses : (\E e \in Pairs(w[i]) : e.key = k) <=> k \in Earlier(i) \/ (\E e \in Pairs(t) : e.key = k)
           Bad == {i \in 0..n : ~Good(i)}
<1>1. Earlier(0) = {}
  OBVIOUS
<1>2. Good(0)
  BY <1>1 DEF StoreAll
<1>3. Bad = {}
  <2> SUFFICES ASSUME Bad # {} PROVE FALSE
    OBVIOUS
  <2>1. PICK i \in Bad : \A j \in Bad : i <= j
    <3>1. Bad \in SUBSET Nat
      OBVIOUS
    <3> HIDE DEF Bad
    <3> QED
      BY <3>1, LeastNatural
  <2>2. i \in 1..n /\ i - 1 \in 0..n /\ ~(i <= i - 1)
    <3> HIDE DEF Good
    <3> QED
      BY <1>2, <2>1
  <2>3. Good(i - 1)
    <3> HIDE DEF Good
    <3> QED
      BY <2>1, <2>2
  <2> DEFINE s == w[i - 1]
             u == w[i]
             key == keys[i]
  <2>4. u = TableSet(s, hash, key, v) /\ key \in Addresses
    BY <2>2 DEF StoreAll
  <2>5. Earlier(i) = Earlier(i - 1) \cup {key}
    <3>1. \A j \in 1..i : j \in 1..(i - 1) \/ j = i
      BY <2>2
    <3>2. i \in 1..i /\ \A j \in 1..(i - 1) : j \in 1..i
      BY <2>2
    <3> QED
      BY <3>1, <3>2
  <2>6. IsSet(u, s, hash, key, v, V)
    <3>1. TableInv(s, V)
      BY <2>3
    <3> HIDE DEF s, u, key
    <3> QED
      BY <2>4, <3>1, TableSets
  <2>7. Good(i)
    <3> HIDE DEF Earlier, key
    <3>1. TableInv(u, V)
      BY <2>6 DEF IsSet
    <3>2. \A k \in Addresses : k \in Earlier(i) \/ OnPath(t, hash[k], k) => OnPath(u, hash[k], k)
      BY <2>3, <2>5, <2>6 DEF IsSet
    <3>3. \A k \in Addresses : (\E e \in Pairs(u) : e.key = k) <=> k \in Earlier(i) \/ (\E e \in Pairs(t) : e.key = k)
      BY <2>3, <2>5, <2>6 DEF IsSet
    <3> QED
      BY <3>1, <3>2, <3>3
  <2> HIDE DEF Good
  <2> QED
    BY <2>1, <2>7
<1>4. Good(n)
  <2> HIDE DEF Good
  <2> QED
    BY <1>3
<1>5. Earlier(n) = Range(keys)
  BY DEF Range
<1> QED
  BY <1>4, <1>5

\* The loop of StringsInit.
LEMMA InitLoop ==
    ASSUME NEW hash \in Hashes, NEW n \in Nat, NEW keys \in [1..n -> Addresses]
    PROVE  LET interned[i \in 0..n] ==
                  IF i = 0 THEN initTable ELSE TableSet(interned[i - 1], hash, keys[i], Nil)
           IN  StoreAll(initTable, hash, keys, Nil, interned)
<1> DEFINE A == AllTables({Nil})
           interned[i \in 0..n] == IF i = 0 THEN initTable ELSE TableSet(interned[i - 1], hash, keys[i], Nil)
           step == [k \in 1..n |-> [s \in A |-> TableSet(s, hash, keys[k], Nil)]]
<1>1. \A t : TableInv(t, {Nil}) <=> t \in A
  BY DEF AllTables, TableInv
<1>2. initTable \in A
  BY <1>1, InitTableInv
<1>3. \A s \in A, key \in Addresses : TableSet(s, hash, key, Nil) \in A
  BY <1>1, TableSets DEF IsSet
<1> HIDE DEF A
<1>4. step \in [1..n -> [A -> A]]
  BY <1>3
<1>5. PICK f \in [0..n -> A] : FollowsLoop(f, n, initTable, step)
  <2> HIDE DEF step
  <2> QED
    BY <1>2, <1>4, LoopRecursion
<1>6. \A k \in 1..n : k - 1 \in 0..n /\ k \in 0..n /\ k # 0 /\ step[k][f[k - 1]] = TableSet(f[k - 1], hash, keys[k], Nil)
  <2>1. \A k \in 1..n : k - 1 \in 0..n /\ k \in 0..n /\ k # 0
    OBVIOUS
  <2> QED
    BY <1>5, <2>1
<1>7. f = [i \in 0..n |-> IF i = 0 THEN initTable ELSE TableSet(f[i - 1], hash, keys[i], Nil)]
  <2>1. \A i \in 0..n : f[i] = IF i = 0 THEN initTable ELSE step[i][f[i - 1]]
    <3> HIDE DEF step
    <3> QED
      BY <1>5 DEF FollowsLoop
  <2>2. \A i \in 0..n : i = 0 \/ i \in 1..n
    OBVIOUS
  <2> HIDE DEF step
  <2>3. \A i \in 0..n : f[i] = IF i = 0 THEN initTable ELSE TableSet(f[i - 1], hash, keys[i], Nil)
    BY <1>6, <2>1, <2>2
  <2> QED
    BY <1>5, <2>3
<1>8. interned = [i \in 0..n |-> IF i = 0 THEN initTable ELSE TableSet(interned[i - 1], hash, keys[i], Nil)]
  <2> HIDE DEF step
  <2> QED
    BY <1>7
<1> HIDE DEF interned
<1>9. interned[0] = initTable /\ \A k \in 1..n : interned[k] = TableSet(interned[k - 1], hash, keys[k], Nil)
  <2>1. 0 \in 0..n
    OBVIOUS
  <2> HIDE DEF step
  <2> QED
    BY <1>6, <1>8, <2>1
<1>10. StoreAll(initTable, hash, keys, Nil, interned)
  BY <1>9 DEF StoreAll
<1> QED
  BY <1>10 DEF interned

\* What is stored has an object as its key.
LEMMA PairsTyped ==
    ASSUME NEW V, NEW t, TableInv(t, V)
    PROVE  \A e \in Pairs(t) : e.key \in Addresses /\ e.key # NoKey /\ e.value \in V /\ e = Entry(e.key, e.value)
<1>1. t.entries \in [Slots(t.capacity) -> Entries(V)]
  BY DEF TableInv, Tables
<1>2. \A i \in Stored(t) : t.entries[i] \in Entries(V) /\ t.entries[i].key # NoKey
  BY <1>1 DEF Stored
<1> QED
  BY <1>2, EntryTypes DEF Pairs

\* The strings there are at first.
LEMMA FirstHeap ==
    ASSUME NEW places \in Injection(DOMAIN AtStart, Addresses), NEW h,
           h = [a \in Addresses |-> IF a \in Range(places) THEN AtStart[AntiFunction(places)[a]] ELSE Free]
    PROVE  /\ h \in Heaps /\ Allocated(h) = Range(places)
           /\ \A i \in DOMAIN AtStart : places[i] \in Addresses /\ h[places[i]] = AtStart[i]
<1> DEFINE N == Len(AtStart)
<1>1. /\ AtStart \in Seq(Texts) /\ DOMAIN AtStart = 1..N /\ N \in Nat
      /\ \A i \in 1..N : AtStart[i] \in Texts
  BY FirstTexts
<1> HIDE DEF N
<1>2. places \in [1..N -> Addresses] /\ \A i, j \in 1..N : places[i] = places[j] => i = j
  BY <1>1 DEF Injection, IsInjective
<1>3. Range(places) = {places[i] : i \in 1..N}
  BY <1>2 DEF Range
<1>4. \A i \in 1..N : AntiFunction(places)[places[i]] = i
  <2> SUFFICES ASSUME NEW i \in 1..N PROVE AntiFunction(places)[places[i]] = i
    OBVIOUS
  <2> DEFINE a == places[i]
  <2>1. a \in Range(places)
    BY <1>3
  <2>2. AntiFunction(places)[a] = CHOOSE s \in 1..N : a \in Range(places) => places[s] = a
    BY <1>2, <2>1 DEF AntiFunction, Inverse
  <2>3. \A s \in 1..N : (a \in Range(places) => places[s] = a) <=> s = i
    BY <1>2, <2>1
  <2> HIDE DEF a
  <2>4. (CHOOSE s \in 1..N : a \in Range(places) => places[s] = a) = i
    BY <2>3
  <2> QED
    BY <2>2, <2>4 DEF a
<1>5. \A i \in 1..N : places[i] \in Addresses /\ h[places[i]] = AtStart[i]
  BY <1>2, <1>3, <1>4
<1>6. \A a \in Addresses : a \notin Range(places) => h[a] = Free
  OBVIOUS
<1>7. \A a \in Range(places) : a \in Addresses /\ h[a] \in Texts
  BY <1>1, <1>3, <1>5
<1>8. DOMAIN h = Addresses /\ h = [a \in DOMAIN h |-> h[a]]
  OBVIOUS
<1>9. h \in Heaps
  <2> HIDE DEF Heaps
  <2>1. \A a \in Addresses : h[a] \in Texts \cup {Free}
    BY <1>6, <1>7
  <2> QED
    BY <1>8, <2>1 DEF Heaps
<1>10. Allocated(h) = Range(places)
  <2>1. Free \notin Texts
    BY StringsAssumption
  <2> QED
    BY <1>6, <1>7, <2>1 DEF Allocated
<1> QED
  BY <1>1, <1>5, <1>9, <1>10

\* The strings of the first texts are interned, and nothing else is.
LEMMA InitStrings == StringsInit => StringsInv /\ KeysAllocated(heap, strings)
<1> SUFFICES ASSUME StringsInit PROVE StringsInv /\ KeysAllocated(heap, strings)
  OBVIOUS
<1> DEFINE N == Len(AtStart)
<1>1. /\ N \in Nat \ {0} /\ AtStart[1] = InitText /\ DOMAIN AtStart = 1..N
      /\ \A i, j \in 1..N : AtStart[i] = AtStart[j] => i = j
  BY FirstTexts
<1>2. PICK places \in Injection(DOMAIN AtStart, Addresses) :
         LET interned[i \in 0..Len(AtStart)] ==
                 IF i = 0 THEN initTable
                 ELSE TableSet(interned[i - 1], HashOf(heap), places[i], Nil)
         IN  /\ \A i \in DOMAIN AtStart : places[i] \in Places[AtStart[i]]
             /\ heap = [a \in Addresses |->
                            IF a \in Range(places) THEN AtStart[AntiFunction(places)[a]] ELSE Free]
             /\ strings = interned[Len(AtStart)]
             /\ initString = places[1]
             /\ held = Range(places) \ {initString}
  BY DEF StringsInit
<1>3. heap = [a \in Addresses |-> IF a \in Range(places) THEN AtStart[AntiFunction(places)[a]] ELSE Free]
  BY <1>2
<1>4. initString = places[1] /\ held = Range(places) \ {initString}
  BY <1>2
<1>5. /\ heap \in Heaps /\ Allocated(heap) = Range(places)
      /\ \A i \in 1..N : places[i] \in Addresses /\ heap[places[i]] = AtStart[i]
  BY <1>1, <1>3, FirstHeap
<1>6. places \in [1..N -> Addresses] /\ Range(places) = {places[i] : i \in 1..N}
  <2>1. places \in [1..N -> Addresses]
    BY <1>1 DEF Injection
  <2> QED
    BY <2>1 DEF Range
<1> DEFINE hash == HashOf(heap)
           interned[i \in 0..N] == IF i = 0 THEN initTable ELSE TableSet(interned[i - 1], hash, places[i], Nil)
<1>7. hash \in Hashes /\ \A a \in Allocated(heap) : hash[a] = Hash[heap[a]]
  BY <1>5, HashesOfHeap
<1>8. strings = interned[N]
  BY <1>2
<1> HIDE DEF hash, N
<1>9. StoreAll(initTable, hash, places, Nil, interned)
  <2>1. N \in Nat
    BY <1>1
  <2> QED
    BY <1>6, <1>7, <2>1, InitLoop
<1> HIDE DEF interned
<1>10. /\ TableInv(strings, {Nil})
       /\ \A k \in Range(places) : k \in Addresses => OnPath(strings, hash[k], k)
       /\ \A k \in Addresses : (\E e \in Pairs(strings) : e.key = k) => k \in Range(places)
  <2>1. N \in Nat /\ Nil \in {Nil} /\ TableInv(initTable, {Nil}) /\ Pairs(initTable) = {}
    BY <1>1, InitTableInv
  <2>2. /\ TableInv(interned[N], {Nil})
        /\ \A k \in Addresses : k \in Range(places) \/ OnPath(initTable, hash[k], k) => OnPath(interned[N], hash[k], k)
        /\ \A k \in Addresses : (\E e \in Pairs(interned[N]) : e.key = k)
                                   <=> k \in Range(places) \/ (\E e \in Pairs(initTable) : e.key = k)
    <3> DEFINE V == {Nil}
               t == initTable
    <3>1. Nil \in V /\ TableInv(t, V) /\ N \in Nat /\ StoreAll(t, hash, places, Nil, interned)
      BY <1>9, <2>1
    <3> HIDE DEF V, t
    <3>2. /\ TableInv(interned[N], V)
          /\ \A k \in Addresses : k \in Range(places) \/ OnPath(t, hash[k], k) => OnPath(interned[N], hash[k], k)
          /\ \A k \in Addresses : (\E e \in Pairs(interned[N]) : e.key = k)
                                     <=> k \in Range(places) \/ (\E e \in Pairs(t) : e.key = k)
      BY <1>6, <1>7, <3>1, StoresAll
    <3> QED
      BY <3>2 DEF V, t
  <2> QED
    BY <1>8, <2>1, <2>2
<1>11. \A a \in Allocated(heap) : \E i \in 1..N : a = places[i] /\ heap[a] = AtStart[i] /\ a \in Addresses
  BY <1>5, <1>6
<1>12. \A a, b \in Allocated(heap) : heap[a] = heap[b] => a = b
  BY <1>1, <1>11 DEF N
<1>13. Interned(heap, strings)
  BY <1>5, <1>7, <1>10, <1>11, <1>12 DEF Interned
<1>14. 1 \in 1..N
  BY <1>1 DEF N
<1>15. initString \in Allocated(heap) /\ heap[initString] = InitText
  BY <1>1, <1>4, <1>5, <1>6, <1>14
<1>16. Roots = Allocated(heap)
  BY <1>4, <1>5, <1>15 DEF Roots
<1>17. KeysAllocated(heap, strings)
  <2>1. \A e \in Pairs(strings) : e.key \in Addresses
    BY <1>10, PairsTyped
  <2> QED
    BY <1>5, <1>10, <2>1 DEF KeysAllocated
<1> QED
  BY <1>4, <1>5, <1>13, <1>15, <1>16, <1>17 DEF StringsInv, KeptRooted

\* A step of the strings keeps them interned, and what is marked where it is.
StringsKept(marked) == StringsInv' /\ \A a \in marked : a \in Allocated(heap') /\ heap'[a] = heap[a]

\* collectGarbage keeps what is marked, and nothing else.
LEMMA CollectionStep ==
    ASSUME StringsInv, NEW marked, marked \subseteq Allocated(heap), Roots \subseteq marked,
           collectGarbage(marked)
    PROVE  StringsKept(marked) /\ Allocated(heap') = marked
<1>1. /\ strings' = TableRemoveWhite(strings, heap, marked) /\ heap' = Sweep(heap, marked)
      /\ held' = held /\ initString' = initString
  BY DEF collectGarbage
<1>2. Interned(heap, strings)
  BY DEF StringsInv
<1>3. /\ Interned(heap', strings') /\ Allocated(heap') = marked /\ \A a \in marked : heap'[a] = heap[a]
  BY <1>1, <1>2, Collects
<1>4. Roots' = Roots
  BY <1>1 DEF Roots
<1>5. KeptRooted'
  BY <1>3, <1>4 DEF KeptRooted, StringsInv
<1>6. held' \subseteq marked /\ initString' \in marked
  BY <1>1 DEF Roots
<1> QED
  BY <1>1, <1>3, <1>5, <1>6 DEF StringsInv, StringsKept

\* What is let go of stays allocated, and is no string that is kept for good.
LEMMA DropStep ==
    ASSUME StringsInv, Drop PROVE StringsKept(Allocated(heap))
<1>1. PICK a \in held : heap[a] \notin Range(Kept) /\ held' = held \ {a}
  BY DEF Drop
<1>2. heap' = heap /\ strings' = strings /\ initString' = initString
  BY DEF Drop
<1>3. Range(AtStart) = {InitText} \cup Range(Kept)
  BY FirstTexts
<1>4. ASSUME NEW b \in Allocated(heap), heap[b] \in Range(AtStart) PROVE b \in Roots'
  <2>1. b \in Roots
    BY <1>4 DEF StringsInv, KeptRooted
  <2>2. CASE b = a
    <3>1. heap[b] = InitText
      BY <1>1, <1>3, <1>4, <2>2
    <3>2. b = initString
      BY <3>1 DEF StringsInv, Interned
    <3> QED
      BY <1>2, <3>2 DEF Roots
  <2>3. CASE b # a
    BY <1>1, <1>2, <2>1, <2>3 DEF Roots
  <2> QED
    BY <2>2, <2>3
<1>5. KeptRooted'
  BY <1>2, <1>4 DEF KeptRooted
<1>6. Interned(heap', strings')
  BY <1>2 DEF StringsInv
<1> QED
  BY <1>1, <1>2, <1>5, <1>6 DEF StringsInv, StringsKept

\* copyString and takeString find the string of the text or make the only one.
LEMMA InternStep ==
    ASSUME StringsInv, GrowthCollects = FALSE, NEW text \in Texts, NEW marked, Intern(text, marked)
    PROVE  /\ StringsKept(Allocated(heap))
           /\ KeysAllocated(heap, strings) => KeysAllocated(heap', strings')
<1> DEFINE found == TableFindString(strings, heap, text)
<1>1. Interned(heap, strings)
  BY DEF StringsInv
<1>2. /\ \A a \in Allocated(heap) : heap[a] = text => found = a
      /\ found # NoKey => found \in Allocated(heap) /\ heap[found] = text
  BY <1>1, Finds
<1>3. /\ initString' = initString
      /\ IF found # NoKey
         THEN held' = held \cup {found} /\ UNCHANGED <<heap, strings>>
         ELSE \E a \in Places[text] \ Allocated(heap) : allocateString(a, text, marked) /\ held' = held \cup {a}
  BY DEF Intern
<1> HIDE DEF found
<1>4. CASE found # NoKey
  <2>1. heap' = heap /\ strings' = strings /\ held' = held \cup {found}
    BY <1>3, <1>4
  <2>2. KeptRooted'
    BY <1>3, <2>1 DEF StringsInv, KeptRooted, Roots
  <2>3. Interned(heap', strings')
    BY <1>1, <2>1
  <2>4. held' \subseteq Allocated(heap) /\ initString' \in Allocated(heap) /\ heap[initString'] = InitText
    BY <1>2, <1>3, <1>4, <2>1 DEF StringsInv
  <2> QED
    BY <2>1, <2>2, <2>3, <2>4 DEF StringsInv, StringsKept
<1>5. CASE found = NoKey
  <2>1. PICK a \in Places[text] \ Allocated(heap) : allocateString(a, text, marked) /\ held' = held \cup {a}
    BY <1>3, <1>5
  <2> DEFINE g == [heap EXCEPT ![a] = text]
             u == TableSet(strings, HashOf(g), a, Nil)
  <2>2. heap' = g /\ strings' = u
    BY <2>1 DEF allocateString
  <2>3. a \in Addresses \ Allocated(heap)
    <3>1. Places[text] \subseteq Addresses
      BY StringsAssumption
    <3> QED
      BY <2>1, <3>1
  <2>4. Absent(heap, text)
    <3>1. \A b \in Allocated(heap) : b # NoKey
      BY EntryTypes DEF Allocated
    <3> QED
      BY <1>2, <1>5, <3>1 DEF Absent
  <2>5. WithString(g, u, heap, strings, text, a)
    <3> HIDE DEF g
    <3>1. g = [heap EXCEPT ![a] = text]
      BY DEF g
    <3> QED
      BY <1>1, <2>3, <2>4, <3>1, Allocates
  <2> HIDE DEF g, u
  <2>6. /\ Interned(g, u) /\ Allocated(g) = Allocated(heap) \cup {a}
        /\ g[a] = text /\ \A b \in Allocated(heap) : g[b] = heap[b]
        /\ \A k \in Addresses : (\E e \in Pairs(u) : e.key = k) <=> k = a \/ (\E e \in Pairs(strings) : e.key = k)
    BY <2>5 DEF WithString
  <2>7. KeptRooted'
    <3> SUFFICES ASSUME NEW b \in Allocated(g), g[b] \in Range(AtStart) PROVE b \in Roots'
      BY <2>2 DEF KeptRooted
    <3>1. CASE b = a
      BY <2>1, <3>1 DEF Roots
    <3>2. CASE b # a
      <4>1. b \in Roots
        BY <2>6, <3>2 DEF StringsInv, KeptRooted
      <4> QED
        BY <1>3, <2>1, <4>1 DEF Roots
    <3> QED
      BY <3>1, <3>2
  <2>8. held' \subseteq Allocated(g) /\ initString' \in Allocated(g) /\ g[initString'] = InitText
    BY <1>3, <2>1, <2>6 DEF StringsInv
  <2>9. KeysAllocated(heap, strings) => KeysAllocated(g, u)
    <3>1. \A e \in Pairs(u) : e.key \in Addresses
      BY <2>6, PairsTyped DEF Interned
    <3> QED
      BY <2>6, <3>1 DEF KeysAllocated
  <2> QED
    BY <2>2, <2>6, <2>7, <2>8, <2>9 DEF StringsInv, StringsKept
<1> QED
  BY <1>4, <1>5

\* u maps what t maps, but this value for this key.
Binds(u, t, hash, key, v, V) ==
    /\ TableInv(u, V) /\ KeysFound(u, hash)
    /\ Pairs(u) = Without(Pairs(t), key) \cup {Entry(key, v)}

\* u maps what t maps.
SameAs(u, t, hash, V) == TableInv(u, V) /\ KeysFound(u, hash) /\ Pairs(u) = Pairs(t)

\* The key is mapped.
HasKey(t, key) == \E e \in Pairs(t) : e.key = key

\* The code of an assignment.
LEMMA Assigns ==
    ASSUME NEW V, NEW t, TableInv(t, V), NEW hash \in Hashes, KeysFound(t, hash), NEW key \in Addresses, NEW v \in V
    PROVE  LET g == Grown(t, hash)
               u == Store(g, hash, key, v)
           IN  IF IsNewKey(g, hash, key)
               THEN ~HasKey(t, key) /\ SameAs(TableDelete(u, hash, key), t, hash, V)
               ELSE HasKey(t, key) /\ Binds(u, t, hash, key, v, V)
<1> DEFINE g == Grown(t, hash)
           u == Store(g, hash, key, v)
           n == g.capacity
<1>1. /\ TableInv(g, V) /\ n > 0 /\ 4 * (g.count + 1) <= 3 * n
      /\ KeysFound(g, hash) /\ Pairs(g) = Pairs(t)
  BY Grows DEF Roomier
<1>2. IsNewKey(g, hash, key) => SameAs(TableDelete(u, hash, key), t, hash, V)
  BY Undoes DEF SameAs
<1> HIDE DEF g
<1>3. n \in Nat \ {0} /\ g \in Tables(n, V) /\ g.count \in Nat
  BY <1>1 DEF TableInv, Tables
<1>4. Used(g) # Slots(n)
  <2>1. Cardinality(Used(g)) \in Nat /\ Cardinality(Used(g)) <= g.count /\ (Cardinality(Used(g)) < n => Used(g) # Slots(n))
    <3>1. Cardinality(Used(g)) \in Nat /\ (Cardinality(Used(g)) < n => Used(g) # Slots(n))
      <4> HIDE DEF n
      <4> QED
        BY <1>3, UsedSlots
    <3> QED
      BY <1>1, <3>1 DEF TableInv
  <2> QED
    BY <1>1, <1>3, <2>1
<1> DEFINE entry == g.entries[Ends(g, hash, key)]
<1>5. /\ entry.key = NoKey <=> ~HasKey(g, key)
      /\ IsNewKey(g, hash, key) <=> entry.key = NoKey
  <2>1. entry.key = NoKey <=> ~\E e \in Pairs(g) : e.key = key
    <3> HIDE DEF n
    <3> QED
      BY <1>1, <1>3, <1>4, Lookup
  <2> QED
    BY <2>1 DEF IsNewKey, Ends, HasKey
<1>6. HasKey(g, key) <=> HasKey(t, key)
  BY <1>1 DEF HasKey
<1>7. Binds(u, t, hash, key, v, V)
  <2>1. IsSet(u, g, hash, key, v, V)
    BY <1>1, StoreSets
  <2> QED
    BY <1>1, <2>1 DEF IsSet, Binds
<1> HIDE DEF u
<1> QED
  BY <1>2, <1>5, <1>6, <1>7 DEF g, u

-----------------------------------------------------------------------------
(* Global variables. *)

\* What is always so of the globals.
GlobalsInv ==
    /\ TableInv(globals, Values) /\ KeysFound(globals, Names) /\ KeysAllocated(heap, globals)
    /\ answer \in Values \cup {Undefined, Error}

\* The inductive invariant.
IInv == StringsInv /\ GlobalsInv

\* A table of globals is as good in a heap where its keys are what they were.
LEMMA SameHashes ==
    ASSUME NEW V, NEW t, TableInv(t, V), NEW h \in Heaps, NEW g \in Heaps, KeysAllocated(h, t),
           KeysFound(t, HashOf(h)), NEW marked, markTable(t) \subseteq marked,
           \A a \in marked : a \in Allocated(g) /\ g[a] = h[a]
    PROVE  KeysFound(t, HashOf(g)) /\ KeysAllocated(g, t)
<1>1. \A i \in Stored(t) : t.entries[i].key \in marked /\ t.entries[i] \in Pairs(t)
  BY DEF markTable, Pairs
<1>2. \A a \in marked : a \in Allocated(h) => HashOf(g)[a] = HashOf(h)[a]
  BY HashesOfHeap
<1>3. \A i \in Stored(t) : HashOf(g)[t.entries[i].key] = HashOf(h)[t.entries[i].key]
  BY <1>1, <1>2 DEF KeysAllocated
<1>4. KeysFound(t, HashOf(g))
  BY <1>3 DEF KeysFound
<1>5. \A e \in Pairs(t) : e.key \in marked
  BY DEF Pairs, markTable
<1> QED
  BY <1>4, <1>5 DEF KeysAllocated

\* The first state.
LEMMA InitIInv == Init => IInv /\ KeysAllocated(heap, strings)
<1> SUFFICES ASSUME Init PROVE IInv /\ KeysAllocated(heap, strings)
  OBVIOUS
<1>1. StringsInv /\ KeysAllocated(heap, strings) /\ globals = initTable /\ answer = Undefined
  BY InitStrings DEF Init
<1>2. TableInv(globals, Values) /\ KeysFound(globals, Names) /\ Pairs(globals) = {}
  BY <1>1, InitTableInv
<1> QED
  BY <1>1, <1>2 DEF IInv, GlobalsInv, KeysAllocated

\* A step of the strings.
LEMMA StringsStepIInv ==
    ASSUME IInv, GrowthCollects = FALSE, StringsStep(Roots \cup markTable(globals)), UNCHANGED <<globals, answer>>
    PROVE  IInv' /\ StringsKept(markTable(globals))
<1> DEFINE M == Roots \cup markTable(globals)
<1>1. M \subseteq Allocated(heap)
  <2>1. markTable(globals) \subseteq Allocated(heap)
    BY DEF IInv, GlobalsInv, KeysAllocated, Pairs, markTable
  <2> QED
    BY <2>1 DEF IInv, StringsInv, Roots
<1>2. StringsKept(M)
  <2> HIDE DEF M
  <2>1. CASE collectGarbage(M)
    <3>1. Roots \subseteq M
      BY DEF M
    <3> QED
      BY <1>1, <2>1, <3>1, CollectionStep DEF IInv
  <2>2. CASE StringsKept(Allocated(heap))
    BY <1>1, <2>2 DEF StringsKept
  <2>3. CASE Drop
    BY <2>2, <2>3, DropStep DEF IInv
  <2>4. CASE \E text \in Texts : Intern(text, M)
    BY <2>2, <2>4, InternStep DEF IInv
  <2> QED
    BY <2>1, <2>3, <2>4 DEF StringsStep, M
<1>3. KeysFound(globals, HashOf(heap')) /\ KeysAllocated(heap', globals)
  <2>1. heap \in Heaps /\ heap' \in Heaps
    BY <1>2 DEF IInv, StringsInv, Interned, StringsKept
  <2>2. \A a \in M : a \in Allocated(heap') /\ heap'[a] = heap[a]
    BY <1>2 DEF StringsKept
  <2>3. markTable(globals) \subseteq M
    OBVIOUS
  <2> HIDE DEF M
  <2> QED
    BY <2>1, <2>2, <2>3, SameHashes DEF IInv, GlobalsInv, Names
<1>4. IInv'
  BY <1>2, <1>3 DEF IInv, GlobalsInv, StringsKept, Names
<1> QED
  BY <1>2, <1>4 DEF StringsKept

\* The strings that handlers take names from.
LEMMA HeldNames ==
    ASSUME IInv, NEW name \in held
    PROVE  name \in Allocated(heap) /\ name \in Addresses /\ Names \in Hashes /\ heap[name] \in Texts
<1>1. heap \in Heaps /\ name \in Allocated(heap)
  BY DEF IInv, StringsInv, Interned
<1> QED
  BY <1>1, HashesOfHeap DEF Names

\* Handlers leave the strings alone.
LEMMA SameStrings ==
    ASSUME IInv, UNCHANGED stringsVars
    PROVE  StringsInv' /\ heap' = heap /\ Names' = Names
<1>1. heap' = heap /\ strings' = strings /\ held' = held /\ initString' = initString
  BY DEF stringsVars
<1>2. KeptRooted' /\ Names' = Names
  BY <1>1 DEF KeptRooted, Roots, Names, IInv, StringsInv
<1> QED
  BY <1>1, <1>2 DEF IInv, StringsInv

\* op_define_global maps the name to the value.
LEMMA Defines ==
    ASSUME IInv, NEW name \in held, NEW v \in Values, op_define_global(name, v)
    PROVE  Binds(globals', globals, Names, name, v, Values)
<1>1. IsSet(globals', globals, Names, name, v, Values)
  BY HeldNames, TableSets DEF op_define_global, IInv, GlobalsInv
<1> QED
  BY <1>1 DEF IsSet, Binds, IInv, GlobalsInv

\* op_set_global does so if the name is mapped, and otherwise undoes what it did.
LEMMA Sets ==
    ASSUME IInv, NEW name \in held, NEW v \in Values, op_set_global(name, v)
    PROVE  \/ ~HasKey(globals, name) /\ SameAs(globals', globals, Names, Values) /\ answer' = Error
           \/ HasKey(globals, name) /\ Binds(globals', globals, Names, name, v, Values) /\ answer' = v
<1> DEFINE g == Grown(globals, Names)
           u == Store(g, Names, name, v)
<1>1. IF IsNewKey(g, Names, name)
      THEN ~HasKey(globals, name) /\ SameAs(TableDelete(u, Names, name), globals, Names, Values)
      ELSE HasKey(globals, name) /\ Binds(u, globals, Names, name, v, Values)
  <2>1. TableInv(globals, Values) /\ KeysFound(globals, Names) /\ Names \in Hashes /\ name \in Addresses
    BY HeldNames DEF IInv, GlobalsInv
  <2> DEFINE hash == Names
             t == globals
  <2>2. TableInv(t, Values) /\ KeysFound(t, hash) /\ hash \in Hashes
    BY <2>1
  <2> HIDE DEF hash, t
  <2>3. LET a == Grown(t, hash)
            b == Store(a, hash, name, v)
        IN  IF IsNewKey(a, hash, name)
            THEN ~HasKey(t, name) /\ SameAs(TableDelete(b, hash, name), t, hash, Values)
            ELSE HasKey(t, name) /\ Binds(b, t, hash, name, v, Values)
    BY <2>1, <2>2, Assigns
  <2> QED
    BY <2>3 DEF t, hash
<1>2. IF IsNewKey(g, Names, name)
      THEN globals' = TableDelete(u, Names, name) /\ answer' = Error
      ELSE globals' = u /\ answer' = v
  BY DEF op_set_global
<1> HIDE DEF g, u
<1> QED
  BY <1>1, <1>2

\* Keys are strings that exist, before and after.
LEMMA BindsAllocated ==
    ASSUME NEW V, NEW t, NEW u, NEW hash, NEW key \in Addresses, NEW v \in V, NEW h, KeysAllocated(h, t),
           \/ key \in Allocated(h) /\ Binds(u, t, hash, key, v, V)
           \/ SameAs(u, t, hash, V)
    PROVE  KeysAllocated(h, u)
<1>1. Entry(key, v).key = key
  BY EntryTypes
<1>2. CASE key \in Allocated(h) /\ Binds(u, t, hash, key, v, V)
  BY <1>1, <1>2 DEF Binds, Without, KeysAllocated
<1>3. CASE SameAs(u, t, hash, V)
  BY <1>3 DEF SameAs, KeysAllocated
<1> QED
  BY <1>2, <1>3

\* A step of a handler.
LEMMA HandlerIInv ==
    ASSUME IInv, UNCHANGED stringsVars, NEW name \in held,
           \/ op_get_global(name)
           \/ \E v \in Values : op_define_global(name, v) \/ op_set_global(name, v)
    PROVE  IInv'
<1>1. StringsInv' /\ heap' = heap /\ Names' = Names
  BY SameStrings
<1>2. name \in Allocated(heap) /\ name \in Addresses /\ Names \in Hashes
  BY HeldNames
<1>3. TableInv(globals, Values) /\ KeysFound(globals, Names) /\ KeysAllocated(heap, globals)
  BY DEF IInv, GlobalsInv
<1>4. SUFFICES /\ TableInv(globals', Values) /\ KeysFound(globals', Names) /\ KeysAllocated(heap, globals')
               /\ answer' \in Values \cup {Undefined, Error}
  BY <1>1 DEF IInv, GlobalsInv
<1>5. CASE op_get_global(name)
  <2>1. globals' = globals /\ answer' = TableGet(globals, Names, name, Error)
    BY <1>5 DEF op_get_global
  <2>2. /\ \A e \in Pairs(globals) : e.key = name => answer' = e.value
        /\ (~\E e \in Pairs(globals) : e.key = name) => answer' = Error
    BY <1>2, <1>3, <2>1, Gets
  <2>3. \A e \in Pairs(globals) : e.value \in Values
    BY <1>3, PairsTyped
  <2> QED
    BY <1>3, <2>1, <2>2, <2>3
<1>6. ASSUME NEW v \in Values, op_define_global(name, v)
      PROVE  /\ TableInv(globals', Values) /\ KeysFound(globals', Names) /\ KeysAllocated(heap, globals')
             /\ answer' \in Values \cup {Undefined, Error}
  <2>1. Binds(globals', globals, Names, name, v, Values)
    BY <1>6, Defines
  <2>2. KeysAllocated(heap, globals')
    BY <1>2, <1>3, <2>1, BindsAllocated
  <2> QED
    BY <1>6, <2>1, <2>2 DEF Binds, op_define_global
<1>7. ASSUME NEW v \in Values, op_set_global(name, v)
      PROVE  /\ TableInv(globals', Values) /\ KeysFound(globals', Names) /\ KeysAllocated(heap, globals')
             /\ answer' \in Values \cup {Undefined, Error}
  <2>1. \/ SameAs(globals', globals, Names, Values) /\ answer' = Error
        \/ Binds(globals', globals, Names, name, v, Values) /\ answer' = v
    BY <1>7, Sets
  <2>2. KeysAllocated(heap, globals')
    BY <1>2, <1>3, <2>1, BindsAllocated
  <2> QED
    BY <2>1, <2>2 DEF Binds, SameAs
<1> QED
  BY <1>5, <1>6, <1>7

\* Nothing happens.
LEMMA Unchanged ==
    ASSUME IInv, UNCHANGED vars PROVE IInv'
BY DEF IInv, GlobalsInv, StringsInv, KeptRooted, Roots, Names, vars

-----------------------------------------------------------------------------
(* The theorems. GrowthCollects: a collection that starts as vm.strings       *)
(* grows would free the string it grows for (object.c:90 to 92).              *)

\* Both tables keep their invariant, whatever is interned, dropped, collected, defined
\* and assigned, in any order, for any hashes and places of strings: strings of the
\* heap are found and have texts of their own, the names of globals are strings of the
\* heap (table.c:24 to 113, object.c:84 to 127, global.sx).
THEOREM Inductive == GrowthCollects = FALSE /\ Spec => []IInv
<1> SUFFICES ASSUME GrowthCollects = FALSE PROVE Spec => []IInv
  OBVIOUS
<1>1. Init => IInv
  BY InitIInv
<1>2. ASSUME IInv, [Next]_vars PROVE IInv'
  <2>1. CASE UNCHANGED vars
    BY <1>2, <2>1, Unchanged
  <2>2. CASE StringsStep(Roots \cup markTable(globals)) /\ UNCHANGED <<globals, answer>>
    BY <1>2, <2>2, StringsStepIInv
  <2>3. CASE /\ \E name \in held :
                   \/ op_get_global(name)
                   \/ \E v \in Values : op_define_global(name, v) \/ op_set_global(name, v)
             /\ UNCHANGED stringsVars
    BY <1>2, <2>3, HandlerIInv
  <2> QED
    BY <1>2, <2>1, <2>2, <2>3 DEF Next
<1> QED
  BY <1>1, <1>2, PTL DEF Spec

\* Both tables keep their shape, over strings, with a capacity for which the mask of
\* findEntry is the remainder (table.c:26, memory.h:11).
THEOREM Types == GrowthCollects = FALSE /\ Spec => []TypeOK
<1> SUFFICES ASSUME GrowthCollects = FALSE PROVE Spec => []TypeOK
  OBVIOUS
<1>1. Spec => []IInv
  BY Inductive
<1>2. IInv => TypeOK
  <2> SUFFICES ASSUME IInv PROVE TypeOK
    OBVIOUS
  <2>1. heap \in Heaps /\ TableInv(strings, {Nil}) /\ TableInv(globals, Values)
    BY DEF IInv, StringsInv, Interned, GlobalsInv
  <2>2. IsTable(strings, Addresses, {Nil}) /\ IsTable(globals, Addresses, Values)
    BY <2>1, TableInvSearchEnds
  <2>3. held \subseteq Addresses /\ initString \in Addresses
    BY DEF IInv, StringsInv, Allocated
  <2> QED
    BY <2>1, <2>2, <2>3 DEF TypeOK, StringsTypeOK, Heaps, IInv, GlobalsInv
<1> QED
  BY <1>1, <1>2, PTL

\* The loops of findEntry and tableFindString end: tombstones stay counted, so that a
\* quarter of the entries is empty (table.c:27 to 46, 86, 95, 109, 130 to 141).
THEOREM SearchesAlwaysEnd == GrowthCollects = FALSE /\ Spec => []SearchesEnd
<1> SUFFICES ASSUME GrowthCollects = FALSE PROVE Spec => []SearchesEnd
  OBVIOUS
<1>1. Spec => []IInv
  BY Inductive
<1>2. IInv => SearchesEnd
  BY TableInvSearchEnds DEF SearchesEnd, IInv, StringsInv, Interned, GlobalsInv
<1> QED
  BY <1>1, <1>2, PTL

\* Every defined name is found, though findEntry stops at tombstones (table.c:30 to 39):
\* a failed assignment leaves one where there was no name, and a search that ended there
\* still does (global.sx:42 to 71).
THEOREM NamesAlwaysFound == GrowthCollects = FALSE /\ Spec => []NamesFound
<1> SUFFICES ASSUME GrowthCollects = FALSE PROVE Spec => []NamesFound
  OBVIOUS
<1>1. Spec => []IInv
  BY Inductive
<1>2. IInv => NamesFound
  BY DEF NamesFound, IInv, GlobalsInv
<1> QED
  BY <1>1, <1>2, PTL

\* A text has one string, which tableFindString finds past all tombstones of collections
\* (object.c:107 to 127, table.c:125 to 155).
THEOREM AlwaysInternedOnce == GrowthCollects = FALSE /\ Spec => []InternedOnce
<1> SUFFICES ASSUME GrowthCollects = FALSE PROVE Spec => []InternedOnce
  OBVIOUS
<1>1. Spec => []IInv
  BY Inductive
<1>2. IInv => InternedOnce
  <2> SUFFICES ASSUME IInv, NEW a \in Allocated(heap) PROVE TableFindString(strings, heap, heap[a]) = a
    BY DEF InternedOnce
  <2>1. Interned(heap, strings) /\ heap \in Heaps
    BY DEF IInv, StringsInv, Interned
  <2> DEFINE text == heap[a]
  <2>2. text \in Texts /\ heap[a] = text
    BY <2>1, HashesOfHeap
  <2> HIDE DEF text
  <2>3. TableFindString(strings, heap, text) = a
    BY <2>1, <2>2, Finds
  <2> QED
    BY <2>2, <2>3
<1> QED
  BY <1>1, <1>2, PTL

-----------------------------------------------------------------------------
(* The promise. *)

\* Bound, for any table and heap.
BoundIn(t, h) ==
    LET Bindings(text) == {e \in Pairs(t) : h[e.key] = text}
    IN  [text \in Texts |->
            IF Bindings(text) = {} THEN Undefined ELSE (CHOOSE e \in Bindings(text) : TRUE).value]

\* Before and after a step.
LEMMA BoundIs == Bound = BoundIn(globals, heap) /\ Bound' = BoundIn(globals', heap')
BY DEF Bound, BoundIn, Pairs

\* No two entries are for the same text.
Unambiguous(t, h) == \A e, f \in Pairs(t) : h[e.key] = h[f.key] => e = f

\* Two names of the same text are one string, and that is in one entry.
LEMMA OneEntryEach ==
    ASSUME NEW t, NEW h, NEW s, Interned(h, s), KeysAllocated(h, t), NEW hash, KeysFound(t, hash)
    PROVE  Unambiguous(t, h)
<1> SUFFICES ASSUME NEW e \in Pairs(t), NEW f \in Pairs(t), h[e.key] = h[f.key] PROVE e = f
  BY DEF Unambiguous
<1>1. e.key = f.key
  BY DEF Interned, KeysAllocated
<1>2. Distinct(t)
  BY FoundDistinct
<1> QED
  BY <1>1, <1>2 DEF Distinct, Pairs

\* So it is with the globals.
LEMMA GlobalsUnambiguous ==
    /\ IInv => Unambiguous(globals, heap)
    /\ IInv' => Unambiguous(globals', heap')
BY OneEntryEach DEF IInv, StringsInv, GlobalsInv

\* What a text is bound to is in its entry.
LEMMA Binding ==
    ASSUME NEW t, NEW h, Unambiguous(t, h), NEW text \in Texts
    PROVE  /\ \A e \in Pairs(t) : h[e.key] = text => BoundIn(t, h)[text] = e.value
           /\ (\A e \in Pairs(t) : h[e.key] # text) => BoundIn(t, h)[text] = Undefined
<1> DEFINE B == {e \in Pairs(t) : h[e.key] = text}
<1>1. BoundIn(t, h)[text] = IF B = {} THEN Undefined ELSE (CHOOSE e \in B : TRUE).value
  BY DEF BoundIn
<1>2. \A e, f \in B : e = f
  BY DEF Unambiguous
<1>3. \A e \in Pairs(t) : h[e.key] = text <=> e \in B
  OBVIOUS
<1>4. (\A e \in Pairs(t) : h[e.key] # text) => B = {}
  OBVIOUS
<1> HIDE DEF B
<1>5. \A e \in B : (CHOOSE f \in B : TRUE) = e
  BY <1>2
<1>6. \A e \in B : BoundIn(t, h)[text] = e.value
  BY <1>1, <1>5
<1> QED
  BY <1>1, <1>3, <1>4, <1>6

\* What the handlers see of a name is what is bound to its text.
LEMMA NameBound ==
    ASSUME IInv, NEW name \in held
    PROVE  /\ \A e \in Pairs(globals) : e.key = name => Bound[heap[name]] = e.value /\ e.value # Undefined
           /\ ~HasKey(globals, name) => Bound[heap[name]] = Undefined
<1> DEFINE text == heap[name]
<1>1. name \in Allocated(heap) /\ text \in Texts
  BY HeldNames
<1>2. \A e \in Pairs(globals) : heap[e.key] = text => e.key = name
  BY <1>1 DEF IInv, StringsInv, Interned, GlobalsInv, KeysAllocated
<1>3. \A e \in Pairs(globals) : e.key = name => heap[e.key] = text
  OBVIOUS
<1> HIDE DEF text
<1>4. /\ \A e \in Pairs(globals) : heap[e.key] = text => BoundIn(globals, heap)[text] = e.value
      /\ (\A e \in Pairs(globals) : heap[e.key] # text) => BoundIn(globals, heap)[text] = Undefined
  BY <1>1, GlobalsUnambiguous, Binding
<1>5. \A e \in Pairs(globals) : e.value # Undefined
  <2>1. \A e \in Pairs(globals) : e.value \in Values
    BY PairsTyped DEF IInv, GlobalsInv
  <2> QED
    BY <2>1, GlobalsAssumption
<1>6. ~HasKey(globals, name) => \A e \in Pairs(globals) : heap[e.key] # text
  BY <1>2 DEF HasKey
<1> QED
  BY <1>3, <1>4, <1>5, <1>6, BoundIs DEF text

\* One more entry binds one more text.
LEMMA BindsText ==
    ASSUME IInv, IInv', UNCHANGED heap, NEW name \in held, NEW v \in Values,
           Binds(globals', globals, Names, name, v, Values)
    PROVE  Bound' = [Bound EXCEPT ![heap[name]] = v]
<1> DEFINE text == heap[name]
           old == BoundIn(globals, heap)
           new == BoundIn(globals', heap)
<1>1. name \in Allocated(heap) /\ name \in Addresses /\ text \in Texts
  BY HeldNames
<1>2. Unambiguous(globals, heap) /\ Unambiguous(globals', heap)
  BY GlobalsUnambiguous
<1>3. Pairs(globals') = Without(Pairs(globals), name) \cup {Entry(name, v)}
  BY DEF Binds
<1>4. Entry(name, v).key = name /\ Entry(name, v).value = v
  BY <1>1, EntryTypes
<1>5. \A e \in Pairs(globals) : heap[e.key] = text <=> e.key = name
  BY <1>1 DEF IInv, StringsInv, Interned, GlobalsInv, KeysAllocated
<1>6. new[text] = v
  <2>1. Entry(name, v) \in Pairs(globals')
    BY <1>3
  <2> HIDE DEF text, new
  <2> QED
    BY <1>1, <1>2, <1>4, <2>1, Binding DEF text, new
<1>7. ASSUME NEW s \in Texts, s # text PROVE new[s] = old[s]
  <2>1. \A e \in Pairs(globals) : heap[e.key] = s => e \in Pairs(globals')
    BY <1>3, <1>5, <1>7 DEF Without
  <2>2. \A e \in Pairs(globals') : heap[e.key] = s => e \in Pairs(globals)
    BY <1>3, <1>4, <1>7 DEF Without
  <2>3. /\ \A e \in Pairs(globals) : heap[e.key] = s => old[s] = e.value
        /\ (\A e \in Pairs(globals) : heap[e.key] # s) => old[s] = Undefined
    BY <1>2, Binding
  <2>4. /\ \A e \in Pairs(globals') : heap[e.key] = s => new[s] = e.value
        /\ (\A e \in Pairs(globals') : heap[e.key] # s) => new[s] = Undefined
    BY <1>2, Binding
  <2> HIDE DEF old, new
  <2> QED
    BY <2>1, <2>2, <2>3, <2>4
<1>8. old = [s \in Texts |-> old[s]] /\ new = [s \in Texts |-> new[s]] /\ DOMAIN old = Texts
  BY DEF BoundIn
<1> HIDE DEF old, new, text
<1>9. new = [old EXCEPT ![text] = v]
  BY <1>1, <1>6, <1>7, <1>8
<1>10. Bound = old /\ Bound' = new
  BY BoundIs DEF old, new
<1> QED
  BY <1>9, <1>10 DEF text

\* It depends on the entries and on the texts of their keys alone.
LEMMA BoundAlike ==
    ASSUME NEW t, NEW u, Pairs(u) = Pairs(t), NEW h, NEW g, \A e \in Pairs(t) : g[e.key] = h[e.key]
    PROVE  BoundIn(u, g) = BoundIn(t, h)
<1> DEFINE A(text) == {e \in Pairs(u) : g[e.key] = text}
           B(text) == {e \in Pairs(t) : h[e.key] = text}
           Value(S) == IF S = {} THEN Undefined ELSE (CHOOSE e \in S : TRUE).value
<1>1. \A text : A(text) = B(text)
  OBVIOUS
<1>2. BoundIn(u, g) = [text \in Texts |-> Value(A(text))] /\ BoundIn(t, h) = [text \in Texts |-> Value(B(text))]
  BY Zenon DEF BoundIn
<1> HIDE DEF A, B, Value
<1> QED
  BY <1>1, <1>2

\* op_get_global is a use of the variable.
LEMMA GetStep ==
    ASSUME IInv, UNCHANGED stringsVars, NEW name \in held, op_get_global(name)
    PROVE  Promise!Get(heap[name])
<1>1. globals' = globals /\ answer' = TableGet(globals, Names, name, Error)
  BY DEF op_get_global
<1>2. /\ \A e \in Pairs(globals) : e.key = name => answer' = e.value
      /\ (~\E e \in Pairs(globals) : e.key = name) => answer' = Error
  BY <1>1, HeldNames, Gets DEF IInv, GlobalsInv
<1>3. /\ \A e \in Pairs(globals) : e.key = name => Bound[heap[name]] = e.value /\ e.value # Undefined
      /\ ~HasKey(globals, name) => Bound[heap[name]] = Undefined
  BY NameBound
<1>4. answer' = IF Bound[heap[name]] = Undefined THEN Error ELSE Bound[heap[name]]
  <2>1. CASE HasKey(globals, name)
    <3>1. PICK e \in Pairs(globals) : e.key = name
      BY <2>1 DEF HasKey
    <3> QED
      BY <1>2, <1>3, <3>1
  <2>2. CASE ~HasKey(globals, name)
    BY <1>2, <1>3, <2>2 DEF HasKey
  <2> QED
    BY <2>1, <2>2
<1>5. heap' = heap
  BY DEF stringsVars
<1>6. Bound' = Bound
  BY <1>1, <1>5, BoundIs
<1> QED
  BY <1>4, <1>6 DEF Promise!Get

\* op_define_global is a definition.
LEMMA DefineStep ==
    ASSUME IInv, IInv', UNCHANGED stringsVars, NEW name \in held, NEW v \in Values, op_define_global(name, v)
    PROVE  Promise!Define(heap[name], v)
<1>1. Binds(globals', globals, Names, name, v, Values)
  BY Defines
<1>2. heap' = heap
  BY DEF stringsVars
<1>3. Bound' = [Bound EXCEPT ![heap[name]] = v]
  BY <1>1, <1>2, BindsText
<1> QED
  BY <1>3 DEF Promise!Define, Promise!Bind, op_define_global

\* op_set_global is an assignment, or an error that changes nothing.
LEMMA SetStep ==
    ASSUME IInv, IInv', UNCHANGED stringsVars, NEW name \in held, NEW v \in Values, op_set_global(name, v)
    PROVE  Promise!Set(heap[name], v)
<1>1. heap' = heap
  BY DEF stringsVars
<1>2. CASE ~HasKey(globals, name) /\ SameAs(globals', globals, Names, Values) /\ answer' = Error
  <2>1. Bound[heap[name]] = Undefined
    BY <1>2, NameBound
  <2>2. BoundIn(globals', heap') = BoundIn(globals, heap)
    BY <1>1, <1>2, BoundAlike DEF SameAs
  <2>3. Bound' = Bound
    BY <2>2, BoundIs
  <2> QED
    BY <1>2, <2>1, <2>3 DEF Promise!Set
<1>3. CASE HasKey(globals, name) /\ Binds(globals', globals, Names, name, v, Values) /\ answer' = v
  <2>1. Bound[heap[name]] # Undefined
    <3>1. PICK e \in Pairs(globals) : e.key = name
      BY <1>3 DEF HasKey
    <3> QED
      BY <3>1, NameBound
  <2>2. Bound' = [Bound EXCEPT ![heap[name]] = v]
    BY <1>1, <1>3, BindsText
  <2> QED
    BY <1>3, <2>1, <2>2 DEF Promise!Set, Promise!Bind
<1> QED
  BY <1>2, <1>3, Sets

\* No step of the strings changes what a text is bound to.
LEMMA StringsStutter ==
    ASSUME IInv, GrowthCollects = FALSE, StringsStep(Roots \cup markTable(globals)), UNCHANGED <<globals, answer>>
    PROVE  UNCHANGED <<Bound, answer>>
<1>1. \A a \in markTable(globals) : heap'[a] = heap[a]
  BY StringsStepIInv DEF StringsKept
<1>2. \A e \in Pairs(globals) : e.key \in markTable(globals)
  BY DEF Pairs, markTable
<1>3. BoundIn(globals', heap') = BoundIn(globals, heap)
  <2>1. Pairs(globals') = Pairs(globals)
    OBVIOUS
  <2>2. \A e \in Pairs(globals) : heap'[e.key] = heap[e.key]
    BY <1>1, <1>2
  <2> QED
    BY <2>1, <2>2, BoundAlike
<1> QED
  BY <1>3, BoundIs

\* The handlers over hash table, interned strings and collections do what GlobalVariables
\* promises of texts: a definition binds until the next one or an assignment, whoever
\* spells the name, and an assignment to an undefined name fails and leaves no trace
\* (global.sx:2 to 71).
THEOREM KeepsPromise == GrowthCollects = FALSE /\ Spec => ImplementsGlobalVariables
<1> SUFFICES ASSUME GrowthCollects = FALSE PROVE Spec => Promise!Spec
  BY DEF ImplementsGlobalVariables
<1>1. Spec => []IInv
  BY Inductive
<1>2. Init => Promise!Init
  <2> SUFFICES ASSUME Init PROVE Promise!Init
    OBVIOUS
  <2>1. globals = initTable /\ answer = Undefined
    BY DEF Init
  <2>2. Pairs(globals) = {}
    BY <2>1, InitTableInv
  <2>3. BoundIn(globals, heap) = [n \in Texts |-> Undefined]
    BY <2>2 DEF BoundIn
  <2> QED
    BY <2>1, <2>3, BoundIs DEF Promise!Init
<1>3. ASSUME IInv, IInv', [Next]_vars PROVE [Promise!Next]_Promise!vars
  <2>1. CASE UNCHANGED vars
    <3>1. globals' = globals /\ heap' = heap /\ answer' = answer
      BY <2>1 DEF vars
    <3>2. Bound' = Bound
      BY <3>1, BoundIs
    <3> QED
      BY <3>1, <3>2 DEF Promise!vars
  <2>2. CASE StringsStep(Roots \cup markTable(globals)) /\ UNCHANGED <<globals, answer>>
    BY <1>3, <2>2, StringsStutter DEF Promise!vars
  <2>3. ASSUME UNCHANGED stringsVars, NEW name \in held,
               \/ op_get_global(name)
               \/ \E v \in Values : op_define_global(name, v) \/ op_set_global(name, v)
        PROVE  Promise!Next
    <3> DEFINE text == heap[name]
    <3>1. text \in Texts
      BY <1>3, HeldNames
    <3>2. CASE op_get_global(name)
      <4>1. Promise!Get(text)
        BY <1>3, <2>3, <3>2, GetStep
      <4> HIDE DEF text
      <4> QED
        BY <3>1, <4>1 DEF Promise!Next
    <3>3. ASSUME NEW v \in Values, op_define_global(name, v) PROVE Promise!Next
      <4>1. Promise!Define(text, v)
        BY <1>3, <2>3, <3>3, DefineStep
      <4> HIDE DEF text
      <4> QED
        BY <3>1, <4>1 DEF Promise!Next
    <3>4. ASSUME NEW v \in Values, op_set_global(name, v) PROVE Promise!Next
      <4>1. Promise!Set(text, v)
        BY <1>3, <2>3, <3>4, SetStep
      <4> HIDE DEF text
      <4> QED
        BY <3>1, <4>1 DEF Promise!Next
    <3> QED
      BY <2>3, <3>2, <3>3, <3>4
  <2> QED
    BY <1>3, <2>1, <2>2, <2>3 DEF Next
<1> QED
  BY <1>1, <1>2, <1>3, PTL DEF Spec, Promise!Spec

-----------------------------------------------------------------------------
(* Which keys of vm.strings are freed strings. *)

\* A search for the key at index i comes to i past keys of S alone.
PastOnly(t, h, i, S) ==
    \E d \in Slots(t.capacity) :
        Probe(t.capacity, h, d) = i /\ \A e \in 0..(d - 1) : t.entries[Probe(t.capacity, h, e)].key \in S

\* A key that is not marked is deleted where it is, as long as the marked ones are there.
LEMMA DeletesApart ==
    ASSUME NEW V, NEW t, TableInv(t, V), NEW hash \in Hashes, NEW marked \in SUBSET Addresses,
           NEW s, Erased(s, t, Addresses \ marked, V), NEW i \in Slots(t.capacity), NEW key \in Addresses, key \notin marked,
           t.entries[i].key = key, PastOnly(t, hash[key], i, marked)
    PROVE  TableDelete(s, hash, key).entries[i].key = NoKey
<1> DEFINE n == t.capacity
           u == TableDelete(s, hash, key)
<1>1. n \in Nat \ {0} /\ TableInv(s, V) /\ s.capacity = n /\ s \in Tables(n, V)
  BY DEF Erased, TableInv, Slots
<1>2. PICK d \in Slots(n) :
         Probe(n, hash[key], d) = i /\ \A e \in 0..(d - 1) : t.entries[Probe(n, hash[key], e)].key \in marked
  BY DEF PastOnly
<1>3. \A j \in Slots(n) : s.entries[j] = t.entries[j] \/ (t.entries[j].key \notin marked /\ s.entries[j] = Tombstone)
  BY DEF Erased
<1> HIDE DEF n
<1>4. \A e \in 0..(d - 1) : Probe(n, hash[key], e) \in Slots(n)
  <2>1. \A e \in 0..(d - 1) : e \in Nat
    BY <1>1, <1>2 DEF Slots
  <2>2. hash[key] \in Nat
    BY DEF Hashes
  <2> QED
    BY <1>1, <2>1, <2>2, Probing
<1>5. \A e \in 0..(d - 1) : s.entries[Probe(n, hash[key], e)].key \notin {NoKey, key}
  <2>1. NoKey \notin marked
    BY EntryTypes
  <2> QED
    BY <1>2, <1>3, <1>4, <2>1
<1>6. Tombstone.key = NoKey
  BY EntryTypes
<1>7. s.entries[i].key \in {NoKey, key}
  BY <1>3, <1>6 DEF n
<1>8. Ends(s, hash, key) = i
  <2>1. s.entries[Probe(n, hash[key], d)].key \in {NoKey, key}
    BY <1>2, <1>7
  <2>2. Ends(s, hash, key) = Probe(n, hash[key], d)
    BY <1>1, <1>5, <2>1, SearchIs
  <2> QED
    BY <1>2, <2>2
<1>9. /\ Erased(u, s, {key}, V)
      /\ s.capacity > 0 /\ s.entries[i].key = key => u.entries[i] = Tombstone
  BY <1>1, <1>8, Deletes
<1> HIDE DEF u
<1>10. i \in Slots(s.capacity) /\ s.capacity > 0
  BY <1>1 DEF n
<1>11. u.entries[i] = s.entries[i] \/ u.entries[i] = Tombstone
  BY <1>9, <1>10 DEF Erased
<1>12. u.entries[i].key = NoKey
  BY <1>6, <1>7, <1>9, <1>10, <1>11
<1> QED
  BY <1>12 DEF u

\* Then tableRemoveWhite removes all that are not marked.
LEMMA RemovesApart ==
    ASSUME NEW V, NEW t, TableInv(t, V), NEW h \in Heaps, NEW marked \in SUBSET Addresses,
           \A i \in Stored(t) : t.entries[i].key \in marked \/ PastOnly(t, HashOf(h)[t.entries[i].key], i, marked)
    PROVE  \A e \in Pairs(TableRemoveWhite(t, h, marked)) : e.key \in marked
<1> DEFINE n == t.capacity
           K == Addresses \ marked
           hash == HashOf(h)
           Clean(u, k) == \A i \in Slots(n) : i < k => u.entries[i].key \in marked \cup {NoKey}
           Good(u, k) == Erased(u, t, K, V) /\ Clean(u, k)
<1>1. n \in Nat /\ t \in Tables(n, V)
  BY DEF TableInv
<1>2. PICK w \in [0..n -> Tables(n, V)] :
         /\ w[0] = t /\ \A k \in 1..n : w[k] = Clear(w[k - 1], t.entries[k - 1].key, hash, marked)
         /\ TableRemoveWhite(t, h, marked) = w[n]
  <2> HIDE DEF n
  <2>1. \E w : ClearsThrough(w, n, t, h, marked, V)
    BY <1>1, RemoveLoop
  <2> QED
    BY <2>1 DEF ClearsThrough, hash
<1>3. \A k \in 1..n : k - 1 \in Slots(n) /\ t.entries[k - 1].key \in Addresses \cup {NoKey}
  <2>1. \A k \in 1..n : k - 1 \in Slots(n)
    BY <1>1 DEF Slots
  <2> QED
    BY <1>1, <2>1, EntryTypes DEF Tables
<1>4. hash \in Hashes /\ Tombstone.key = NoKey /\ DOMAIN t.entries = Slots(n)
  BY <1>1, HashesOfHeap, EntryTypes DEF Tables
<1>5. n = t.capacity
  OBVIOUS
<1> HIDE DEF n, hash
<1> DEFINE Bad == {k \in 0..n : ~Good(w[k], k)}
<1>6. Bad = {}
  <2> SUFFICES ASSUME Bad # {} PROVE FALSE
    OBVIOUS
  <2>1. PICK k \in Bad : \A j \in Bad : k <= j
    <3>1. Bad \in SUBSET Nat
      BY <1>1
    <3> HIDE DEF Bad
    <3> QED
      BY <3>1, LeastNatural
  <2>2. Good(t, 0)
    BY <1>5 DEF Erased, Slots
  <2>3. k \in 1..n /\ k - 1 \in 0..n /\ ~(k <= k - 1)
    <3> HIDE DEF Good
    <3> QED
      BY <1>1, <1>2, <2>1, <2>2
  <2>4. Good(w[k - 1], k - 1)
    <3> HIDE DEF Good
    <3> QED
      BY <2>1, <2>3
  <2> DEFINE s == w[k - 1]
             i == k - 1
             key == t.entries[i].key
             u == w[k]
  <2>5. u = Clear(s, key, hash, marked) /\ key \in Addresses \cup {NoKey} /\ i \in Slots(n)
    BY <1>2, <1>3, <2>3
  <2>6. TableInv(s, V) /\ Erased(s, t, K, V) /\ Clean(s, i)
    BY <2>4 DEF Erased
  <2>7. \A j \in Slots(n) : j < k => j < i \/ j = i
    BY <1>1, <2>3 DEF Slots
  <2> HIDE DEF s, key, i, u
  <2>8. CASE key \in marked \cup {NoKey}
    <3>1. u = s
      BY <2>5, <2>8 DEF Clear
    <3>2. s.entries[i].key \in marked \cup {NoKey}
      BY <1>4, <1>5, <2>5, <2>6, <2>8 DEF Erased, key
    <3>3. Good(u, k)
      BY <2>6, <2>7, <3>1, <3>2
    <3> QED
      BY <2>1, <3>3 DEF u
  <2>9. CASE key \notin marked \cup {NoKey}
    <3>1. key \in K \cap Addresses /\ u = TableDelete(s, hash, key)
      BY <2>5, <2>9 DEF Clear
    <3>2. Erased(u, s, {key}, V)
      BY <1>4, <2>6, <3>1, Deletes
    <3>3. Erased(u, s, K, V)
      BY <3>1, <3>2 DEF Erased
    <3>4. Erased(u, t, K, V)
      BY <2>6, <3>3, ErasedTwice
    <3>5. u.entries[i].key = NoKey
      <4>1. i \in Stored(t)
        BY <1>4, <2>5, <2>9 DEF Stored, key
      <4>2. PastOnly(t, hash[key], i, marked)
        BY <2>9, <4>1 DEF key, hash
      <4>3. i \in Slots(t.capacity) /\ t.entries[i].key = key /\ key \in Addresses /\ key \notin marked
        BY <1>5, <2>5, <3>1 DEF key
      <4>4. Erased(s, t, Addresses \ marked, V)
        BY <2>6
      <4> HIDE DEF K, Bad, Good, Clean
      <4>5. TableDelete(s, hash, key).entries[i].key = NoKey
        BY <1>4, <4>2, <4>3, <4>4, DeletesApart, SMTT(30)
      <4> QED
        BY <3>1, <4>5
    <3>6. \A j \in Slots(n) : j < i => u.entries[j].key \in marked \cup {NoKey}
      <4>1. s.capacity = n
        BY <1>5, <2>6 DEF Erased
      <4> QED
        BY <1>4, <2>6, <3>2, <4>1 DEF Erased
    <3>7. Clean(u, k)
      BY <2>7, <3>5, <3>6
    <3> QED
      BY <2>1, <3>4, <3>7 DEF u
  <2> QED
    BY <2>8, <2>9
<1>7. Good(w[n], n)
  <2>1. n \in 0..n
    BY <1>1
  <2> HIDE DEF Good
  <2> QED
    BY <1>6, <2>1
<1>8. \A j \in Slots(n) : w[n].entries[j].key \in marked \cup {NoKey}
  <2>1. \A j \in Slots(n) : j < n
    BY <1>1 DEF Slots
  <2> QED
    BY <1>7, <2>1
<1>9. DOMAIN w[n].entries = Slots(n)
  <2>1. n \in 0..n
    BY <1>1
  <2>2. w[n] \in Tables(n, V)
    BY <1>2, <2>1
  <2> QED
    BY <2>2 DEF Tables
<1> QED
  BY <1>2, <1>8, <1>9 DEF Pairs, Stored

\* A hypothesis, which says of the texts and of their hashes that a string that may be
\* freed is reached past no other and past no tombstone, so that tableDelete comes to it.
MortalsApart ==
    LET Immortals == {a \in Allocated(heap) : heap[a] \in Range(AtStart)}
        Key(i) == strings.entries[i].key
        Steps(i, d) == Probe(strings.capacity, HashOf(heap)[Key(i)], d)
    IN  \A i \in Stored(strings) :
            \/ Key(i) \in Immortals
            \/ \E d \in 0..(strings.capacity - 1) :
                  Steps(i, d) = i /\ \A e \in 0..(d - 1) : Key(Steps(i, e)) \in Immortals

\* A collection removes all strings that it frees, then.
LEMMA CollectionKeys ==
    ASSUME IInv, MortalsApart, NEW marked, marked \subseteq Allocated(heap), Roots \subseteq marked,
           collectGarbage(marked)
    PROVE  KeysAllocated(heap', strings')
<1>1. TableInv(strings, {Nil}) /\ heap \in Heaps
  BY DEF IInv, StringsInv, Interned
<1>2. marked \in SUBSET Addresses
  BY DEF Allocated
<1> DEFINE Key(i) == strings.entries[i].key
           Steps(i, d) == Probe(strings.capacity, HashOf(heap)[Key(i)], d)
           Immortals == {a \in Allocated(heap) : heap[a] \in Range(AtStart)}
<1>3. Immortals \subseteq marked
  BY DEF IInv, StringsInv, KeptRooted
<1>4. \A i \in Stored(strings) :
         \/ Key(i) \in Immortals
         \/ \E d \in 0..(strings.capacity - 1) : Steps(i, d) = i /\ \A e \in 0..(d - 1) : Key(Steps(i, e)) \in Immortals
  BY DEF MortalsApart
<1> HIDE DEF Immortals
<1>5. \A i \in Stored(strings) : Key(i) \in marked \/ PastOnly(strings, HashOf(heap)[Key(i)], i, marked)
  BY <1>3, <1>4 DEF PastOnly, Slots
<1>6. \A e \in Pairs(TableRemoveWhite(strings, heap, marked)) : e.key \in marked
  BY <1>1, <1>2, <1>5, RemovesApart
<1>7. Allocated(heap') = marked
  BY CollectionStep DEF IInv
<1> QED
  BY <1>6, <1>7 DEF KeysAllocated, collectGarbage

\* No other step stores or frees any.
LEMMA StepKeys ==
    ASSUME GrowthCollects = FALSE, IInv, KeysAllocated(heap, strings), MortalsApart, [Next]_vars
    PROVE  KeysAllocated(heap', strings')
<1> DEFINE M == Roots \cup markTable(globals)
<1>1. CASE heap' = heap /\ strings' = strings
  BY <1>1
<1>2. CASE collectGarbage(M)
  <2>1. M \subseteq Allocated(heap)
    <3>1. markTable(globals) \subseteq Allocated(heap)
      BY DEF IInv, GlobalsInv, KeysAllocated, Pairs, markTable
    <3> QED
      BY <3>1 DEF IInv, StringsInv, Roots
  <2>2. Roots \subseteq M
    OBVIOUS
  <2> HIDE DEF M
  <2> QED
    BY <1>2, <2>1, <2>2, CollectionKeys
<1>3. CASE \E text \in Texts : Intern(text, M)
  BY <1>3, InternStep DEF IInv
<1> QED
  BY <1>1, <1>2, <1>3 DEF Next, StringsStep, Drop, stringsVars, vars

\* No key of vm.strings is a freed object in any behaviour in which no string that can be
\* freed is searched past another or past a tombstone: chains are all that tableRemoveWhite gets
\* wrong, with tableDelete over findEntry (table.c:39, 101 to 113, 147 to 155).
THEOREM NeverDangling == GrowthCollects = FALSE /\ Spec /\ []MortalsApart => []NoDanglingKeys
<1> SUFFICES ASSUME GrowthCollects = FALSE PROVE Spec /\ []MortalsApart => []NoDanglingKeys
  OBVIOUS
<1> DEFINE Clean == KeysAllocated(heap, strings)
<1>1. Spec => []IInv
  BY Inductive
<1>2. Init => Clean
  BY InitIInv
<1>3. IInv /\ MortalsApart /\ Clean /\ [Next]_vars => Clean'
  BY StepKeys
<1>4. Clean => NoDanglingKeys
  BY DEF KeysAllocated, NoDanglingKeys, Pairs
<1> HIDE DEF Clean
<1> QED
  BY <1>1, <1>2, <1>3, <1>4, PTL DEF Spec
=============================================================================
