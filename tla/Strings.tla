------------------------------ MODULE Strings ------------------------------
(***************************************************************************)
(* Interned strings (copyString and takeString of object.c over the table  *)
(* vm.strings) and what the collector does to them: it marks what is       *)
(* reachable, removes the other keys from the table (tableRemoveWhite) and *)
(* frees their objects (sweep). The keys of vm.strings are not roots.      *)
(***************************************************************************)
EXTENDS Table, Sequences, Functions

CONSTANTS
    Addresses,      \* where malloc may put an ObjString
    Places,         \* those among them where it may put the string of each text
    Texts,          \* the character sequences strings are made from
    InitText,       \* "init", which initVM interns
    Hash,           \* hashString
    Free,           \* no object is at an address
    Kept,           \* texts of a script, which keeps their strings for good
    GrowthCollects  \* can growing vm.strings be the allocation that collects?

\* initVM interns InitText, and the first compilation the texts of Kept.
AtStart == <<InitText>> \o Kept

ASSUME StringsAssumption ==
    /\ NoKey \notin Addresses /\ InitText \in Texts /\ Free \notin Texts
    /\ Hash \in [Texts -> Nat] /\ Places \in [Texts -> SUBSET Addresses]
    /\ Kept \in Seq(Texts) /\ IsInjective(AtStart) /\ GrowthCollects \in BOOLEAN

VARIABLES
    heap,       \* the text of the string at each address
    strings,    \* vm.strings
    held,       \* the strings that the stack, the globals and constants reach
    initString  \* vm.initString

stringsVars == <<heap, strings, held, initString>>

Allocated(h) == {a \in Addresses : h[a] # Free}

\* ObjString.hash, for the addresses that hold a string.
HashOf(h) == [a \in Addresses |-> IF h[a] = Free THEN 0 ELSE Hash[h[a]]]

\* tableFindString: skips tombstones, ends at an empty entry; NoKey if absent.
TableFindString(t, h, text) ==
    LET At(d) == t.entries[Probe(t.capacity, Hash[text], d)]
        Stops(d) == At(d) = Empty \/ (At(d).key # NoKey /\ h[At(d).key] = text)
        steps == CHOOSE d \in 0..(t.capacity - 1) : Stops(d) /\ \A e \in 0..(d - 1) : ~Stops(e)
    IN  IF t.count = 0 THEN NoKey ELSE At(steps).key

\* tableDelete of every key that is not marked, in the order of the entries.
TableRemoveWhite(t, h, marked) ==
    LET cleared[i \in 0..t.capacity] ==
          IF i = 0 THEN t
          ELSE LET key == t.entries[i - 1].key
               IN  IF key \in marked \cup {NoKey} THEN cleared[i - 1]
                   ELSE TableDelete(cleared[i - 1], HashOf(h), key)
    IN  cleared[t.capacity]

Sweep(h, marked) == [a \in Addresses |-> IF a \in marked THEN h[a] ELSE Free]

\* What markRoots and traceReferences reach. Globals adds what markTable does.
Roots == held \cup {initString}
-----------------------------------------------------------------------------
StringsInit ==
    \E places \in Injection(DOMAIN AtStart, Addresses) :
        LET interned[i \in 0..Len(AtStart)] ==
                IF i = 0 THEN initTable
                ELSE TableSet(interned[i - 1], HashOf(heap), places[i], Nil)
        IN  /\ \A i \in DOMAIN AtStart : places[i] \in Places[AtStart[i]]
            /\ heap = [a \in Addresses |->
                           IF a \in Range(places) THEN AtStart[AntiFunction(places)[a]] ELSE Free]
            /\ strings = interned[Len(AtStart)]
            /\ initString = places[1]
            /\ held = Range(places) \ {initString}

\* Fault: the keys of vm.strings are left as they are.
collectGarbage_KeepsKeys(marked) ==
    /\ heap' = Sweep(heap, marked)
    /\ UNCHANGED <<strings, held, initString>>

\* When an allocation crosses vm.nextGC. In copyString this may be between the
\* search and allocateString; a text that was absent stays absent then, so it
\* is as if the collection came first.
collectGarbage(marked) ==
    /\ strings' = TableRemoveWhite(strings, heap, marked)
    /\ heap' = Sweep(heap, marked)
    /\ UNCHANGED <<held, initString>>

\* The program lets go of a string.
Drop ==
    /\ \E a \in held : heap[a] \notin Range(Kept) /\ held' = held \ {a}
    /\ UNCHANGED <<heap, strings, initString>>

\* The table may collect as it grows. The new object is on vm.objects then and
\* nothing marks it, as markRoots does not visit gcRoots. (Its hash is read
\* after that: the freed memory is taken to be as it was.)
allocateString(a, text, marked) ==
    \E collects \in IF GrowthCollects /\ MustGrow(strings) THEN BOOLEAN ELSE {FALSE} :
        LET h == [heap EXCEPT ![a] = text]
            t == IF collects THEN TableRemoveWhite(strings, h, marked) ELSE strings
        IN  /\ heap' = IF collects THEN Sweep(h, marked) ELSE h
            /\ strings' = TableSet(t, HashOf(h), a, Nil)

\* Fault: no search for an equal string.
Intern_NoSearch(text, marked) ==
    /\ \E a \in Places[text] \ Allocated(heap) : allocateString(a, text, marked) /\ held' = held \cup {a}
    /\ UNCHANGED initString

\* copyString and takeString: the program gets the one string of this text.
Intern(text, marked) ==
    LET interned == TableFindString(strings, heap, text)
    IN  /\ IF interned # NoKey
           THEN held' = held \cup {interned} /\ UNCHANGED <<heap, strings>>
           ELSE \E a \in Places[text] \ Allocated(heap) :
                   allocateString(a, text, marked) /\ held' = held \cup {a}
        /\ UNCHANGED initString

StringsStep(marked) == collectGarbage(marked) \/ Drop \/ \E text \in Texts : Intern(text, marked)

StringsSpec == StringsInit /\ [][StringsStep(Roots)]_stringsVars
-----------------------------------------------------------------------------
(* Properties *)

\* Every string is allocated in one place and the table has its shape.
StringsTypeOK ==
    /\ heap \in [Addresses -> Texts \cup {Free}]
    /\ IsTable(strings, Addresses, {Nil})
    /\ held \subseteq Addresses /\ initString \in Addresses

\* No key of the table is a freed object: the next search reads its length and
\* its hash (table.c:135), and the next growth its hash.
NoDanglingKeys == \A i \in Stored(strings) : strings.entries[i].key \in Allocated(heap)

\* Two strings of the same text are one object, which valuesEqual and the
\* tables of globals rely on, and that object can be found.
InternedOnce ==
    \A a \in Allocated(heap) : TableFindString(strings, heap, heap[a]) = a
=============================================================================
