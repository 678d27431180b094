------------------------------ MODULE Globals ------------------------------
(***************************************************************************)
(* The global variables: the handlers of native/arm64/global.sx over the   *)
(* table vm.globals, whose keys are interned strings. A runtime error ends *)
(* one line of the REPL; both tables are still there for the next line.    *)
(***************************************************************************)
EXTENDS Strings

CONSTANTS
    Values,     \* Lox values
    Undefined,  \* no value
    Error       \* "Undefined variable."

ASSUME GlobalsAssumption ==
    Nil \in Values /\ True \in Values /\ {Undefined, Error} \cap Values = {}

VARIABLES
    globals,    \* vm.globals
    answer      \* the Value that was read or assigned last, or Error

vars == <<heap, strings, held, initString, globals, answer>>

Names == HashOf(heap)

Init == StringsInit /\ globals = initTable /\ answer = Undefined

\* vm.globals may collect as it grows, before anything has changed: as if the
\* collection came first, since the running function holds the name.
op_define_global(name, v) ==
    /\ globals' = TableSet(globals, Names, name, v)
    /\ answer' = Undefined

op_get_global(name) ==
    /\ answer' = TableGet(globals, Names, name, Error)
    /\ UNCHANGED globals

\* Fault: the new entry is not deleted before the error.
op_set_global_NoDelete(name, v) ==
    LET grown == Grown(globals, Names)
    IN  /\ globals' = Store(grown, Names, name, v)
        /\ answer' = IF IsNewKey(grown, Names, name) THEN Error ELSE v

\* The value is stored first; if the name was new it is deleted again.
op_set_global(name, v) ==
    LET grown == Grown(globals, Names)
        stored == Store(grown, Names, name, v)
    IN  IF IsNewKey(grown, Names, name)
        THEN globals' = TableDelete(stored, Names, name) /\ answer' = Error
        ELSE globals' = stored /\ answer' = v

\* Fault: the names are not marked.
markTable_Values(t) == {}

\* The strings that a table marks: its keys.
markTable(t) == {t.entries[i].key : i \in Stored(t)}

\* Handlers take names from the constants of functions that the program holds.
Next ==
    \/ StringsStep(Roots \cup markTable(globals)) /\ UNCHANGED <<globals, answer>>
    \/ /\ \E name \in held :
             \/ op_get_global(name)
             \/ \E v \in Values : op_define_global(name, v) \/ op_set_global(name, v)
       /\ UNCHANGED stringsVars

Spec == Init /\ [][Next]_vars
-----------------------------------------------------------------------------
(* Properties *)

\* Both tables have their shape, over strings, and answers are values.
TypeOK ==
    StringsTypeOK /\ IsTable(globals, Addresses, Values) /\ answer \in Values \cup {Undefined, Error}

\* However many assignments to undefined names and dead strings leave their
\* tombstones, some entry of each table stays empty: findEntry and
\* tableFindString have no other bound on their loops.
SearchesEnd == SearchEnds(globals) /\ SearchEnds(strings)

\* findEntry stops at the first tombstone; yet every defined name is found, as
\* a tombstone never comes to lie before the entry of another name.
NamesFound == KeysFound(globals, Names)

\* The handlers do what GlobalVariables promises of texts: a definition binds
\* until the next one, whoever spells the name, collections in between, and
\* an assignment to an undefined name fails and leaves no trace.
Bound ==
    LET entries == {globals.entries[i] : i \in Stored(globals)}
        Bindings(text) == {e \in entries : heap[e.key] = text}
    IN  [text \in Texts |->
            IF Bindings(text) = {} THEN Undefined ELSE (CHOOSE e \in Bindings(text) : TRUE).value]
Promise == INSTANCE GlobalVariables WITH Names <- Texts, bound <- Bound
ImplementsGlobalVariables == Promise!Spec
=============================================================================
