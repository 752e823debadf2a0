------------------------------ MODULE Classes ------------------------------
(***************************************************************************)
(* The classes of libio: the IOSymbol that the constructor functions of a  *)
(* library publish for each of its classes, and the table of IODatabase in *)
(* which they are found by name (libio/IOSymbol.cpp, IODatabase.cpp).      *)
(*                                                                         *)
(* The keys of the table are IOStrings, which are objects themselves: a    *)
(* key has no class until IOString is published.  A symbol of a class is   *)
(* the number of the time its library was loaded.  The threads that load   *)
(* modules publish under a lock; a reader that does not get it reads all   *)
(* the same.                                                               *)
(***************************************************************************)
EXTENDS Integers, Sequences, FiniteSets, SequencesExt

CONSTANTS
    Class,
    String,     \* IOString
    Super,      \* the superclass of each class, or NULL
    Library,    \* the library of each class; "libio" is never unloaded
    MaxCounts,  \* __IODictionaryMaxCount
    MaxLoads,   \* bound: times that a class is loaded
    NULL

ClassesAssumption ==
    /\ String \in Class /\ Library[String] = "libio"
    /\ \A c \in Class : Super[c] \in Class \cup {NULL}

VARIABLES
    chain,      \* per name: the symbols in the table, in the order of their chain
    known,      \* the keys, by class and symbol, that know they are IOStrings
    loads,      \* per class: its symbol, the last that was published
    loaded,     \* the classes whose library is loaded
    parent,     \* _super of each symbol, or 0
    row,        \* the row of the capacities that the table has
    dictClass,  \* the class the table itself thinks it has
    pending,    \* the class whose publication is inside rehash(), or NULL
    shuffled,   \* the names with several symbols that rehash() moved
    panicked

vars == <<chain, known, loads, loaded, parent, row, dictClass, pending, shuffled, panicked>>

Init ==
    /\ chain = [c \in Class |-> <<>>]
    /\ known = {}
    /\ loads = [c \in Class |-> 0]
    /\ loaded = {}
    /\ parent = [c \in Class |-> [n \in 1..MaxLoads |-> 0]]
    /\ row = 1
    /\ dictClass = NULL
    /\ pending = NULL
    /\ shuffled = {}
    /\ panicked = FALSE

(* _symbolsFixed *)
Fixed == loads[String] > 0

(* IOString::isEqual() of a key of the table and a string of the same      *)
(* characters: both are IOStrings, or neither has a class.                 *)
IsEqual(c, n, isString) == (<<c, n>> \in known) = isString

(* pointerForKey(): the first bucket of the chain whose key is equal.      *)
PointerForKey(c, isString) ==
    LET i == SelectInSeq(chain[c], LAMBDA n : IsEqual(c, n, isString)) IN
    IF i = 0 THEN 0 ELSE chain[c][i]

(* symbolWithName(): the string has the class of IOString once there is one*)
SymbolWithName(c) == PointerForKey(c, Fixed)

(* A mutant: only the new key is told that it is a string. *)
FixSymbolsNew(c, n) == known \cup {<<c, n>>}

(* fixSymbols(), when IOString is published: all the keys of the table.    *)
FixSymbols(c, n) == UNION {{<<d, s>> : s \in ToSet(chain[d])} : d \in Class} \cup {<<c, n>>}

(* The part of publishSymbol() behind the insertion.  The name of the      *)
(* table's class is compared the wrong way round: it takes the first other *)
(* class.                                                                  *)
Published(c, n) ==
    /\ known' = IF c = String /\ ~Fixed THEN FixSymbols(c, n)
                ELSE IF Fixed THEN known \cup {<<c, n>>}
                ELSE known
    /\ dictClass' = IF dictClass = NULL /\ c # "__IOPointerDictionary" THEN c ELSE dictClass
    /\ loads' = [loads EXCEPT ![c] = n]
    /\ loaded' = loaded \cup {c}

Count(ch) == Cardinality({<<c, i>> \in Class \X (1..MaxLoads) : i <= Len(ch[c])})

(* A mutant: the key is an IOString when the table is searched for it. *)
ExistsAsString(c) == PointerForKey(c, Fixed) # 0

(* The key of a new symbol has no class yet when the table is searched.    *)
Exists(c) == PointerForKey(c, FALSE) # 0

(* A constructor function of a library: IOSymbol::IOSymbol() with          *)
(* publishSymbol() and setPointerForKey().                                 *)
Publish ==
    \E c \in Class \ loaded :
      LET n == loads[c] + 1
          entered == [chain EXCEPT ![c] = Cons(n, @)]
      IN
      /\ pending = NULL
      /\ n <= MaxLoads
      /\ Library[c] = "libio" \/ \A d \in Class : Library[d] = "libio" => d \in loaded
      /\ Super[c] # NULL /\ Library[Super[c]] # Library[c] => Super[c] \in loaded
      /\ IF Exists(c)
         THEN /\ panicked' = TRUE
              /\ UNCHANGED <<chain, known, loads, loaded, dictClass, pending>>
         ELSE /\ chain' = entered
              /\ IF row < Len(MaxCounts) /\ Count(entered) >= MaxCounts[row]
                 THEN /\ pending' = c
                      /\ UNCHANGED <<known, loads, loaded, dictClass>>
                 ELSE Published(c, n) /\ UNCHANGED pending
              /\ UNCHANGED panicked
      /\ UNCHANGED <<parent, row, shuffled>>

(* rehash() moves the buckets from the front of a chain to the front of    *)
(* another: those of one name end up in the opposite order.                *)
Rehash ==
    /\ pending # NULL
    /\ chain' = [c \in Class |-> Reverse(chain[c])]
    /\ row' = row + 1
    /\ shuffled' = shuffled \cup {c \in Class : Len(chain[c]) > 1}
    /\ pending' = NULL
    /\ Published(pending, loads[pending] + 1)
    /\ UNCHANGED <<parent, panicked>>

(* The library of a module is freed when no other needs it; nothing is     *)
(* unpublished.                                                            *)
Unload ==
    \E l \in {Library[c] : c \in Class} \ {"libio"} :
      LET own == {c \in Class : Library[c] = l} IN
      /\ pending = NULL
      /\ own \subseteq loaded
      /\ \A c \in loaded \ own : Super[c] \notin own
      /\ loaded' = loaded \ own
      /\ UNCHANGED <<chain, known, loads, parent, row, dictClass, pending, shuffled, panicked>>

(* IOSymbol::super() of a class that is loaded: what is found is kept.     *)
(* While the table is rehashed it may find any symbol of the name, or none.*)
FindSuper ==
    \E c \in loaded :
      /\ Super[c] # NULL
      /\ parent[c][loads[c]] = 0
      /\ \E s \in IF pending = NULL THEN {SymbolWithName(Super[c])}
                  ELSE {0} \cup ToSet(chain[Super[c]]) :
           parent' = [parent EXCEPT ![c][loads[c]] = s]
      /\ UNCHANGED <<chain, known, loads, loaded, row, dictClass, pending, shuffled, panicked>>

Next ==
    /\ ~panicked
    /\ Publish \/ Rehash \/ Unload \/ FindSuper

Spec == Init /\ [][Next]_vars

-----------------------------------------------------------------------------
(* The superclass of a symbol as IOSymbol::super() returns it.             *)
SuperOf(c, n) ==
    IF Super[c] = NULL THEN 0
    ELSE IF parent[c][n] # 0 THEN parent[c][n]
    ELSE SymbolWithName(Super[c])

(* IOSymbol::inheritsFrom(): up the classes until the other or the last.   *)
InheritsFrom(c, d) ==
    LET up[i \in 0..Cardinality(Class)] ==
          IF i = 0 THEN [class |-> c, symbol |-> loads[c]]
          ELSE LET s == up[i - 1] IN
               IF s.symbol = 0 \/ (s.class = d /\ s.symbol = loads[d]) THEN s
               ELSE [class |-> Super[s.class], symbol |-> SuperOf(s.class, s.symbol)]
    IN  up[Cardinality(Class)].class = d /\ up[Cardinality(Class)].symbol = loads[d]

(* The classes above a class, itself included.                             *)
Ancestors(c) ==
    LET above[i \in 0..Cardinality(Class)] ==
          IF i = 0 THEN {c}
          ELSE above[i - 1] \cup ({Super[d] : d \in above[i - 1]} \ {NULL})
    IN  above[Cardinality(Class)]

(* No class is refused, though it is published again when its library was  *)
(* unloaded and loaded again; the keys know that they are strings as soon  *)
(* as there is such a class; a class that is loaded is found by its name,  *)
(* the symbol of its present library and no older one, unless the table    *)
(* grew while it held both; and then a class inherits from exactly those   *)
(* above it, whatever was looked up and kept before.                       *)
ClassesFound ==
    /\ ~panicked
    /\ Fixed /\ pending = NULL => \A c \in Class : \A n \in ToSet(chain[c]) : <<c, n>> \in known
    /\ pending = NULL =>
         /\ \A c \in loaded \ shuffled : SymbolWithName(c) = loads[c]
         /\ \A c \in loaded :
              Ancestors(c) \subseteq loaded \ shuffled =>
                 \A d \in loaded : InheritsFrom(c, d) <=> d \in Ancestors(c)
=============================================================================
