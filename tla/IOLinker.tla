------------------------------ MODULE IOLinker ------------------------------
(***************************************************************************)
(* Linking a library into the kernel: the search for a symbol in           *)
(* io_storeLookupSymbol() of ioglue/iostore.c, and the relocations of      *)
(* ioglue/iolibrary.c.                                                     *)
(*                                                                         *)
(* Libraries are numbered in the order in which they are added to the      *)
(* store, which resolves what they need: a library needs older ones.       *)
(***************************************************************************)
EXTENDS Integers, Sequences, FiniteSetsExt, SequencesExt

CONSTANTS
    Libraries,  \* the number of libraries; the last is the one to relocate
    Symbol,
    Base,       \* the distance of the libraries' memory
    MaxNeeded,  \* bound: dependencies of a library
    MaxRels,    \* bound: relocations
    Addend      \* what the words hold before

IOLinkerAssumption ==
    /\ Libraries \in Nat \ {0}
    /\ Base > Cardinality(Symbol)

Lib == 1..Libraries
Self == Libraries
Kernel == 0

VARIABLES
    needed,     \* per library: its dependencies
    defines,    \* per library and the kernel: the symbols with a value
    local,      \* the symbols that are STB_LOCAL in the library
    rels,       \* its relocations: [type, symbol]
    words,      \* the words they are for
    next,       \* the relocation that is next
    container,  \* the local variable of that name; None if undefined
    failed,     \* rel1 or rel2 is false
    stored      \* the library is in the store

vars == <<needed, defines, local, rels, words, next, container, failed, stored>>

Lists == UNION {{s \in [1..n -> Lib] : IsInjective(s)} : n \in 0..MaxNeeded}
Type == {"NONE", "32", "GLOB_DAT", "PC32", "RELATIVE", "JMP_SLOT", "COPY"}
None == Kernel - 1

(* The relocations of the PLT are in a table of their own, the second.     *)
PLT(r) == rels[r].type = "JMP_SLOT"

(* What io_libraryDigestDynamic() finds in the dynamic sections of the     *)
(* libraries: the dependencies, the symbols and the two tables.            *)
Init ==
    /\ needed \in {f \in [Lib -> Lists] : \A l \in Lib : \A d \in Range(f[l]) : d < l}
    /\ defines \in [{Kernel} \cup Lib -> SUBSET Symbol]
    /\ local \in SUBSET defines[Self]
    /\ rels \in UNION {[1..n -> [type : Type, symbol : Symbol]] : n \in 1..MaxRels}
    /\ \A r \in 1..Len(rels) - 1 : PLT(r) => PLT(r + 1)
    /\ words = [r \in DOMAIN rels |-> Addend]
    /\ next = 1
    /\ container = None
    /\ failed = FALSE
    /\ stored = TRUE

-----------------------------------------------------------------------------
(* A hash table of a library has each of its symbols in the chain of its   *)
(* hash: io_librarySymbolWithName() finds what is there.                   *)
SymbolWithName(l, symbol) == symbol \in defines[l]

(* A mutant: the dependencies of a dependency are not searched. *)
VisitNoDeeper(s, d, symbol) ==
    IF s.found # Kernel THEN s
    ELSE IF SymbolWithName(d, symbol) THEN [s EXCEPT !.found = d]
    ELSE s

(* The search through dependencyTree, breadth first.  Position i of tree   *)
(* is a library whose list of dependencies is to be searched; lists are    *)
(* appended as the search meets libraries that have some.                  *)
Visit(s, d, symbol) ==
    IF s.found # Kernel THEN s
    ELSE IF SymbolWithName(d, symbol) THEN [s EXCEPT !.found = d]
    ELSE IF needed[d] # <<>> THEN [s EXCEPT !.tree = Append(@, d)]
    ELSE s

SearchTree(symbol) ==
    LET visits == Libraries ^ Libraries
        list(s, l) == FoldSeq(LAMBDA d, t : Visit(t, d, symbol), s, Reverse(needed[l]))
        search[i \in 0..visits] ==
          IF i = 0 THEN [tree |-> <<Self>>, found |-> Kernel]
          ELSE LET s == search[i - 1] IN
               IF i > Len(s.tree) \/ s.found # Kernel THEN s
               ELSE list(s, s.tree[i])
    IN  search[visits].found

(* io_storeLookupSymbol(): the library that has the symbol.                *)
LookupSymbol(symbol) ==
    IF symbol \in local THEN Self
    ELSE IF SymbolWithName(Kernel, symbol) THEN Kernel
    ELSE IF SearchTree(symbol) # Kernel THEN SearchTree(symbol)
    ELSE IF SymbolWithName(Self, symbol) THEN Self
    ELSE None

(* The memory of a library, what a symbol is at, and a word's address.     *)
RelocBase(l) == l * Base
Value(symbol) == Cardinality({s \in Symbol : s <= symbol})
Address(r) == RelocBase(Self) + r

Target(l, symbol) == RelocBase(l) + Value(symbol)

(* A turn of the loops of io_libraryRelocateNonPLT() and                   *)
(* io_libraryRelocatePLT().  The memory of container keeps its last value, *)
(* or none, when a relocation does not look a symbol up; what one without  *)
(* a value refers to may be any library's memory.                          *)
NeedsSymbol(type) == type \in {"32", "GLOB_DAT", "PC32", "JMP_SLOT"}

Relocated(word, r, type, l, symbol) ==
    CASE type \in {"32", "GLOB_DAT"} -> word + Target(l, symbol)
      [] type = "PC32" -> word + Target(l, symbol) - Address(r)
      [] type = "JMP_SLOT" -> Target(l, symbol)
      [] OTHER -> word

RelocateSymbol ==
    LET rel == rels[next]
        l == LookupSymbol(rel.symbol)
    IN
    /\ NeedsSymbol(rel.type)
    /\ l # None
    /\ container' = l
    /\ words' = [words EXCEPT ![next] = Relocated(@, next, rel.type, l, rel.symbol)]
    /\ next' = next + 1
    /\ UNCHANGED failed

(* Ends the loop: io_storeAddLibrary() goes on with the other table.       *)
RelocateMissing ==
    /\ NeedsSymbol(rels[next].type)
    /\ LookupSymbol(rels[next].symbol) = None
    /\ failed' = TRUE
    /\ next' = IF PLT(next) THEN Len(rels) + 1
               ELSE Min({r \in DOMAIN rels : PLT(r)} \cup {Len(rels) + 1})
    /\ UNCHANGED <<container, words>>

RelocateRelative ==
    /\ rels[next].type = "RELATIVE"
    /\ \E l \in IF container = None THEN {Kernel} \cup Lib ELSE {container} :
         words' = [words EXCEPT ![next] = @ + RelocBase(l)]
    /\ next' = next + 1
    /\ UNCHANGED <<container, failed>>

RelocateNothing ==
    /\ rels[next].type \in {"NONE", "COPY"}
    /\ next' = next + 1
    /\ UNCHANGED <<container, words, failed>>

Relocate ==
    /\ next <= Len(rels)
    /\ RelocateSymbol \/ RelocateMissing \/ RelocateRelative \/ RelocateNothing
    /\ UNCHANGED stored

(* The end of io_storeAddLibrary().                                        *)
RemoveLibrary ==
    /\ next > Len(rels)
    /\ failed
    /\ stored
    /\ stored' = FALSE
    /\ UNCHANGED <<words, next, container, failed>>

Next ==
    /\ Relocate \/ RemoveLibrary
    /\ UNCHANGED <<needed, defines, local, rels>>

Spec == Init /\ [][Next]_vars

-----------------------------------------------------------------------------
(* The libraries at distance n from the library, by what they need.        *)
At(n) ==
    LET at[i \in 0..n] == IF i = 0 THEN {Self}
                          ELSE UNION {Range(needed[l]) : l \in at[i - 1]}
    IN  at[n]

Definers(symbol, n) == {l \in At(n) : symbol \in defines[l]}

(* A symbol that is not local is the kernel's, else that of a library at   *)
(* the least distance, else the library's own: the breadth first search,   *)
(* which may meet a library many times, misses and overtakes none.         *)
SymbolIsNearest ==
    \A symbol \in Symbol \ local :
       LET l == LookupSymbol(symbol)
           distances == {n \in 1..Libraries : Definers(symbol, n) # {}}
       IN
       CASE symbol \in defines[Kernel] -> l = Kernel
         [] symbol \notin defines[Kernel] /\ distances # {} ->
              l \in Definers(symbol, Min(distances))
         [] OTHER -> l = IF symbol \in defines[Self] THEN Self ELSE None

(* In a library that stays in the store, words that refer to a symbol hold *)
(* the address of the nearest one, whatever relocations come between, and  *)
(* those of R_386_RELATIVE have moved by some library's base, which is the *)
(* library's own if the last symbol that was looked up is its own.         *)
RelocationRight ==
    stored /\ ~failed /\ next > Len(rels) =>
      \A r \in DOMAIN rels :
         LET l == LookupSymbol(rels[r].symbol)
             last == {q \in 1..r - 1 : NeedsSymbol(rels[q].type)}
         IN
         /\ NeedsSymbol(rels[r].type) =>
              /\ l # None
              /\ words[r] = CASE PLT(r) -> Target(l, rels[r].symbol)
                              [] rels[r].type = "PC32" ->
                                   Addend + Target(l, rels[r].symbol) - Address(r)
                              [] OTHER -> Addend + Target(l, rels[r].symbol)
         /\ rels[r].type = "RELATIVE" =>
              /\ \E k \in {Kernel} \cup Lib : words[r] = Addend + RelocBase(k)
              /\ last # {} => (words[r] = Addend + RelocBase(Self)
                                <=> LookupSymbol(rels[Max(last)].symbol) = Self)

=============================================================================
