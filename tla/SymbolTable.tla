------------------------------ MODULE SymbolTable ------------------------------
(***************************************************************************)
(* class SymbolTable (src/src/validate.cpp) with the two Validator helpers *)
(* that move along it.  The tables reachable from symbol_table_ through    *)
(* parent_ are the sequence scopes, the global table first and the current *)
(* one last.  A table maps every name, NoEntry to those it does not hold.  *)
(***************************************************************************)
EXTENDS Integers, Sequences, FiniteSets, FiniteSetsExt

CONSTANTS Name,     \* identifiers
          Decl,     \* the declarations an entry can hold
          NoEntry   \* the null entry

ASSUME NoEntryIsNoDecl == NoEntry \notin Decl

VARIABLE scopes

EmptyTable == [x \in Name |-> NoEntry]

\* symbol_table_ is never null, and every table answers for every name.
TypeOK ==
    /\ scopes \in Seq([Name -> Decl \cup {NoEntry}])
    /\ scopes # << >>

\* The tables among the first k that hold x.
holders(k, x) == {i \in 1 .. k : scopes[i][x] # NoEntry}

\* A wrong variant: the outermost entry.
lookup_outermost(k, x) ==
    IF holders(k, x) = {} THEN NoEntry ELSE scopes[Min(holders(k, x))][x]

\* The entry the k-th table answers for x: its own, or else its parent's.
lookup_from(k, x) ==
    IF holders(k, x) = {} THEN NoEntry ELSE scopes[Max(holders(k, x))][x]

lookup(x) == lookup_from(Len(scopes), x)

\* Whether insert(x, ...) returns true.
is_new(x) == scopes[Len(scopes)][x] = NoEntry

-------------------------------------------------------------------------------

Init == scopes = << EmptyTable >>

\* Validator::validate: a new table with no parent.
reset == scopes' = << EmptyTable >>

\* A wrong variant: the last entry stays.
insert_again(x, d) == scopes' = [scopes EXCEPT ![Len(scopes)][x] = d]

\* The first entry stays.
insert(x, d) ==
    scopes' = IF is_new(x) THEN [scopes EXCEPT ![Len(scopes)][x] = d] ELSE scopes

create_stack_frame == scopes' = Append(scopes, EmptyTable)

\* Wrong variants: one releases even the outermost table, one only a table
\* that holds something.
release_always == scopes' = SubSeq(scopes, 1, Len(scopes) - 1)

release_used ==
    scopes' = IF Len(scopes) > 1 /\ scopes[Len(scopes)] # EmptyTable
              THEN SubSeq(scopes, 1, Len(scopes) - 1) ELSE scopes

\* The outermost table is never released.
release_stack_frame ==
    scopes' = IF Len(scopes) > 1 THEN SubSeq(scopes, 1, Len(scopes) - 1) ELSE scopes

Next ==
    \/ reset
    \/ \E x \in Name, d \in Decl : insert(x, d)
    \/ create_stack_frame
    \/ release_stack_frame

Spec == Init /\ [][Next]_scopes

-------------------------------------------------------------------------------

\* What a lookup from each table answers, and the names each table holds.
answers == [k \in DOMAIN scopes |-> [x \in Name |-> lookup_from(k, x)]]

held == [k \in DOMAIN scopes |-> {x \in Name : scopes[k][x] # NoEntry}]

Environment == INSTANCE LexicalEnvironment WITH env <- answers, local <- held

\* The chain of tables keeps the promise of a lexical environment: a lookup
\* finds the innermost declaration, a refused insert changes nothing, and
\* releasing a table restores what every name meant before it was created.
ImplementsEnvironment == Environment!Spec

\* A name that some table of the chain holds is found from there, in the last
\* table holding it: the walk along parent_ can neither miss nor overshoot it.
HasInnermost ==
    \A k \in DOMAIN scopes, x \in Name :
        holders(k, x) # {} =>
            \E i \in holders(k, x) : \A j \in holders(k, x) : j <= i
===============================================================================
