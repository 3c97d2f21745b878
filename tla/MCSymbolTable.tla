---------------------------- MODULE MCSymbolTable ----------------------------
(* The symbol table driven freely by its operations, to a bounded depth. *)
EXTENDS SymbolTable

CONSTANT MaxDepth   \* how many tables the chain may hold

DepthBound == Len(scopes) <= MaxDepth
===============================================================================
