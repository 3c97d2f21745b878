--------------------------------- MODULE LlvmIr ---------------------------------
(***************************************************************************)
(* As much of LLVM as the code generator (src/src/codegen.cpp) depends on: *)
(* the types of values, the basic blocks an IRBuilder appends to, and what *)
(* verifyModule refuses.  LLVM itself is not in the repository.            *)
(***************************************************************************)
EXTENDS ChaTypes, Sequences

\* An operand: only its type, and whether it is a constant, matter.
Value == [type : LlvmType, constant : BOOLEAN]

NoValue == [type |-> "none", constant |-> FALSE]

constant(type) == [type |-> type, constant |-> TRUE]

computed(type) == [type |-> type, constant |-> FALSE]

(***************************************************************************)
(* A basic block: the entry block of its function, whether its last        *)
(* instruction is a terminator, whether some other one is, the blocks its  *)
(* terminators branch to, and the variables, by their declarations, whose  *)
(* storage it makes and uses.                                              *)
(***************************************************************************)
Block == [entry : Nat, ended : BOOLEAN, broken : BOOLEAN,
          to : SUBSET Nat, makes : SUBSET Nat, uses : SUBSET Nat]

new_block(entry) ==
    [entry |-> entry, ended |-> FALSE, broken |-> FALSE, to |-> {}, makes |-> {}, uses |-> {}]

\* An instruction at the end of the block, terminator or not.
appended(b) == [b EXCEPT !.broken = @ \/ b.ended, !.ended = FALSE]

\* An instruction that makes the storage of a variable, and one that uses it.
making(b, d) == [appended(b) EXCEPT !.makes = @ \cup {d}]

using(b, d) == [appended(b) EXCEPT !.uses = @ \cup {d}]

terminated(b, targets) ==
    [b EXCEPT !.broken = @ \/ b.ended, !.ended = TRUE, !.to = @ \cup targets]

\* The blocks some path from one block reaches without entering another.
reached_without(blocks, from, avoided) ==
    LET reached[i \in 0 .. Len(blocks)] ==
          IF i = 0 THEN {from} \ {avoided}
          ELSE reached[i - 1] \cup (UNION {blocks[b].to : b \in reached[i - 1]} \ {avoided})
    IN  reached[Len(blocks)]

dominates(blocks, a, b) ==
    a = b \/ b \notin reached_without(blocks, blocks[b].entry, a)

\* verifyModule on the shape of the functions: every block has exactly one
\* terminator, at its end, and storage is made before it is used.
Terminated(blocks) == \A b \in DOMAIN blocks : blocks[b].ended /\ ~ blocks[b].broken

Dominated(blocks) ==
    \A a, b \in DOMAIN blocks :
      blocks[a].makes \cap blocks[b].uses # {} => dominates(blocks, a, b)

\* Operands an instruction of the two-operand kinds accepts.
SameNumbers(left, right) ==
    left.type = right.type /\ left.type \in IntegerTy \cup FloatingPointTy

SameIntegers(left, right) == left.type = right.type /\ left.type \in IntegerTy
================================================================================
