-------------------------------- MODULE Execution --------------------------------
(***************************************************************************)
(* What a compiled function computes: the numbers its literals become      *)
(* (const_value in src/src/parser.y, the visitors of literals in           *)
(* src/src/codegen.cpp) and the instructions generated for its operators,  *)
(* executed one after another.  The program is one function that compiled, *)
(* of integers and booleans, without calls and ifs: its nodes stand in the *)
(* order of its instructions.  A literal spells any of Numeral, an         *)
(* argument is anything its type holds.                                    *)
(*                                                                         *)
(* constant_untruncated and divided_unsigned are wrong on purpose: each    *)
(* stands for a bug that one of the properties must notice.                *)
(***************************************************************************)
EXTENDS CompilerProperties

CONSTANTS Bits,         \* how wide each integer type is
          Numeral       \* what an integer literal of the source may spell

ASSUME BitsAreWidths ==
    /\ Bits \in [IntegerTy -> Nat \ {0}]
    /\ Bits["i1"] = 1
    /\ Bits["i8"] < Bits["i16"] /\ Bits["i16"] < Bits["i32"] /\ Bits["i32"] < Bits["i64"]
    /\ Numeral \subseteq Nat

VARIABLES run,          \* "not started", "running", "returned" or "undefined"
          here,         \* the node whose instruction is next
          number,       \* what each literal spells and each argument is given
          register,     \* the value of each expression
          memory        \* what each variable holds

machine == << run, here, number, register, memory >>

modulus(type) == 2 ^ Bits[type]

\* A number that the type cannot hold loses its high bits.
truncated(type, v) == [type |-> type, bits |-> v % modulus(type)]

NoContent == [type |-> "none", bits |-> 0]

\* The value as the signed instructions read it.
signed(x) == IF 2 * x.bits < modulus(x.type) THEN x.bits ELSE x.bits - modulus(x.type)

saturated(v, limit) == IF v > limit THEN limit ELSE v

strtoll(v) == saturated(v, modulus("i64") \div 2 - 1)

strtoull(v) == saturated(v, modulus("i64") - 1)

literal_type(n) == Generation!literal_value(n).type

constant_untruncated(n, v) == [type |-> literal_type(n), bits |-> v]

constant_value(n, v) ==
    CASE at(n).kind = "ConstantInteger"         -> truncated(literal_type(n), strtoll(v))
      [] at(n).kind = "ConstantUnsignedInteger" -> truncated(literal_type(n), strtoull(v))
      [] at(n).kind = "ConstantBool"            -> truncated(literal_type(n), v)

truth(b) == [type |-> "i1", bits |-> IF b THEN 1 ELSE 0]

magnitude(v) == IF v < 0 THEN - v ELSE v

\* Division rounds towards zero.
quotient(a, b) ==
    LET q == magnitude(a) \div magnitude(b) IN IF (a < 0) = (b < 0) THEN q ELSE - q

\* A signed division by zero, or whose result has no room, may do anything.
defined(op, left, right) ==
    op = "SLASH" =>
        right.bits # 0 /\ ~ (signed(right) = -1 /\ 2 * left.bits = modulus(left.type))

divided_unsigned(left, right) == truncated(left.type, left.bits \div right.bits)

divided(left, right) == truncated(left.type, quotient(signed(left), signed(right)))

\* The instructions are the signed ones, whatever the operands' types.
computed_value(op, left, right) ==
    CASE op = "PLUS"                   -> truncated(left.type, left.bits + right.bits)
      [] op = "MINUS"                  -> truncated(left.type, left.bits - right.bits)
      [] op = "STAR"                   -> truncated(left.type, left.bits * right.bits)
      [] op = "SLASH"                  -> divided(left, right)
      [] op = "EQUALS_EQUALS"          -> truth(left.bits = right.bits)
      [] op = "NOT_EQUALS"             -> truth(left.bits # right.bits)
      [] op = "LESS_THAN"              -> truth(signed(left) < signed(right))
      [] op = "LESS_THAN_OR_EQUALS"    -> truth(signed(left) <= signed(right))
      [] op = "GREATER_THAN"           -> truth(signed(left) > signed(right))
      [] op = "GREATER_THAN_OR_EQUALS" -> truth(signed(left) >= signed(right))
      [] op = "AND"                    -> truth(left.bits = 1 /\ right.bits = 1)
      [] op = "OR"                     -> truth(left.bits = 1 \/ right.bits = 1)

inverted(op, x) ==
    CASE op = "NEGATE" -> truncated(x.type, - x.bits)
      [] op = "NOT"    -> truncated(x.type, modulus(x.type) - 1 - x.bits)

-------------------------------------------------------------------------------

Executes(kinds) == run = "running" /\ at(here).kind \in kinds

operand(i) == register[at(here).operands[i]]

Yields(value) == register' = [register EXCEPT ![here] = value] /\ here' = here + 1

\* The caller runs the function that was compiled.  What LLVM makes of
\* operands of two types is nobody's promise.
called ==
    /\ run = "not started"
    /\ exit_code = 0
    /\ OperandsFit(ValueTypes(uses))
    /\ run' = "running"
    /\ UNCHANGED << vars, here, number, register, memory >>

pass_argument ==
    LET type == Generation!allocated_type(here) IN
    /\ Executes({"Argument"})
    /\ \E v \in 0 .. modulus(type) - 1 :
        /\ number' = [number EXCEPT ![here] = v]
        /\ memory' = [memory EXCEPT ![here] = [type |-> type, bits |-> v]]
    /\ here' = here + 1
    /\ UNCHANGED << vars, run, register >>

load_constant ==
    /\ Executes(Literal)
    /\ \E v \in IF at(here).kind = "ConstantBool" THEN {0, 1} ELSE Numeral :
        /\ number' = [number EXCEPT ![here] = v]
        /\ Yields(constant_value(here, v))
    /\ UNCHANGED << vars, run, memory >>

\* The content of a variable nobody has stored to is undefined.
load ==
    LET content == memory[uses[here]] IN
    /\ Executes({"VariableLookup"})
    /\ IF content = NoContent
       THEN run' = "undefined" /\ UNCHANGED << register, here >>
       ELSE Yields(content) /\ UNCHANGED run
    /\ UNCHANGED << vars, number, memory >>

\* Both operands of && and || have been computed as well.
calculate ==
    /\ Executes({"BinaryOp"})
    /\ IF defined(at(here).op, operand(1), operand(2))
       THEN Yields(computed_value(at(here).op, operand(1), operand(2))) /\ UNCHANGED run
       ELSE run' = "undefined" /\ UNCHANGED << register, here >>
    /\ UNCHANGED << vars, number, memory >>

invert ==
    /\ Executes({"UnaryOp"})
    /\ Yields(inverted(at(here).op, operand(1)))
    /\ UNCHANGED << vars, run, number, memory >>

\* Nobody converts the value, and the verifier does not look at it: one of
\* another type than the variable's is written past its end, or leaves a part
\* of it as it was.
store ==
    LET variable == IF at(here).kind = "VariableAssignment" THEN uses[here] ELSE here IN
    /\ Executes({"VariableDeclaration", "VariableAssignment"})
    /\ \/ ~ has_value(at(here)) /\ here' = here + 1 /\ UNCHANGED << run, memory >>
       \/ /\ has_value(at(here))
          /\ IF operand(1).type = Generation!allocated_type(variable)
             THEN /\ memory' = [memory EXCEPT ![variable] = operand(1)]
                  /\ here' = here + 1
                  /\ UNCHANGED run
             ELSE run' = "undefined" /\ UNCHANGED << here, memory >>
    /\ UNCHANGED << vars, number, register >>

return ==
    /\ Executes({"FunctionReturn", "FunctionDeclaration"})
    /\ run' = "returned"
    /\ UNCHANGED << vars, here, number, register, memory >>

-------------------------------------------------------------------------------

ExecutionInit ==
    /\ Init
    /\ run = "not started"
    /\ here = 1
    /\ number = [n \in DOMAIN ast.nodes |-> 0]
    /\ register = [n \in DOMAIN ast.nodes |-> NoContent]
    /\ memory = [n \in DOMAIN ast.nodes |-> NoContent]

ExecutionNext ==
    \/ Next /\ UNCHANGED machine
    \/ called
    \/ pass_argument
    \/ load_constant
    \/ load
    \/ calculate
    \/ invert
    \/ store
    \/ return

ExecutionSpec == ExecutionInit /\ [][ExecutionNext]_<< vars, machine >>

-------------------------------------------------------------------------------

Computed == {n \in 1 .. here - 1 : at(n).kind \in Expression}

\* Every value computed, a variable's content among them, has the type that
\* the declarations the names were found to mean and the widths the validator
\* gave to literals amount to, and no bits beyond its width.
ContentsHaveTheirTypes ==
    /\ run \in {"not started", "running", "returned", "undefined"}
    /\ run # "not started" =>
        \A n \in Computed :
          register[n].type = ValueTypes(uses)[n] /\ register[n].bits \in 0 .. modulus(register[n].type) - 1

\* By the rules of the language: n reads a variable which was declared without
\* a value and not assigned one since.
ReadsUnset(n) ==
    LET d == Resolve(ast, n) IN
    /\ at(n).kind = "VariableLookup"
    /\ at(d).kind = "VariableDeclaration" /\ ~ has_value(at(d))
    /\ \A m \in d .. n : at(m).kind = "VariableAssignment" => Resolve(ast, m) # d

\* The value n stores is of another width than the variable.  A literal that
\* is assigned never is.  Any other constant (an initial value, the operand of
\* a minus, a sum of literals) is not given a type by the store and has the
\* generator's own width.
StoresMisfit(n) ==
    LET d == IF at(n).kind = "VariableAssignment" THEN Resolve(ast, n) ELSE n
        value == at(n).operands[1]
        type == TypesOf(ast)[value]
        width == IF type = CONST_INT THEN "i32" ELSE primitive_to_llvm_type(type)
    IN  /\ at(n).kind \in {"VariableDeclaration", "VariableAssignment"} /\ has_value(at(n))
        /\ at(n).kind = "VariableAssignment" => at(value).kind \notin Literal
        /\ width # primitive_to_llvm_type(at(d).type)

\* A function whose operands fit keeps to what LLVM promises until it reads a
\* variable that has no value, divides by zero (or by minus one), or stores a
\* value of another width by the rules of the language; a literal assigned to a
\* variable, or combined with a typed operand, is never the reason.
UndefinedIsExplained ==
    run = "undefined" =>
      \/ ReadsUnset(here)
      \/ at(here).op = "SLASH" /\ signed(operand(2)) \in {0, -1}
      \/ StoresMisfit(here)

\* Where the variable that n reads was last given a value.
LastWritten(n) ==
    LET d == uses[n]
        writes == {m \in 1 .. n - 1 : m = d \/ (at(m).kind = "VariableAssignment" /\ uses[m] = d)}
    IN  CHOOSE m \in writes : \A k \in writes : k <= m

\* An argument's bits as its declared type means them.
given(n) ==
    IF is_unsigned_int(at(n).type) \/ at(n).type = BOOL THEN number[n]
    ELSE signed([type |-> Generation!allocated_type(n), bits |-> number[n]])

\* The number each expression stands for, with no limit to its size.
Meaning ==
    LET meaning[n \in 1 .. here - 1] ==
          LET left == meaning[at(n).operands[1]]
              right == meaning[at(n).operands[2]]
              holds(b) == IF b THEN 1 ELSE 0
              op == at(n).op
          IN  CASE at(n).kind \in Literal                                   -> number[n]
                [] at(n).kind = "Argument"                                  -> given(n)
                [] at(n).kind = "VariableLookup"                            -> meaning[LastWritten(n)]
                [] at(n).kind \in {"VariableDeclaration", "VariableAssignment"} ->
                     IF has_value(at(n)) THEN left ELSE 0
                [] op = "PLUS"                                              -> left + right
                [] op = "MINUS"                                             -> left - right
                [] op = "STAR"                                              -> left * right
                [] op = "SLASH"                                             ->
                     IF right = 0 THEN 0 ELSE quotient(left, right)
                [] op = "EQUALS_EQUALS"                                     -> holds(left = right)
                [] op = "NOT_EQUALS"                                        -> holds(left # right)
                [] op = "LESS_THAN"                                         -> holds(left < right)
                [] op = "LESS_THAN_OR_EQUALS"                               -> holds(left <= right)
                [] op = "GREATER_THAN"                                      -> holds(left > right)
                [] op = "GREATER_THAN_OR_EQUALS"                            -> holds(left >= right)
                [] op \in {"AND", "NOT"}                                    ->
                     IF op = "NOT" THEN 1 - left ELSE left * right
                [] op = "OR"                                                -> holds(left + right > 0)
                [] op = "NEGATE"                                            -> - left
    IN  meaning

\* An instruction that compares or divides reads another number than is meant:
\* the operands have overflowed, or are unsigned and too large for a signed
\* type of their width.  Equality survives if both are misread alike.
Misread(n, meaning) ==
    LET SignedAsMeant(m) == signed(register[m]) = meaning[m]
        BitsAsMeant(m) == register[m].bits = meaning[m]
        left == at(n).operands[1]
        right == at(n).operands[2]
    IN  /\ at(n).op \in Comparison \cup {"SLASH"}
        /\ ~ (SignedAsMeant(left) /\ SignedAsMeant(right))
        /\ at(n).op \in {"EQUALS_EQUALS", "NOT_EQUALS"} => ~ (BitsAsMeant(left) /\ BitsAsMeant(right))

\* A literal strtoll or strtoull has no room for.
TooLong(n) ==
    \/ at(n).kind = "ConstantInteger" /\ number[n] >= modulus("i64") \div 2
    \/ at(n).kind = "ConstantUnsignedInteger" /\ number[n] >= modulus("i64")

\* Nothing that the value of a node is made of went wrong in these two ways.
Reliable(meaning) ==
    LET reliable[n \in 1 .. here - 1] ==
          /\ ~ TooLong(n)
          /\ ~ Misread(n, meaning)
          /\ at(n).kind = "VariableLookup" => reliable[LastWritten(n)]
          /\ \A i \in DOMAIN at(n).operands : reliable[at(n).operands[i]]
    IN  reliable

\* Literals narrowed to the type their context gave them, wrapping instructions
\* and signed ones for unsigned types: whatever an expression is made of, its
\* value is what it stands for, modulo the width of its type, unless a literal
\* was too long or a comparison or division misread an operand.
ResultsWrapAround ==
    run # "not started" =>
        LET meaning == Meaning
            reliable == Reliable(meaning)
        IN  \A n \in Computed :
              reliable[n] => register[n].bits = meaning[n] % modulus(register[n].type)
================================================================================
