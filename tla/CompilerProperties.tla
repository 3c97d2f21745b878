-------------------------- MODULE CompilerProperties --------------------------
(***************************************************************************)
(* What the exit code and the generated blocks mean for the program: where *)
(* the validator's view of the tree and the generator's agree, and the     *)
(* exact places where they do not.                                         *)
(***************************************************************************)
EXTENDS Compiler

at(n) == ast.nodes[n]

Accepted == Validated /\ errors = << >>

\* The declaration d stands in a block that has ended before n, of the same
\* function: n is out of its scope.
OutOfScope(d, n) ==
    /\ d < n
    /\ EnclosingFunction(ast, d) = EnclosingFunction(ast, n)
    /\ \E list \in ScopeLists(ast) :
         /\ d \in {list[i] : i \in DOMAIN list}
         /\ \A i \in DOMAIN list : ~ Under(ast, n, list[i])

\* The generator keeps one table per function, and a block's declarations in
\* it for the rest of the function.
HiddenBy(d, n) ==
    at(d).kind = "VariableDeclaration" /\ at(d).name = at(n).name /\ OutOfScope(d, n)

UsesNames(n) == at(n).kind \in {"VariableLookup", "VariableAssignment", "FunctionCall"}

\* The generator finds the storage or the function of every name the validator
\* resolved to, however deep the block and whatever was declared and generated
\* before, unless a declaration of the name is left over from an ended block.
GeneratorResolves ==
    \A n \in DOMAIN ast.nodes :
      uses[n] \in {NoNode, resolved[n]} \/ HiddenBy(uses[n], n)

\* Without the exception, in a program that compiles: what scopes are for.
NamesKeepTheirMeaning ==
    exit_code = 0 => \A n \in DOMAIN ast.nodes : uses[n] \in {NoNode, resolved[n]}

\* What the validator lets through keeps every promise the generator relies on
\* without looking: of its exceptions only the two for unknown names are left,
\* and none of its casts and dereferences goes wrong.
OnlyNamesFail ==
    outcome \notin {"argument count", "no value", "invalid condition", "not a constant",
                    "undefined behaviour"}

\* For an accepted tree, a name the generator does not know is a constant's, or
\* a function's that is assigned to, and a function it does not know is the
\* caller itself or a later one.
FailuresExplained ==
    /\ outcome = "unknown variable" =>
         at(resolved[Generation!here]).kind \in {"ConstantDeclaration", "FunctionDeclaration"}
    /\ outcome = "unknown function" =>
         resolved[Generation!here] >= EnclosingFunction(ast, Generation!here)

\* A statement follows a return in the same list.
AfterReturn ==
    \E list \in ScopeLists(ast) :
      \E i \in 1 .. Len(list) - 1 : at(list[i]).kind = "FunctionReturn"

\* However the branches of nested ifs return or go on, every block ends in a
\* terminator, and only a statement after a return puts one inside a block.
BlocksAreClosed ==
    outcome \in {"verified", "verification failed"} =>
      /\ \A b \in DOMAIN blocks : blocks[b].ended
      /\ (\E b \in DOMAIN blocks : blocks[b].broken) => AfterReturn

-------------------------------------------------------------------------------

\* The LLVM type of every expression's value, by the types of its parts and
\* what its names mean.
ValueTypes(meaning) ==
    LET types[n \in DOMAIN ast.nodes] ==
          LET left == types[at(n).operands[1]]
          IN  CASE at(n).kind \in Literal -> Generation!literal_value(n).type
                [] at(n).kind = "VariableLookup" ->
                     primitive_to_llvm_type(DeclaredType(ast, meaning[n]))
                [] at(n).kind = "FunctionCall" ->
                     primitive_to_llvm_type(at(meaning[n]).type)
                [] at(n).kind \in {"BinaryOp", "UnaryOp"} ->
                     IF at(n).op \in Comparison THEN "i1" ELSE left
                [] OTHER -> "void"
    IN  types

\* A call passes what its function takes, and a return gives what its function
\* returns.
CallsAndReturnsFit(meaning, types) ==
    \A n \in DOMAIN ast.nodes :
      LET f == at(IF at(n).kind = "FunctionCall" THEN meaning[n] ELSE EnclosingFunction(ast, n))
      IN  /\ at(n).kind = "FunctionCall" =>
               /\ f.type # UNDEF
               /\ \A i \in DOMAIN f.params :
                    types[at(n).operands[i]] = primitive_to_llvm_type(at(f.params[i]).type)
          /\ (at(n).kind = "FunctionReturn" /\ has_value(at(n))) =>
               types[at(n).operands[1]] = primitive_to_llvm_type(f.type)

OperandsFit(types) ==
    \A n \in DOMAIN ast.nodes :
      at(n).kind = "BinaryOp" => types[at(n).operands[1]] = types[at(n).operands[2]]

\* What every name means by where it stands.
Meanings == [n \in DOMAIN ast.nodes |-> Resolve(ast, n)]

\* Every name used is a variable's or an argument's, no variable hides it, and
\* every function called comes before its caller.
PlainNames ==
    \A n \in DOMAIN ast.nodes :
      UsesNames(n) =>
        LET d == Resolve(ast, n) IN
        /\ IF at(n).kind = "FunctionCall" THEN d < EnclosingFunction(ast, n)
           ELSE at(d).kind \in {"VariableDeclaration", "Argument"}
        /\ \A e \in DOMAIN ast.nodes : ~ HiddenBy(e, n)

Plain ==
    /\ PlainNames
    /\ ~ AfterReturn
    /\ CallsAndReturnsFit(Meanings, ValueTypes(Meanings))
    /\ OperandsFit(ValueTypes(Meanings))

\* A legal program of plain names, whose values have the widths their places
\* ask for, compiles: nothing else in it can make either phase refuse it.
PlainProgramsCompile ==
    (phase = "done" /\ round = 1 /\ Legal(ast) /\ Plain) => exit_code = 0

\* Exit code 0 means that LLVM accepted the module, that the program was legal,
\* and that every call and return has values of the widths their places take,
\* by what the generator found for the names in them: no misfit the validator
\* lets through survives the verifier.
SuccessIsSound ==
    exit_code = 0 =>
      /\ outcome = "verified"
      /\ Legal(ast)
      /\ CallsAndReturnsFit(uses, ValueTypes(uses))

\* Whatever the validator accepts compiles.
AcceptedProgramsCompile == (phase = "done" /\ Accepted) => exit_code = 0

-------------------------------------------------------------------------------

\* The widths the validator gives to literals arrive in the generated stores:
\* a literal assigned to a variable is stored in the variable's own type,
\* except that every float literal is a double.
AssignedLiteralsFit ==
    \A s \in stores :
      LET n == s[1] IN
      (/\ at(n).kind = "VariableAssignment"
       /\ at(resolved[n]).kind = "VariableDeclaration"
       /\ at(at(n).operands[1]).kind \in Literal
       /\ uses[n] = resolved[n])
        => s[2] = s[3] \/ s[3] \in {"half", "float"}

\* No store of a program that compiles writes more, or less, than its variable
\* holds.
StoresFit == exit_code = 0 => \A s \in stores : s[2] = s[3]

\* compile returns.
Termination == <>(phase = "done")
================================================================================
