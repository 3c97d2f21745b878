----------------------------- MODULE CompilerProofs -----------------------------
(***************************************************************************)
(* For any names and any trees the parser may return: the phases keep      *)
(* their types, the generator fails only at names it does not know, it     *)
(* finds for each of the others what the validator meant by it, and every  *)
(* block a verified or refused module has is closed.  What was proved of   *)
(* the Validator and of the CodeGenerator on their own holds of them       *)
(* inside compile, where they share the tree and the result types; what    *)
(* the one has checked is what the other one takes for granted.  A program *)
(* that compiles obeys the rules, and what is stored has the width that    *)
(* the validator has checked.                                              *)
(***************************************************************************)
EXTENDS CompilerProperties, TLAPS

VP == INSTANCE ResolutionProofs WITH MaxRounds <- 1

GP == INSTANCE CodeGeneratorProofs WITH current_function_ <- generated_function

-------------------------------------------------------------------------------
(* The modules the compiler is made of and the modules of their proofs     *)
(* define the same things.                                                 *)

LEMMA SameGeneratorInit == Generation!Init <=> GP!Init
BY ZenonT(30)
   DEF Generation!Init, Generation!NoValue, Generation!NoNode, Generation!Symbol,
       Generation!constant, GP!Init, GP!NoValue, GP!NoNode, GP!Symbol, GP!constant

LEMMA SameGeneratorNext == Generation!Next <=> GP!Next
BY ZenonT(30)
   DEF Generation!Next, Generation!generate, Generation!visit_literal,
       Generation!keep_value, Generation!visit_binary_op, Generation!binary_op,
       Generation!visit_unary_op, Generation!unary_op,
       Generation!visit_variable_declaration, Generation!bind_variable,
       Generation!visit_variable_assignment, Generation!store_value,
       Generation!visit_variable_lookup, Generation!visit_function_declaration,
       Generation!end_function, Generation!visit_function_call, Generation!call,
       Generation!visit_function_return, Generation!return, Generation!visit_if,
       Generation!branch, Generation!end_then, Generation!end_else,
       Generation!visit_constant_declaration, Generation!define_constant,
       Generation!create_main_wrapper, Generation!verify_module, Generation!visit,
       Generation!Tree, Generation!KeepTables, Generation!KeepBuilder, Generation!Next_is,
       Generation!node_at, Generation!here, Generation!Literal, Generation!literal_value,
       Generation!Goes_on, Generation!Visits, Generation!item, Generation!NoNode,
       Generation!binary_op_type, Generation!Logical, Generation!SameIntegers,
       Generation!SameNumbers, Generation!NoValue, Generation!Throw, Generation!constant,
       Generation!computed, Generation!Append_instruction, Generation!Refuse_unless,
       Generation!IntegerTy, Generation!FloatingPointTy, Generation!making,
       Generation!has_value, Generation!Append_use, Generation!stored,
       Generation!entry_here, Generation!allocated_type, Generation!new_block,
       Generation!entry_values, Generation!default_return,
       Generation!primitive_to_llvm_type, Generation!terminated, Generation!has_else,
       Generation!Branch_to, Generation!Generating, Generation!Wrapper,
       Generation!Terminated, Generation!Dominated, Generation!constant_integer_type,
       Generation!constant_unsigned_type, Generation!Comparison, Generation!appended,
       Generation!using, Generation!BOOL, Generation!INT8, Generation!UINT8,
       Generation!INT16, Generation!UINT16, Generation!INT32, Generation!INT,
       Generation!UINT32, Generation!UINT, Generation!INT64, Generation!CONST_INT,
       Generation!UINT64, Generation!CONST_UINT, Generation!FLOAT16, Generation!FLOAT32,
       Generation!FLOAT64, Generation!CONST_FLOAT, Generation!UNDEF, Generation!dominates,
       Generation!SizedInteger, Generation!reached_without, GP!Next, GP!generate,
       GP!visit_literal, GP!keep_value, GP!visit_binary_op, GP!binary_op, GP!visit_unary_op,
       GP!unary_op, GP!visit_variable_declaration, GP!bind_variable,
       GP!visit_variable_assignment, GP!store_value, GP!visit_variable_lookup,
       GP!visit_function_declaration, GP!end_function, GP!visit_function_call, GP!call,
       GP!visit_function_return, GP!return, GP!visit_if, GP!branch, GP!end_then,
       GP!end_else, GP!visit_constant_declaration, GP!define_constant,
       GP!create_main_wrapper, GP!verify_module, GP!visit, GP!Tree, GP!KeepTables,
       GP!KeepBuilder, GP!Next_is, GP!node_at, GP!here, GP!Literal, GP!literal_value,
       GP!Goes_on, GP!Visits, GP!item, GP!NoNode, GP!binary_op_type, GP!Logical,
       GP!SameIntegers, GP!SameNumbers, GP!NoValue, GP!Throw, GP!constant, GP!computed,
       GP!Append_instruction, GP!Refuse_unless, GP!IntegerTy, GP!FloatingPointTy, GP!making,
       GP!has_value, GP!Append_use, GP!stored, GP!entry_here, GP!allocated_type,
       GP!new_block, GP!entry_values, GP!default_return, GP!primitive_to_llvm_type,
       GP!terminated, GP!has_else, GP!Branch_to, GP!Generating, GP!Wrapper, GP!Terminated,
       GP!Dominated, GP!constant_integer_type, GP!constant_unsigned_type, GP!Comparison,
       GP!appended, GP!using, GP!BOOL, GP!INT8, GP!UINT8, GP!INT16, GP!UINT16, GP!INT32,
       GP!INT, GP!UINT32, GP!UINT, GP!INT64, GP!CONST_INT, GP!UINT64, GP!CONST_UINT,
       GP!FLOAT16, GP!FLOAT32, GP!FLOAT64, GP!CONST_FLOAT, GP!UNDEF, GP!dominates,
       GP!SizedInteger, GP!reached_without

LEMMA SameGeneratorTypes == Generation!TypeOK <=> GP!TypeOK
BY ZenonT(30)
   DEF Generation!TypeOK, Generation!Item, Generation!Value, Generation!NoValue,
       Generation!NoNode, Generation!Symbol, Generation!Wrapper, Generation!Block,
       Generation!LlvmType, Generation!Outcome, Generation!constant, Generation!IntegerTy,
       Generation!FloatingPointTy, Generation!Failure, GP!TypeOK, GP!Item, GP!Value,
       GP!NoValue, GP!NoNode, GP!Symbol, GP!Wrapper, GP!Block, GP!LlvmType, GP!Outcome,
       GP!constant, GP!IntegerTy, GP!FloatingPointTy, GP!Failure

LEMMA SameValidatorInit == Validation!Init <=> VP!Init
BY ZenonT(30)
   DEF Validation!Init, Validation!initial_type, Validation!at, Validation!Table!Init,
       Validation!NoNode, Validation!CONST_INT, Validation!CONST_UINT,
       Validation!CONST_FLOAT, Validation!BOOL, Validation!Literal, Validation!NoType,
       Validation!Table!EmptyTable, VP!Init, VP!initial_type, VP!at, VP!Table!Init,
       VP!NoNode, VP!CONST_INT, VP!CONST_UINT, VP!CONST_FLOAT, VP!BOOL, VP!Literal,
       VP!NoType, VP!Table!EmptyTable

LEMMA SameValidatorNext == Validation!Next <=> VP!Next
BY ZenonT(30)
   DEF Validation!Next, Validation!validate, Validation!register_function,
       Validation!validate_function_declaration, Validation!validate_constant_declaration,
       Validation!validate_argument, Validation!validate_variable_declaration,
       Validation!declare_variable, Validation!validate_variable_assignment,
       Validation!check_assignment, Validation!validate_variable_lookup,
       Validation!validate_literal, Validation!validate_binary_op,
       Validation!type_binary_op, Validation!validate_unary_op, Validation!type_unary_op,
       Validation!validate_function_call, Validation!validate_call_argument,
       Validation!check_argument, Validation!validate_function_return,
       Validation!check_return, Validation!validate_if, Validation!check_condition,
       Validation!validate_else_block, Validation!release_stack_frame, Validation!finish,
       Validation!Running, Validation!Table!reset, Validation!NoNode,
       Validation!top_level_items, Validation!Now, Validation!is_function, Validation!at,
       Validation!this, Validation!insert_or_fail, Validation!Then, Validation!KeepScope,
       Validation!Visiting, Validation!Table!create_stack_frame, Validation!Enter,
       Validation!history, Validation!visits, Validation!do, Validation!Table!lookup,
       Validation!Fail, Validation!held_entry, Validation!Assign, Validation!entry_type,
       Validation!Literal, Validation!binary_result, Validation!operand_types,
       Validation!NoType, Validation!UNDEF, Validation!set_type_on_const,
       Validation!is_numeric, Validation!BOOL, Validation!add_error, Validation!has_value,
       Validation!has_else, Validation!Current, Validation!Table!release_stack_frame,
       Validation!Table!EmptyTable, Validation!Table!insert, Validation!Table!is_new,
       Validation!Table!lookup_from, Validation!check_type_assignment,
       Validation!initial_type, Validation!Arithmetic, Validation!convert_arithmetic_types,
       Validation!Comparison, Validation!is_numeric_comparison_compatible,
       Validation!Logical, Validation!ConstType, Validation!is_signed_int,
       Validation!is_unsigned_int, Validation!is_float, Validation!Table!holders,
       Validation!Table!Max, Validation!is_assignment_compatible, Validation!CONST_INT,
       Validation!CONST_UINT, Validation!CONST_FLOAT, Validation!same_family,
       Validation!INT64, Validation!UINT64, Validation!FLOAT64, VP!Next, VP!validate,
       VP!register_function, VP!validate_function_declaration,
       VP!validate_constant_declaration, VP!validate_argument,
       VP!validate_variable_declaration, VP!declare_variable,
       VP!validate_variable_assignment, VP!check_assignment, VP!validate_variable_lookup,
       VP!validate_literal, VP!validate_binary_op, VP!type_binary_op, VP!validate_unary_op,
       VP!type_unary_op, VP!validate_function_call, VP!validate_call_argument,
       VP!check_argument, VP!validate_function_return, VP!check_return, VP!validate_if,
       VP!check_condition, VP!validate_else_block, VP!release_stack_frame, VP!finish,
       VP!Running, VP!Table!reset, VP!NoNode, VP!top_level_items, VP!Now, VP!is_function,
       VP!at, VP!this, VP!insert_or_fail, VP!Then, VP!KeepScope, VP!Visiting,
       VP!Table!create_stack_frame, VP!Enter, VP!history, VP!visits, VP!do, VP!Table!lookup,
       VP!Fail, VP!held_entry, VP!Assign, VP!entry_type, VP!Literal, VP!binary_result,
       VP!operand_types, VP!NoType, VP!UNDEF, VP!set_type_on_const, VP!is_numeric, VP!BOOL,
       VP!add_error, VP!has_value, VP!has_else, VP!Current, VP!Table!release_stack_frame,
       VP!Table!EmptyTable, VP!Table!insert, VP!Table!is_new, VP!Table!lookup_from,
       VP!check_type_assignment, VP!initial_type, VP!Arithmetic,
       VP!convert_arithmetic_types, VP!Comparison, VP!is_numeric_comparison_compatible,
       VP!Logical, VP!ConstType, VP!is_signed_int, VP!is_unsigned_int, VP!is_float,
       VP!Table!holders, VP!Table!Max, VP!is_assignment_compatible, VP!CONST_INT,
       VP!CONST_UINT, VP!CONST_FLOAT, VP!same_family, VP!INT64, VP!UINT64, VP!FLOAT64

LEMMA SameValidatorTypes == Validation!TypeOK <=> VP!TypeOK
BY ZenonT(30)
   DEF Validation!TypeOK, Validation!IsAst, Validation!ResultType, Validation!NoNode,
       Validation!Frame, Validation!Message, Validation!AstNode, Validation!TopLevel,
       Validation!Expression, Validation!Statement, Validation!Operands, Validation!Named,
       Validation!DeclaredTypes, Validation!Literal, Validation!PrimitiveType,
       Validation!NoType, Validation!Item, Validation!Kind, Validation!NoName,
       Validation!Operator, Validation!Declaration, Validation!RefType, Validation!UNDEF,
       Validation!BOOL, Validation!do, Validation!Todo, Validation!Arithmetic,
       Validation!Comparison, Validation!Logical, Validation!UnaryOperator,
       Validation!SizedInteger, Validation!FLOAT16, Validation!FLOAT64, Validation!INT,
       Validation!INT64, Validation!UINT, Validation!UINT64, VP!TypeOK, VP!IsAst,
       VP!ResultType, VP!NoNode, VP!Frame, VP!Message, VP!AstNode, VP!TopLevel,
       VP!Expression, VP!Statement, VP!Operands, VP!Named, VP!DeclaredTypes, VP!Literal,
       VP!PrimitiveType, VP!NoType, VP!Item, VP!Kind, VP!NoName, VP!Operator,
       VP!Declaration, VP!RefType, VP!UNDEF, VP!BOOL, VP!do, VP!Todo, VP!Arithmetic,
       VP!Comparison, VP!Logical, VP!UnaryOperator, VP!SizedInteger, VP!FLOAT16, VP!FLOAT64,
       VP!INT, VP!INT64, VP!UINT, VP!UINT64,
       Validation!Operators, Validation!InPostOrder, Validation!Spans, Validation!FirstOf,
       Validation!Children, VP!Operators, VP!InPostOrder, VP!Spans, VP!FirstOf,
       VP!Children

LEMMA SameTrees ==
  ASSUME NEW tree
  PROVE  (VP!IsAst(tree) <=> IsAst(tree)) /\ (GP!IsAst(tree) <=> IsAst(tree))
BY ZenonT(30)
   DEF IsAst, AstNode, TopLevel, Expression, Statement, Operands, Named, DeclaredTypes,
       Literal, Kind, NoName, Operator, ResultType, Declaration, RefType, UNDEF, NoType,
       Arithmetic, Comparison, Logical, UnaryOperator, PrimitiveType, SizedInteger, FLOAT16,
       FLOAT64, BOOL, INT, INT64, UINT, UINT64, VP!IsAst, VP!AstNode, VP!TopLevel,
       VP!Expression, VP!Statement, VP!Operands, VP!Named, VP!DeclaredTypes, VP!Literal,
       VP!Kind, VP!NoName, VP!Operator, VP!ResultType, VP!Declaration, VP!RefType, VP!UNDEF,
       VP!NoType, VP!Arithmetic, VP!Comparison, VP!Logical, VP!UnaryOperator,
       VP!PrimitiveType, VP!SizedInteger, VP!FLOAT16, VP!FLOAT64, VP!BOOL, VP!INT, VP!INT64,
       VP!UINT, VP!UINT64, GP!IsAst, GP!AstNode, GP!TopLevel, GP!Expression, GP!Statement,
       GP!Operands, GP!Named, GP!DeclaredTypes, GP!Literal, GP!Kind, GP!NoName, GP!Operator,
       GP!ResultType, GP!Declaration, GP!RefType, GP!UNDEF, GP!NoType, GP!Arithmetic,
       GP!Comparison, GP!Logical, GP!UnaryOperator, GP!PrimitiveType, GP!SizedInteger,
       GP!FLOAT16, GP!FLOAT64, GP!BOOL, GP!INT, GP!INT64, GP!UINT, GP!UINT64,
       Operators, InPostOrder, Spans, FirstOf, Children, VP!Operators, VP!InPostOrder,
       VP!Spans, VP!FirstOf, VP!Children, GP!Operators, GP!InPostOrder, GP!Spans,
       GP!FirstOf, GP!Children

LEMMA SameChecks ==
  ASSUME NEW tree, NEW seen
  PROVE  VP!Checked(tree, seen) <=> GP!Checked(tree, seen)
BY ZenonT(30)
   DEF VP!Checked, VP!Closed, VP!Functions, VP!Calculates, VP!HasNumber, VP!is_function,
       VP!InTop, VP!UNDEF, GP!Checked, GP!Closed, GP!Functions, GP!Calculates, GP!HasNumber,
       GP!is_function, GP!InTop, GP!UNDEF

-------------------------------------------------------------------------------

PhaseInv ==
    /\ phase \in {"parse", "validate", "generate", "done"}
    /\ exit_code \in {NoExitCode, 0, 1}
    /\ exit_code = NoExitCode <=> phase # "done"

\* The generator has not begun.
Waiting == todo = << >> /\ kept = << >> /\ outcome = "idle"

\* It begins with a tree that was checked, and keeps to the nodes of it.
HandOver ==
    /\ phase \in {"parse", "validate"} => Waiting
    /\ phase = "generate" => \E seen : GP!Checked(ast, seen) /\ GP!NumbersInv(seen)
    /\ outcome \notin GP!Unchecked

CInv ==
    /\ VP!IInv
    /\ VP!AcceptInv
    /\ GP!GInv
    /\ PhaseInv
    /\ HandOver

LEMMA Assumptions == VP!ProgramsAreAsts /\ VP!MaxRoundsIsPositive
BY ProgramsAreAsts, SameTrees DEF VP!ProgramsAreAsts, VP!MaxRoundsIsPositive

LEMMA InitCInv == Init => CInv
<1> SUFFICES ASSUME Init
    PROVE  CInv
  OBVIOUS
<1>1. VP!IInv
  BY Assumptions, SameValidatorInit, VP!InitInv DEF Init
<1>2. IsAst(ast)
  BY ProgramsAreAsts DEF Init, Validation!Init
<1>3. GP!GInv
  BY <1>2, SameTrees, SameGeneratorInit, GP!Initial DEF Init
<1>4. VP!AcceptInv
  BY Assumptions, SameValidatorInit, VP!AcceptInit DEF Init
<1>5. HandOver
  BY DEF Init, Generation!Init, HandOver, Waiting, GP!Unchecked
<1> QED BY <1>1, <1>3, <1>4, <1>5 DEF Init, CInv, PhaseInv, NoExitCode

LEMMA ValidatorRests ==
  ASSUME CInv, UNCHANGED << ast, result_type, validator >>
  PROVE  VP!IInv' /\ VP!AcceptInv'
<1>1. UNCHANGED VP!vars
  BY DEF VP!vars, validator
<1>2. VP!IInv'
  BY <1>1, Assumptions, VP!StepInv DEF CInv
<1>3. VP!AcceptInv'
  BY <1>1, Assumptions, VP!StepAccepts DEF CInv
<1> QED BY <1>2, <1>3

LEMMA GeneratorRests ==
  ASSUME CInv, ast' = ast, UNCHANGED generator
  PROVE  GP!GInv'
BY GP!SameState DEF CInv, generator

LEMMA SameCheck ==
  ASSUME ast' = ast, NEW seen, GP!Checked(ast, seen)
  PROVE  GP!Checked(ast, seen)'
OBVIOUS

LEMMA CheckedRests ==
  ASSUME CInv, UNCHANGED << ast, result_type, validator, generator >>,
         NEW seen, GP!Checked(ast, seen), GP!NumbersInv(seen)
  PROVE  GP!Checked(ast, seen)' /\ GP!NumbersInv(seen)'
<1>1. UNCHANGED GP!vars
  BY DEF GP!vars, generator
<1>2. GP!NumbersInv(seen)'
  BY <1>1, GP!NumbersStay DEF CInv
<1> QED BY <1>2, SameCheck

LEMMA HandOverRests ==
  ASSUME CInv, UNCHANGED << ast, result_type, validator, generator >>, phase' \in {phase, "done"}
  PROVE  HandOver'
<1>1. phase' \in {"parse", "validate"} => Waiting'
  BY DEF CInv, HandOver, Waiting, generator
<1>2. outcome' \notin GP!Unchecked
  BY DEF CInv, HandOver, generator, GP!Unchecked
<1>3. ASSUME phase' = "generate"
      PROVE  \E seen : GP!Checked(ast, seen)' /\ GP!NumbersInv(seen)'
  <2>1. PICK seen : GP!Checked(ast, seen) /\ GP!NumbersInv(seen)
    BY <1>3 DEF CInv, HandOver
  <2> QED BY <2>1, CheckedRests
<1> QED BY <1>1, <1>2, <1>3 DEF HandOver, GP!Unchecked

\* A tree without errors is one the generator can be given.
LEMMA AcceptedTrees ==
  ASSUME CInv, phase = "validate", Validated, errors = << >>
  PROVE  \E seen : GP!Checked(ast, seen) /\ GP!NumbersInv(seen)
<1>1. VP!LetThrough
  BY DEF VP!LetThrough, Validated, Validation!Running, VP!Running
<1>2. PICK seen : VP!Checked(ast, seen)
  BY <1>1, Assumptions, VP!AcceptedChecks DEF CInv
<1>3. GP!Checked(ast, seen)
  BY <1>2, SameChecks
<1>4. GP!NumbersInv(seen)
  BY GP!NumbersIdle DEF CInv, HandOver, Waiting
<1> QED BY <1>3, <1>4

\* The tree that is generated from stays as checked as it was.
LEMMA GeneratingInv ==
  ASSUME CInv, generating
  PROVE  CInv'
<1>1. GP!Next /\ phase = "generate" /\ UNCHANGED << validator, phase, exit_code >>
  BY SameGeneratorNext DEF generating
<1>2. GP!GInv'
  BY <1>1, GP!Inductive DEF CInv
<1>3. UNCHANGED << ast, result_type >>
  BY <1>1, GP!TreeStays
<1>4. PICK seen : GP!Checked(ast, seen) /\ GP!NumbersInv(seen)
  BY <1>1 DEF CInv, HandOver
<1>5. GP!NumbersInv(seen)'
  BY <1>1, <1>4, GP!NumbersStay DEF CInv
<1>6. GP!Checked(ast, seen)'
  BY <1>3, <1>4, SameCheck
<1>7. outcome' \notin GP!Unchecked
  BY <1>5 DEF GP!NumbersInv
<1>8. HandOver'
  BY <1>1, <1>5, <1>6, <1>7 DEF HandOver, GP!Unchecked
<1> QED BY <1>1, <1>2, <1>3, <1>8, ValidatorRests DEF CInv, PhaseInv

LEMMA StepCInv == CInv /\ [Next]_vars => CInv'
<1> SUFFICES ASSUME CInv, [Next]_vars
    PROVE  CInv'
  OBVIOUS
<1>1. ASSUME UNCHANGED << ast, result_type, validator, generator >>, PhaseInv', HandOver'
      PROVE  CInv'
  BY <1>1, ValidatorRests, GeneratorRests DEF CInv
<1>2. CASE parse
  <2>1. PhaseInv'
    BY <1>2 DEF parse, Return, CInv, PhaseInv, NoExitCode
  <2>2. HandOver'
    BY <1>2 DEF parse, Return, generator, CInv, HandOver, Waiting, GP!Unchecked
  <2> QED BY <1>1, <1>2, <2>1, <2>2 DEF parse
<1>3. CASE validating
  <2>1. /\ VP!Next /\ phase = "validate"
        /\ UNCHANGED << generator, phase, exit_code >>
    BY <1>3, SameValidatorNext DEF validating
  <2>2. VP!IInv' /\ VP!AcceptInv'
    BY <2>1, Assumptions, VP!StepInv, VP!StepAccepts DEF CInv
  <2>3. ast' = ast
    BY <2>1, Assumptions, VP!TreeStays
  <2>4. HandOver'
    BY <2>1 DEF generator, CInv, HandOver, Waiting, GP!Unchecked
  <2> QED BY <2>1, <2>2, <2>3, <2>4, GeneratorRests DEF CInv, PhaseInv
<1>4. CASE validated
  <2>1. PhaseInv'
    BY <1>4 DEF validated, Return, CInv, PhaseInv, NoExitCode
  <2>2. phase' # "generate" \/ errors = << >>
    BY <1>4 DEF validated, Return
  <2>3. CASE phase' = "done"
    <3>1. HandOver'
      BY <1>4, <2>3, HandOverRests DEF validated
    <3> QED BY <1>1, <1>4, <2>1, <3>1 DEF validated
  <2>4. CASE phase' = "generate"
    <3>1. PICK seen : GP!Checked(ast, seen) /\ GP!NumbersInv(seen)
      BY <1>4, <2>2, <2>4, AcceptedTrees DEF validated
    <3>2. GP!Checked(ast, seen)' /\ GP!NumbersInv(seen)'
      BY <1>4, <3>1, CheckedRests DEF validated
    <3>3. outcome' \notin GP!Unchecked
      BY <1>4 DEF validated, generator, CInv, HandOver, GP!Unchecked
    <3>4. HandOver'
      BY <2>4, <3>2, <3>3 DEF HandOver, GP!Unchecked
    <3> QED BY <1>1, <1>4, <2>1, <3>4 DEF validated
  <2> QED BY <1>4, <2>3, <2>4 DEF validated, Return
<1>5. CASE generating
  BY <1>5, GeneratingInv
<1>6. CASE generated
  <2>1. /\ UNCHANGED << ast, result_type, validator, generator >>
        /\ \E code \in {0, 1} : Return(code)
    BY <1>6 DEF generated
  <2>2. PhaseInv'
    BY <2>1 DEF Return, PhaseInv, NoExitCode
  <2>3. HandOver'
    BY <2>1, HandOverRests DEF Return
  <2> QED BY <1>1, <2>1, <2>2, <2>3
<1>7. CASE UNCHANGED vars
  <2>1. /\ UNCHANGED << ast, result_type, validator, generator >>
        /\ phase' = phase /\ PhaseInv'
    BY <1>7 DEF vars, CInv, PhaseInv
  <2> QED BY <1>1, <2>1, HandOverRests
<1> QED BY <1>2, <1>3, <1>4, <1>5, <1>6, <1>7 DEF Next

\* The invariants of both phases hold throughout compile, and the generator is
\* given only what the validator has checked.
THEOREM Invariance == Spec => []CInv
BY InitCInv, StepCInv, PTL DEF Spec

\* Both phases keep their types, whatever the program, and compile returns a
\* code exactly when it is done.
THEOREM TypeCorrect == Spec => []TypeOK
<1>1. CInv => TypeOK
  <2> SUFFICES ASSUME CInv
      PROVE  TypeOK
    OBVIOUS
  <2>1. VP!TypeOK
    BY Assumptions, VP!WellTyped DEF CInv
  <2>2. GP!TypeOK
    BY GP!WellTyped DEF CInv
  <2> QED BY <2>1, <2>2, SameValidatorTypes, SameGeneratorTypes DEF CInv, PhaseInv, TypeOK
<1> QED BY <1>1, Invariance, PTL

\* Whatever the program, once the Validator has let it through, the generator
\* runs with as many arguments as each function takes, with numbers wherever
\* it computes, passes or branches, and with every value it asks for.
THEOREM OtherFailuresExcluded == Spec => []OnlyNamesFail
<1>1. CInv => OnlyNamesFail
  <2> SUFFICES ASSUME CInv
      PROVE  OnlyNamesFail
    OBVIOUS
  <2>1. outcome \notin {"no value", "not a constant", "undefined behaviour"}
    BY DEF CInv, GP!GInv, GP!RecordsInv
  <2>2. outcome \notin {"argument count", "invalid condition"}
    BY DEF CInv, HandOver, GP!Unchecked
  <2> QED BY <2>1, <2>2 DEF OnlyNamesFail
<1> QED BY <1>1, Invariance, PTL

-------------------------------------------------------------------------------
(* What a module looks like to verifyModule. *)

LEMMA NodeLists ==
  ASSUME IsAst(ast), NEW n \in DOMAIN ast.nodes
  PROVE  at(n).params \in Seq(Nat) /\ at(n).body \in Seq(Nat) /\ at(n).orelse \in Seq(Nat)
<1>1. ast.nodes \in Seq(AstNode)
  BY DEF IsAst
<1>2. ast.nodes[n] \in AstNode
  BY <1>1
<1> QED BY <1>2 DEF at, AstNode

LEMMA Scopes ==
  ASSUME NEW n \in DOMAIN ast.nodes
  PROVE  /\ at(n).kind = "FunctionDeclaration" => at(n).params \o at(n).body \in ScopeLists(ast)
         /\ at(n).kind = "If" => at(n).body \in ScopeLists(ast) /\ at(n).orelse \in ScopeLists(ast)
BY DEF ScopeLists, is_function, at

\* The arguments come before the body in a function's scope.
LEMMA Shifted ==
  ASSUME NEW p \in Seq(Nat), NEW b \in Seq(Nat), NEW i \in 1 .. Len(b) - 1
  PROVE  \E j \in 1 .. Len(p \o b) - 1 : (p \o b)[j] = b[i]
<1>1. /\ Len(p \o b) = Len(p) + Len(b) /\ Len(p) \in Nat /\ Len(b) \in Nat
      /\ (p \o b)[Len(p) + i] = b[i]
  OBVIOUS
<1>2. Len(p) + i \in 1 .. Len(p \o b) - 1
  BY <1>1
<1> QED BY <1>1, <1>2

LEMMA EarlyReturns ==
  ASSUME IsAst(ast), GP!LeavesEarly(ast)
  PROVE  AfterReturn
<1>1. PICK n \in DOMAIN ast.nodes :
        \/ /\ at(n).kind \in {"FunctionDeclaration", "If"}
           /\ \E i \in 1 .. Len(at(n).body) - 1 : at(at(n).body[i]).kind = "FunctionReturn"
        \/ /\ at(n).kind = "If"
           /\ \E i \in 1 .. Len(at(n).orelse) - 1 : at(at(n).orelse[i]).kind = "FunctionReturn"
  BY DEF GP!LeavesEarly, GP!ReturnsEarly, at
<1>2. ASSUME NEW list \in ScopeLists(ast),
             NEW i \in 1 .. Len(list) - 1, at(list[i]).kind = "FunctionReturn"
      PROVE  AfterReturn
  BY <1>2 DEF AfterReturn
<1>3. CASE /\ at(n).kind = "FunctionDeclaration"
           /\ \E i \in 1 .. Len(at(n).body) - 1 : at(at(n).body[i]).kind = "FunctionReturn"
  <2> DEFINE p == at(n).params
             b == at(n).body
  <2>1. p \in Seq(Nat) /\ b \in Seq(Nat) /\ p \o b \in ScopeLists(ast)
    BY <1>3, NodeLists, Scopes
  <2>2. PICK i \in 1 .. Len(b) - 1 : at(b[i]).kind = "FunctionReturn"
    BY <1>3
  <2>3. PICK j \in 1 .. Len(p \o b) - 1 : (p \o b)[j] = b[i]
    BY <2>1, Shifted
  <2> QED BY <1>2, <2>1, <2>2, <2>3
<1>4. CASE at(n).kind = "If"
  BY <1>1, <1>2, <1>4, Scopes
<1> QED BY <1>1, <1>3, <1>4

\* However the branches of nested ifs return or go on, the module verifyModule
\* is given has a terminator at the end of every block, and one inside a block
\* only where a statement follows a return.
THEOREM ClosedBlocks == Spec => []BlocksAreClosed
<1>1. CInv => BlocksAreClosed
  <2> SUFFICES ASSUME CInv, outcome \in {"verified", "verification failed"}
      PROVE  /\ \A b \in DOMAIN blocks : blocks[b].ended
             /\ (\E b \in DOMAIN blocks : blocks[b].broken) => AfterReturn
    BY DEF BlocksAreClosed
  <2>1. IsAst(ast)
    BY SameTrees DEF CInv, GP!GInv
  <2> QED BY <2>1, GP!BlocksEnd, EarlyReturns DEF CInv
<1> QED BY <1>1, Invariance, PTL

-------------------------------------------------------------------------------
(* The names.  What the validator found them to mean and what the generator *)
(* finds, where each stands in the tree.                                   *)

LEMMA SameScopes ==
  ASSUME NEW tree
  PROVE  VP!ScopeLists(tree) = ScopeLists(tree)
BY Zenon DEF ScopeLists, is_function, VP!ScopeLists, VP!is_function

LEMMA SameFirst ==
  ASSUME NEW tree
  PROVE  VP!FirstOf(tree) = FirstOf(tree) /\ GP!FirstOf(tree) = FirstOf(tree)
BY Zenon DEF FirstOf, Children, VP!FirstOf, VP!Children, GP!FirstOf, GP!Children

LEMMA SameUnder ==
  ASSUME NEW tree, NEW n, NEW m
  PROVE  (VP!Under(tree, n, m) <=> Under(tree, n, m)) /\ (GP!Under(tree, n, m) <=> Under(tree, n, m))
BY ZenonT(30), SameFirst DEF Under, VP!Under, GP!Under

LEMMA SameEnclosing ==
  ASSUME NEW tree, NEW n
  PROVE  VP!EnclosingFunction(tree, n) = EnclosingFunction(tree, n)
BY Zenon DEF EnclosingFunction, is_function, Under, FirstOf, Children,
   VP!EnclosingFunction, VP!is_function, VP!Under, VP!FirstOf, VP!Children

LEMMA SameFunctions ==
  ASSUME NEW tree, NEW x
  PROVE  VP!Functions(tree, x) = GP!Functions(tree, x)
BY Zenon DEF VP!Functions, VP!is_function, VP!InTop, GP!Functions, GP!is_function, GP!InTop

LEMMA SameStored ==
  ASSUME NEW f, NEW n
  PROVE  VP!Stored(f, n) = GP!Before(ast, f, n)
<1>1. ASSUME NEW d
      PROVE  d \in VP!Stored(f, n) <=> d \in GP!Before(ast, f, n)
  BY SameUnder, SameFirst DEF VP!Stored, VP!at, GP!Before, GP!Storage
<1> QED BY <1>1 DEF VP!Stored, GP!Before, GP!Storage

LEMMA SameLast ==
  ASSUME NEW n, NEW d, GP!FoundAs(ast, n, d)
  PROVE  VP!LastStored(n, d)
<1>1. PICK f \in DOMAIN ast.nodes :
        GP!is_function(ast.nodes[f]) /\ GP!Under(ast, n, f) /\ GP!Latest(GP!Before(ast, f, n), d)
  BY DEF GP!FoundAs
<1>2. VP!is_function(VP!at(f)) /\ VP!Under(ast, n, f)
  BY <1>1, SameUnder DEF VP!is_function, VP!at, GP!is_function
<1>3. VP!Stored(f, n) = GP!Before(ast, f, n)
  BY SameStored
<1>4. IF VP!Stored(f, n) = {} THEN d = VP!NoNode
      ELSE d \in VP!Stored(f, n) /\ \A e \in VP!Stored(f, n) : e <= d
  BY <1>1, <1>3 DEF GP!Latest, GP!NoNode, VP!NoNode
<1> QED BY <1>1, <1>2, <1>4 DEF VP!LastStored

\* A declaration left over from an ended block hides the one that was meant.
LEMMA EndedHides ==
  ASSUME NEW d, NEW n, VP!Ended(d, n)
  PROVE  HiddenBy(d, n)
<1>1. /\ at(d).kind = "VariableDeclaration" /\ at(d).name = at(n).name /\ d < n
      /\ EnclosingFunction(ast, d) = EnclosingFunction(ast, n)
  BY SameEnclosing DEF VP!Ended, VP!at, at
<1>2. PICK list \in ScopeLists(ast) : d \in VP!Range(list) /\ \A m \in VP!Range(list) : ~ VP!Under(ast, n, m)
  BY SameScopes DEF VP!Ended
<1>3. d \in {list[i] : i \in DOMAIN list} /\ \A i \in DOMAIN list : ~ Under(ast, n, list[i])
  BY <1>2, SameUnder DEF VP!Range
<1> QED BY <1>1, <1>2, <1>3 DEF HiddenBy, OutOfScope
-------------------------------------------------------------------------------
(* The types of the values: what the generator made of the names it found. *)

LEMMA SameNames ==
  ASSUME NEW tree, NEW n
  PROVE  VP!Resolve(tree, n) = Resolve(tree, n)
BY ZenonT(30)
   DEF Resolve, InForce, Known, Declarations, Declaration, FirstDeclared, Precedes, ScopeLists, Range, Under,
       FirstOf, Children, is_function, NoNode,
       VP!Resolve, VP!InForce, VP!Known, VP!Declarations, VP!Declaration, VP!FirstDeclared, VP!Precedes,
       VP!ScopeLists, VP!Range, VP!Under, VP!FirstOf, VP!Children, VP!is_function, VP!NoNode

LEMMA SameFirstInScope ==
  ASSUME NEW tree, NEW n
  PROVE  VP!FirstInScope(tree, n) <=> FirstInScope(tree, n)
BY ZenonT(30)
   DEF FirstInScope, Declarations, Declaration, FirstDeclared, Precedes, ScopeLists, Range, is_function,
       VP!FirstInScope, VP!Declarations, VP!Declaration, VP!FirstDeclared, VP!Precedes, VP!ScopeLists, VP!Range,
       VP!is_function

LEMMA SameStaticTypes ==
  ASSUME NEW tree
  PROVE  VP!TypesOf(tree) = TypesOf(tree)
BY ZenonT(30)
   DEF Resolve, InForce, Known, Declarations, Declaration, FirstDeclared, Precedes, ScopeLists, Range, Under,
       FirstOf, Children, VP!Resolve, VP!InForce, VP!Known, VP!Declarations, VP!Declaration, VP!FirstDeclared,
       VP!Precedes, VP!ScopeLists, VP!Range, VP!Under, VP!FirstOf, VP!Children,
       TypesOf, DeclaredType, is_function, initial_type, Literal, Arithmetic, Comparison, Logical,
       convert_arithmetic_types, same_family, is_numeric_comparison_compatible, is_numeric, is_signed_int,
       is_unsigned_int, is_float, ConstType, NoNode, NoType, UNDEF, BOOL, CONST_INT, CONST_UINT, CONST_FLOAT,
       INT64, UINT64, FLOAT64,
       VP!TypesOf, VP!DeclaredType, VP!is_function, VP!initial_type, VP!Literal, VP!Arithmetic, VP!Comparison,
       VP!Logical, VP!convert_arithmetic_types, VP!same_family, VP!is_numeric_comparison_compatible,
       VP!is_numeric, VP!is_signed_int, VP!is_unsigned_int, VP!is_float, VP!ConstType, VP!NoNode, VP!NoType,
       VP!UNDEF, VP!BOOL, VP!CONST_INT, VP!CONST_UINT, VP!CONST_FLOAT, VP!INT64, VP!UINT64, VP!FLOAT64

LEMMA SameRules ==
  ASSUME NEW tree, NEW types, NEW n
  PROVE  VP!LegalNode(tree, types, n) <=> LegalNode(tree, types, n)
BY ZenonT(30), SameNames, SameFirstInScope, SameEnclosing
   DEF LegalNode, Declaration, has_value, is_function, check_type_assignment, is_assignment_compatible,
       same_family, is_signed_int, is_unsigned_int, is_float, ConstType, NoNode, NoType, UNDEF, BOOL, CONST_INT,
       CONST_UINT, CONST_FLOAT, INT64, UINT64, FLOAT64,
       VP!LegalNode, VP!Declaration, VP!has_value, VP!is_function, VP!check_type_assignment,
       VP!is_assignment_compatible, VP!same_family, VP!is_signed_int, VP!is_unsigned_int, VP!is_float,
       VP!ConstType, VP!NoNode, VP!NoType, VP!UNDEF, VP!BOOL, VP!CONST_INT, VP!CONST_UINT, VP!CONST_FLOAT,
       VP!INT64, VP!UINT64, VP!FLOAT64

LEMMA SameLegal == VP!Legal(ast) <=> Legal(ast)
BY SameStaticTypes, SameRules DEF Legal, VP!Legal

\* The type of the value of node n, by those of the nodes before it.
ValueTypeOf(f, n) ==
    CASE at(n).kind \in Literal -> Generation!literal_value(n).type
      [] at(n).kind = "VariableLookup" -> primitive_to_llvm_type(DeclaredType(ast, uses[n]))
      [] at(n).kind = "FunctionCall" -> primitive_to_llvm_type(at(uses[n]).type)
      [] at(n).kind \in {"BinaryOp", "UnaryOp"} ->
           IF at(n).op \in Comparison THEN "i1" ELSE f[at(n).operands[1]]
      [] OTHER -> "void"

LEMMA SameLiterals ==
  ASSUME NEW n
  PROVE  Generation!literal_value(n) = GP!literal_value(n)
BY ZenonT(30)
   DEF Generation!literal_value, Generation!node_at, Generation!constant, Generation!constant_integer_type,
       Generation!constant_unsigned_type, Generation!SizedInteger, Generation!primitive_to_llvm_type,
       Generation!INT, Generation!INT8, Generation!INT16, Generation!INT32, Generation!INT64, Generation!UINT,
       Generation!UINT8, Generation!UINT16, Generation!UINT32, Generation!UINT64, Generation!CONST_INT,
       Generation!CONST_UINT, Generation!CONST_FLOAT, Generation!FLOAT16, Generation!FLOAT32, Generation!FLOAT64,
       Generation!BOOL, Generation!UNDEF,
       GP!literal_value, GP!node_at, GP!constant, GP!constant_integer_type, GP!constant_unsigned_type,
       GP!SizedInteger, GP!primitive_to_llvm_type, GP!INT, GP!INT8, GP!INT16, GP!INT32, GP!INT64, GP!UINT,
       GP!UINT8, GP!UINT16, GP!UINT32, GP!UINT64, GP!CONST_INT, GP!CONST_UINT, GP!CONST_FLOAT, GP!FLOAT16,
       GP!FLOAT32, GP!FLOAT64, GP!BOOL, GP!UNDEF

LEMMA SameAllocations ==
  ASSUME NEW n
  PROVE  GP!allocated_type(n) = primitive_to_llvm_type(at(n).type)
BY ZenonT(30)
   DEF GP!allocated_type, GP!node_at, at, primitive_to_llvm_type, INT, INT8, INT16, INT32, INT64, UINT, UINT8,
       UINT16, UINT32, UINT64, CONST_INT, CONST_UINT, CONST_FLOAT, FLOAT16, FLOAT32, FLOAT64, BOOL, UNDEF,
       GP!primitive_to_llvm_type, GP!INT, GP!INT8, GP!INT16, GP!INT32, GP!INT64, GP!UINT, GP!UINT8, GP!UINT16,
       GP!UINT32, GP!UINT64, GP!CONST_INT, GP!CONST_UINT, GP!CONST_FLOAT, GP!FLOAT16, GP!FLOAT32, GP!FLOAT64,
       GP!BOOL, GP!UNDEF

LEMMA SameValueTypes ==
  ASSUME IsAst(ast), NEW n \in DOMAIN ast.nodes, NEW t, GP!Answered(n)
  PROVE  GP!ValueTypeAt(t, n) = ValueTypeOf(t, n)
<1>1. GP!node_at(n) = at(n) /\ Literal = GP!Literal /\ Comparison = GP!Comparison
  BY DEF GP!node_at, at, Literal, GP!Literal, Comparison, GP!Comparison
<1>2. CASE at(n).kind = "VariableLookup"
  <2>1. uses[n] \in DOMAIN ast.nodes /\ at(uses[n]).kind \in {"VariableDeclaration", "Argument"}
    BY <1>1, <1>2 DEF GP!Answered, GP!Storage, at
  <2>2. uses[n] # NoNode
    BY <2>1, SameTrees, GP!TreeFacts DEF NoNode
  <2>3. DeclaredType(ast, uses[n]) = at(uses[n]).type
    BY <2>1, <2>2 DEF DeclaredType, is_function, at
  <2> QED BY <1>1, <1>2, <2>3, SameAllocations DEF GP!ValueTypeAt, ValueTypeOf, Literal
<1>3. CASE at(n).kind = "FunctionCall"
  BY <1>1, <1>3, SameAllocations DEF GP!ValueTypeAt, ValueTypeOf, Literal
<1>4. CASE at(n).kind \in Literal
  <2>1. at(n).kind \notin {"VariableLookup", "FunctionCall", "BinaryOp", "UnaryOp"}
    BY <1>4 DEF Literal
  <2> QED BY <1>1, <1>4, <2>1, SameLiterals DEF GP!ValueTypeAt, ValueTypeOf
<1>5. CASE at(n).kind \in {"BinaryOp", "UnaryOp"}
  BY <1>1, <1>5 DEF GP!ValueTypeAt, ValueTypeOf, Literal
<1>6. CASE at(n).kind \notin Literal \cup {"VariableLookup", "FunctionCall", "BinaryOp", "UnaryOp"}
  BY <1>1, <1>6 DEF GP!ValueTypeAt, ValueTypeOf
<1> QED BY <1>2, <1>3, <1>4, <1>5, <1>6

\* There is one such function, and ValueTypes is it.
LEMMA ValueTypesAre ==
  ASSUME IsAst(ast), NEW t, t = [n \in DOMAIN ast.nodes |-> ValueTypeOf(t, n)],
         NEW k \in DOMAIN ast.nodes
  PROVE  ValueTypes(uses)[k] = t[k]
<1> DEFINE Body(f) == [n \in DOMAIN ast.nodes |-> ValueTypeOf(f, n)]
           types == ValueTypes(uses)
           T == {n \in DOMAIN ast.nodes : types[n] # t[n]}
<1>1. \E F : F = Body(F)
  OBVIOUS
<1>2. types = CHOOSE f : f = Body(f)
  BY DEF ValueTypes, ValueTypeOf
<1>3. types = Body(types)
  <2> HIDE DEF Body, types
  <2> QED BY Zenon, <1>1, <1>2
<1> HIDE DEF types
<1>4. \A n \in DOMAIN ast.nodes : types[n] = ValueTypeOf(types, n) /\ t[n] = ValueTypeOf(t, n)
  BY <1>3
<1>5. ASSUME T # {}
      PROVE  FALSE
  <2>1. T \subseteq Nat
    BY SameTrees, GP!TreeFacts
  <2>2. PICK n \in T : \A m \in T : n <= m
    BY <1>5, <2>1, GP!Least
  <2>3. n \in DOMAIN ast.nodes /\ types[n] # t[n]
    OBVIOUS
  <2>4. CASE at(n).kind \in {"BinaryOp", "UnaryOp"}
    <3>1. /\ at(n).operands[1] \in DOMAIN ast.nodes /\ at(n).operands[1] \in Nat
          /\ at(n).operands[1] < n /\ n \in Nat
      BY <2>3, <2>4, SameTrees, GP!OperatorFacts, GP!TreeFacts DEF at
    <3>2. types[at(n).operands[1]] = t[at(n).operands[1]]
      BY <2>2, <3>1
    <3>3. ValueTypeOf(types, n) = ValueTypeOf(t, n)
      BY <2>4, <3>2 DEF ValueTypeOf, Literal
    <3> QED BY <1>4, <2>3, <3>3
  <2>5. CASE at(n).kind \notin {"BinaryOp", "UnaryOp"}
    <3>1. ValueTypeOf(types, n) = ValueTypeOf(t, n)
      BY <2>5 DEF ValueTypeOf
    <3> QED BY <1>4, <2>3, <3>1
  <2> QED BY <2>4, <2>5
<1> QED BY <1>5 DEF types

LEMMA VerifiedFits ==
  ASSUME GP!GInv, GP!TypesInv, GP!VerifiedInv, outcome = "verified"
  PROVE  CallsAndReturnsFit(uses, ValueTypes(uses))
<1>1. IsAst(ast)
  BY SameTrees DEF GP!GInv
<1>2. PICK t : /\ t = [n \in DOMAIN ast.nodes |-> t[n]]
               /\ \A n \in DOMAIN ast.nodes :
                    t[n] = GP!ValueTypeAt(t, n) /\ GP!Answered(n) /\ GP!FitsItsPlace(t, n)
  BY GP!VerifiedTypes
<1>3. \A n \in DOMAIN ast.nodes : t[n] = ValueTypeOf(t, n)
  BY <1>1, <1>2, SameValueTypes
<1>4. t = [n \in DOMAIN ast.nodes |-> ValueTypeOf(t, n)]
  BY <1>2, <1>3
<1> DEFINE types == ValueTypes(uses)
<1>5. \A n \in DOMAIN ast.nodes : types[n] = t[n]
  BY <1>1, <1>4, ValueTypesAre
<1> HIDE DEF types
<1>6. ASSUME NEW n \in DOMAIN ast.nodes, at(n).kind = "FunctionCall"
      PROVE  /\ at(uses[n]).type # UNDEF
             /\ \A i \in DOMAIN at(uses[n]).params :
                  types[at(n).operands[i]] = primitive_to_llvm_type(at(at(uses[n]).params[i]).type)
  <2>1. /\ GP!allocated_type(uses[n]) # "void"
        /\ \A i \in DOMAIN at(uses[n]).params :
             t[at(n).operands[i]] = GP!allocated_type(at(uses[n]).params[i])
    BY <1>2, <1>6 DEF GP!FitsItsPlace, GP!node_at, at
  <2>2. primitive_to_llvm_type(at(uses[n]).type) # "void"
    BY <2>1, SameAllocations
  <2>3. at(uses[n]).type # UNDEF
    BY <2>2 DEF primitive_to_llvm_type, UNDEF, INT, INT8, INT16, INT32, INT64, UINT, UINT8, UINT16, UINT32,
       UINT64, CONST_INT, CONST_UINT, CONST_FLOAT, FLOAT16, FLOAT32, FLOAT64, BOOL
  <2>4. /\ uses[n] \in DOMAIN ast.nodes /\ Len(at(uses[n]).params) = Len(at(n).operands)
        /\ at(n).operands \in Seq(Nat) /\ at(uses[n]).params \in Seq(Nat)
    <3>1. uses[n] \in DOMAIN ast.nodes /\ Len(at(uses[n]).params) = Len(at(n).operands)
      BY <1>2, <1>6 DEF GP!Answered, GP!Functions, GP!node_at, at
    <3>2. ast.nodes[n] \in AstNode
      BY <1>1 DEF IsAst
    <3> QED BY <1>1, <3>1, <3>2, NodeLists DEF at, AstNode
  <2>5. ASSUME NEW i \in DOMAIN at(uses[n]).params
        PROVE  types[at(n).operands[i]] = primitive_to_llvm_type(at(at(uses[n]).params[i]).type)
    <3>1. i \in DOMAIN GP!node_at(n).operands
      BY <2>4 DEF GP!node_at, at
    <3>2. at(n).operands[i] \in DOMAIN ast.nodes
      BY <1>1, <3>1, SameTrees, GP!OperandsBefore DEF GP!node_at, at
    <3> QED BY <1>5, <2>1, <3>2, SameAllocations
  <2> QED BY <2>3, <2>5
<1>7. ASSUME NEW n \in DOMAIN ast.nodes, at(n).kind = "FunctionReturn", has_value(at(n))
      PROVE  types[at(n).operands[1]] = primitive_to_llvm_type(at(EnclosingFunction(ast, n)).type)
  <2>1. PICK f \in DOMAIN ast.nodes :
          GP!is_function(GP!node_at(f)) /\ GP!Under(ast, n, f) /\ t[at(n).operands[1]] = GP!allocated_type(f)
    BY <1>2, <1>7 DEF GP!FitsItsPlace, GP!node_at, at, GP!has_value, has_value
  <2>2. VP!is_function(VP!at(f)) /\ VP!Under(ast, n, f) /\ VP!IsAst(ast)
    BY <1>1, <2>1, SameUnder, SameTrees DEF VP!is_function, VP!at, GP!is_function, GP!node_at
  <2>3. VP!EnclosingFunction(ast, n) = f
    BY <2>2, Assumptions, VP!Enclosing
  <2>6. EnclosingFunction(ast, n) = f
    BY <2>3, SameEnclosing
  <2>4. 1 \in DOMAIN GP!node_at(n).operands
    BY <1>1, <1>7, SameTrees, GP!OperandsBefore DEF GP!node_at, at, has_value
  <2>5. at(n).operands[1] \in DOMAIN ast.nodes
    BY <1>1, <2>4, SameTrees, GP!OperandsBefore DEF GP!node_at, at
  <2> QED BY <1>5, <2>1, <2>5, <2>6, SameAllocations
<1> QED BY <1>6, <1>7 DEF CallsAndReturnsFit, types

-------------------------------------------------------------------------------
(* The generator begins with nothing found, after the validator has settled *)
(* what every name means.                                                   *)

Fresh ==
    /\ generated_function = NoNode
    /\ uses = [n \in DOMAIN ast.nodes |-> NoNode]
    /\ stores = {} /\ refused = {}

UnderWay ==
    /\ Accepted
    /\ GP!NamingInv
    /\ GP!UsesInv
    /\ GP!MissedInv
    /\ GP!TypesInv
    /\ GP!VerifiedInv
    /\ exit_code = 0 => outcome = "verified"

Begun == phase \in {"generate", "done"} /\ UnderWay

NamesInv ==
    /\ VP!ScopingInv
    /\ VP!VerdictInv
    /\ \/ phase # "generate" /\ exit_code # 0 /\ Waiting /\ Fresh
       \/ Begun

LEMMA Meant ==
  ASSUME CInv, VP!ScopingInv, Accepted
  PROVE  VP!Settled
<1>1. VP!Validated /\ VP!Accepted
  BY DEF Accepted, Validated, Validation!Running, VP!Validated, VP!Running, VP!Accepted
<1> QED BY <1>1, Assumptions, VP!Settles DEF CInv

LEMMA Distinct ==
  ASSUME CInv, VP!Settled
  PROVE  GP!DistinctArguments(ast)
<1>1. ASSUME NEW f \in DOMAIN ast.nodes, GP!is_function(ast.nodes[f]),
             NEW i \in DOMAIN ast.nodes[f].params, NEW j \in DOMAIN ast.nodes[f].params,
             ast.nodes[ast.nodes[f].params[i]].name = ast.nodes[ast.nodes[f].params[j]].name
      PROVE  ast.nodes[f].params[i] = ast.nodes[f].params[j]
  <2>1. /\ VP!is_function(VP!at(f))
        /\ i \in DOMAIN VP!at(f).params /\ j \in DOMAIN VP!at(f).params
        /\ VP!at(VP!at(f).params[i]).name = VP!at(VP!at(f).params[j]).name
    BY <1>1 DEF VP!at, VP!is_function, GP!is_function
  <2>2. VP!at(f).params[i] = VP!at(f).params[j]
    BY <1>1, <2>1, Assumptions, VP!ArgumentsDiffer DEF CInv
  <2> QED BY <2>2 DEF VP!at
<1> QED BY <1>1 DEF GP!DistinctArguments

LEMMA NamesInit == Init => NamesInv
<1> SUFFICES ASSUME Init PROVE NamesInv
  OBVIOUS
<1>1. VP!ScopingInv
  BY Assumptions, SameValidatorInit, VP!ScopingInit DEF Init
<1>2. VP!VerdictInv
  BY Assumptions, SameValidatorInit, VP!VerdictInit DEF Init
<1>3. phase # "generate" /\ exit_code # 0 /\ Waiting /\ Fresh
  BY DEF Init, Generation!Init, Generation!NoNode, NoNode, NoExitCode, Waiting, Fresh
<1> QED BY <1>1, <1>2, <1>3 DEF NamesInv

LEMMA ScopingRests ==
  ASSUME CInv, VP!ScopingInv, VP!VerdictInv, UNCHANGED << ast, result_type, validator >>
  PROVE  VP!ScopingInv' /\ VP!VerdictInv'
<1>1. UNCHANGED VP!vars
  BY DEF VP!vars, validator
<1>2. VP!IInv'
  BY ValidatorRests
<1> QED BY <1>1, <1>2, Assumptions, VP!ScopingStep, VP!VerdictInvStep DEF CInv

\* A generator that has begun goes on, and finds what is there.
LEMMA GoesOn ==
  ASSUME CInv, VP!ScopingInv, VP!VerdictInv, UnderWay, [GP!Next]_(GP!vars),
         UNCHANGED validator, phase' \in {"generate", "done"}, exit_code' = 0 => outcome' = "verified"
  PROVE  VP!ScopingInv' /\ VP!VerdictInv' /\ Begun'
<1>1. UNCHANGED << ast, result_type >>
  BY GP!TreeStays DEF GP!vars
<1>2. VP!ScopingInv' /\ VP!VerdictInv'
  BY <1>1, ScopingRests
<1>3. GP!DistinctArguments(ast)
  BY Meant, Distinct DEF UnderWay
<1>4. GP!NamingInv'
  BY <1>3, GP!NamingStays DEF UnderWay, CInv
<1>5. GP!UsesInv' /\ GP!MissedInv'
  BY GP!FoundStays DEF UnderWay, CInv
<1>6. Accepted'
  BY <1>1 DEF UnderWay, Accepted, Validated, Validation!Running, validator
<1>7. GP!TypesInv' /\ GP!VerifiedInv'
  BY GP!TypesStay, GP!VerifiedStays DEF UnderWay, CInv
<1> QED BY <1>2, <1>4, <1>5, <1>6, <1>7 DEF UnderWay, Begun

LEMMA Begins ==
  ASSUME CInv, VP!ScopingInv, Waiting, Fresh
  PROVE  GP!NamingInv /\ GP!UsesInv /\ GP!MissedInv /\ GP!TypesInv /\ GP!VerifiedInv
<1>1. GP!IsAst(ast) /\ todo = << >> /\ generated_function = GP!NoNode
  BY DEF CInv, GP!GInv, Waiting, Fresh, NoNode, GP!NoNode
<1>2. GP!NamingInv
  BY <1>1, GP!NamingStarts
<1>3. GP!UsesInv /\ GP!MissedInv
  BY DEF GP!UsesInv, GP!MissedInv, Fresh, Waiting, NoNode, GP!NoNode
<1>4. GP!TypesInv /\ GP!VerifiedInv
  BY <1>1, GP!TypesStart DEF GP!VerifiedInv, Fresh, Waiting
<1> QED BY <1>2, <1>3, <1>4

LEMMA NamesStep == CInv /\ NamesInv /\ [Next]_vars /\ CInv' => NamesInv'
<1> SUFFICES ASSUME CInv, NamesInv, [Next]_vars, CInv' PROVE NamesInv'
  OBVIOUS
<1>0. VP!ScopingInv /\ VP!VerdictInv
  BY DEF NamesInv
<1>1. ASSUME UNCHANGED << ast, result_type, validator, generator >>, phase # "generate",
             phase' # "generate", exit_code' # 0, Waiting, Fresh
      PROVE  NamesInv'
  <2>1. VP!ScopingInv' /\ VP!VerdictInv'
    BY <1>0, <1>1, ScopingRests
  <2>2. Waiting' /\ Fresh'
    BY <1>1 DEF Waiting, Fresh, generator
  <2> QED BY <1>1, <2>1, <2>2 DEF NamesInv
<1>2. ASSUME UnderWay, [GP!Next]_(GP!vars), UNCHANGED validator, phase' \in {"generate", "done"},
             exit_code' = 0 => outcome' = "verified"
      PROVE  NamesInv'
  BY <1>0, <1>2, GoesOn DEF NamesInv
<1>3. CASE parse
  <2>1. /\ UNCHANGED << ast, result_type, validator, generator >>
        /\ phase = "parse" /\ phase' # "generate"
        /\ exit_code' \in {exit_code, 1}
    BY <1>3 DEF parse, Return
  <2>2. Waiting /\ Fresh /\ exit_code # 0
    BY <2>1 DEF NamesInv, Begun
  <2> QED BY <1>1, <2>1, <2>2
<1>4. CASE validating
  <2>1. /\ VP!Next /\ phase = "validate"
        /\ UNCHANGED << generator, phase, exit_code >>
    BY <1>4, SameValidatorNext DEF validating
  <2>2. ast' = ast
    BY <2>1, Assumptions, VP!TreeStays
  <2>3. VP!ScopingInv' /\ VP!VerdictInv'
    BY <1>0, <2>1, Assumptions, VP!ScopingStep, VP!VerdictInvStep DEF CInv
  <2>4. Waiting /\ Fresh /\ exit_code # 0
    BY <2>1 DEF NamesInv, Begun
  <2>5. Waiting' /\ Fresh'
    BY <2>1, <2>2, <2>4 DEF Waiting, Fresh, generator
  <2> QED BY <2>1, <2>3, <2>4, <2>5 DEF NamesInv
<1>5. CASE validated
  <2>1. /\ phase = "validate" /\ Waiting /\ Fresh /\ exit_code # 0
        /\ UNCHANGED << ast, result_type, validator, generator >>
    BY <1>5 DEF validated, NamesInv, Begun
  <2>2. CASE phase' = "done"
    <3>1. exit_code' # 0
      BY <1>5, <2>2 DEF validated, Return
    <3> QED BY <1>1, <2>1, <2>2, <3>1
  <2>3. CASE phase' = "generate"
    <3>1. Accepted /\ exit_code' = exit_code
      BY <1>5, <2>3 DEF validated, Return, Accepted
    <3>2. UnderWay
      BY <1>0, <2>1, <3>1, Begins DEF UnderWay
    <3>3. UNCHANGED GP!vars
      BY <2>1 DEF GP!vars, generator
    <3> QED BY <1>2, <2>1, <2>3, <3>1, <3>2, <3>3 DEF validator
  <2> QED BY <1>5, <2>2, <2>3 DEF validated, Return
<1>6. CASE generating
  <2>1. /\ GP!Next /\ phase = "generate" /\ phase' = phase
        /\ exit_code' = exit_code /\ UNCHANGED validator
    BY <1>6, SameGeneratorNext DEF generating
  <2>2. exit_code' # 0
    BY <2>1 DEF CInv, PhaseInv, NoExitCode
  <2> QED BY <1>2, <2>1, <2>2 DEF NamesInv, Begun
<1>7. CASE generated
  <2>1. /\ phase = "generate" /\ phase' = "done"
        /\ UNCHANGED << ast, result_type, validator, generator >>
    BY <1>7 DEF generated, Return
  <2>2. UNCHANGED GP!vars
    BY <2>1 DEF GP!vars, generator
  <2>3. outcome # "undefined behaviour"
    BY DEF CInv, GP!GInv, GP!RecordsInv
  <2>4. exit_code' = 0 => outcome' = "verified"
    <3>1. outcome' = outcome
      BY <2>1 DEF generator
    <3>2. outcome = "verified" \/ exit_code' = 1
      BY <1>7, <2>3 DEF generated, Return
    <3> QED BY <3>1, <3>2
  <2> QED BY <1>2, <2>1, <2>2, <2>4 DEF NamesInv, Begun
<1>8. CASE UNCHANGED vars
  <2>1. /\ phase' = phase /\ exit_code' = exit_code
        /\ UNCHANGED << ast, result_type, validator, generator >>
    BY <1>8 DEF vars
  <2>2. UNCHANGED GP!vars
    BY <2>1 DEF GP!vars, generator
  <2>3. CASE Begun
    <3>1. phase' \in {"generate", "done"} /\ (exit_code' = 0 => outcome' = "verified")
      BY <2>1, <2>3 DEF Begun, UnderWay, generator
    <3> QED BY <1>2, <2>1, <2>2, <2>3, <3>1 DEF Begun
  <2>4. CASE ~ Begun
    BY <1>1, <2>1, <2>4 DEF NamesInv
  <2> QED BY <2>3, <2>4
<1> QED BY <1>3, <1>4, <1>5, <1>6, <1>7, <1>8 DEF Next

\* What the generator found for a name is what the validator meant, or what it
\* meant is hidden from it.
LEMMA FoundIsMeant ==
  ASSUME CInv, VP!ScopingInv, Begun, NEW n \in DOMAIN ast.nodes
  PROVE  uses[n] \in {NoNode, resolved[n]} \/ HiddenBy(uses[n], n)
<1>1. VP!Settled
  BY Meant DEF Begun, UnderWay
<1>2. CASE uses[n] = NoNode
  BY <1>2
<1>3. CASE uses[n] # NoNode /\ ast.nodes[n].kind = "FunctionCall" /\ uses[n] \in GP!Functions(ast, ast.nodes[n].name)
  <2>1. uses[n] \in VP!Functions(ast, VP!at(n).name) /\ VP!at(n).kind = "FunctionCall"
    BY <1>3, SameFunctions DEF VP!at
  <2>2. uses[n] = resolved[n]
    BY <1>1, <2>1, Assumptions, VP!FunctionMeant DEF CInv
  <2> QED BY <2>2
<1>4. CASE uses[n] # NoNode /\ ast.nodes[n].kind \in GP!Variable /\ GP!FoundAs(ast, n, uses[n])
  <2>1. VP!LastStored(n, uses[n]) /\ VP!at(n).kind \in VP!Uses
    BY <1>4, SameLast DEF VP!at, VP!Uses, GP!Variable
  <2>2. uses[n] # VP!NoNode
    BY <1>4 DEF NoNode, VP!NoNode
  <2>3. uses[n] = resolved[n] \/ VP!Ended(uses[n], n)
    BY <1>1, <2>1, <2>2, Assumptions, VP!StorageMeant DEF CInv
  <2> QED BY <2>3, EndedHides
<1>5. uses[n] # NoNode =>
        \/ ast.nodes[n].kind = "FunctionCall" /\ uses[n] \in GP!Functions(ast, ast.nodes[n].name)
        \/ ast.nodes[n].kind \in GP!Variable /\ GP!FoundAs(ast, n, uses[n])
  BY DEF Begun, UnderWay, GP!UsesInv, NoNode, GP!NoNode
<1> QED BY <1>2, <1>3, <1>4, <1>5

\* What the generator misses was meant to be a constant, or a function that is
\* not there yet.
LEMMA MissedIsMeant ==
  ASSUME CInv, VP!ScopingInv, Begun
  PROVE  FailuresExplained
<1>1. VP!Settled
  BY Meant DEF Begun, UnderWay
<1>2. GP!here = Generation!here
  BY DEF GP!here, Generation!here
<1>3. CASE outcome = "unknown variable"
  <2>1. /\ GP!here \in DOMAIN ast.nodes /\ ast.nodes[GP!here].kind \in GP!Variable
        /\ GP!FoundAs(ast, GP!here, GP!NoNode)
    BY <1>3 DEF Begun, UnderWay, GP!MissedInv
  <2>2. PICK n : n = GP!here
    OBVIOUS
  <2>3. VP!LastStored(n, GP!NoNode) /\ VP!at(n).kind \in VP!Uses /\ n \in DOMAIN ast.nodes
    BY <2>1, <2>2, SameLast DEF VP!at, VP!Uses, GP!Variable
  <2>4. GP!NoNode = VP!NoNode
    BY DEF GP!NoNode, VP!NoNode
  <2>5. VP!at(resolved[n]).kind \in VP!TopLevel
    BY <1>1, <2>3, <2>4, Assumptions, VP!StorageMeant DEF CInv
  <2> QED BY <1>2, <1>3, <2>2, <2>5 DEF FailuresExplained, VP!at, at, VP!TopLevel
<1>4. CASE outcome = "unknown function"
  <2>1. /\ GP!here \in DOMAIN ast.nodes /\ ast.nodes[GP!here].kind = "FunctionCall"
        /\ \A f \in GP!Functions(ast, ast.nodes[GP!here].name) : GP!FirstOf(ast)[GP!here] <= f
    BY <1>4 DEF Begun, UnderWay, GP!MissedInv
  <2>2. PICK n : n = GP!here
    OBVIOUS
  <2>3. /\ n \in DOMAIN ast.nodes /\ VP!at(n).kind = "FunctionCall"
        /\ \A f \in VP!Functions(ast, VP!at(n).name) : VP!FirstOf(ast)[n] <= f
    BY <2>1, <2>2, SameFunctions, SameFirst DEF VP!at
  <2>4. resolved[n] >= VP!EnclosingFunction(ast, n)
    BY <1>1, <2>3, Assumptions, VP!FunctionMissed DEF CInv
  <2> QED BY <1>2, <1>4, <2>2, <2>4, SameEnclosing DEF FailuresExplained
<1> QED BY <1>3, <1>4 DEF FailuresExplained

\* Whatever the program, every name finds in the generator's tables what the
\* validator found it to mean, or what a block that has ended left behind.
THEOREM NamesAreFound == Spec => []GeneratorResolves
<1>1. CInv /\ NamesInv => GeneratorResolves
  <2> SUFFICES ASSUME CInv, NamesInv, NEW n \in DOMAIN ast.nodes
      PROVE  uses[n] \in {NoNode, resolved[n]} \/ HiddenBy(uses[n], n)
    BY DEF GeneratorResolves
  <2>1. CASE Fresh
    BY <2>1 DEF Fresh
  <2>2. CASE Begun
    BY <2>2, FoundIsMeant DEF NamesInv
  <2> QED BY <2>1, <2>2 DEF NamesInv
<1> QED BY <1>1, InitCInv, StepCInv, NamesInit, NamesStep, PTL DEF Spec

\* Whatever the program, a variable the generator does not know is a constant's
\* name or a function's, and a function it does not know is the caller itself
\* or a later one.
THEOREM MissesAreExplained == Spec => []FailuresExplained
<1>1. CInv /\ NamesInv => FailuresExplained
  <2> SUFFICES ASSUME CInv, NamesInv
      PROVE  FailuresExplained
    OBVIOUS
  <2>1. CASE Waiting
    BY <2>1 DEF Waiting, FailuresExplained
  <2>2. CASE Begun
    BY <2>2, MissedIsMeant DEF NamesInv
  <2> QED BY <2>1, <2>2 DEF NamesInv
<1> QED BY <1>1, InitCInv, StepCInv, NamesInit, NamesStep, PTL DEF Spec

\* Whatever the program, exit code 0 means that the validator had found it to
\* obey every rule of the language, that LLVM accepted the module, and that no
\* call and no return in it has a value of another type than its place takes.
THEOREM SuccessSound == Spec => []SuccessIsSound
<1>1. CInv /\ NamesInv => SuccessIsSound
  <2> SUFFICES ASSUME CInv, NamesInv, exit_code = 0
      PROVE  outcome = "verified" /\ Legal(ast) /\ CallsAndReturnsFit(uses, ValueTypes(uses))
    BY DEF SuccessIsSound
  <2>1. Begun /\ outcome = "verified" /\ Accepted
    BY DEF NamesInv, Begun, UnderWay
  <2>2. CallsAndReturnsFit(uses, ValueTypes(uses))
    BY <2>1, VerifiedFits DEF CInv, Begun, UnderWay
  <2>3. VP!VerdictIsStatic
    BY Assumptions, VP!VerdictIs DEF CInv, NamesInv
  <2>4. VP!Validated /\ round = 1 /\ VP!Accepted
    BY <2>1 DEF Accepted, Validated, Validation!Running, VP!Validated, VP!Running, VP!Accepted
  <2>5. VP!Legal(ast)
    BY <2>3, <2>4 DEF VP!VerdictIsStatic
  <2> QED BY <2>1, <2>2, <2>5, SameLegal
<1> QED BY <1>1, InitCInv, StepCInv, NamesInit, NamesStep, PTL DEF Spec

-------------------------------------------------------------------------------
(* Literals that are assigned are stored with the widths the validator gave  *)
(* them.                                                                     *)

LEMMA AssignedRests ==
  CInv /\ NamesInv /\ VP!AssignedInv /\ [Next]_vars => VP!AssignedInv'
<1> SUFFICES ASSUME CInv, NamesInv, VP!AssignedInv, [Next]_vars
             PROVE  VP!AssignedInv'
  OBVIOUS
<1>1. [VP!Next]_(VP!vars)
  <2>1. validating => VP!Next
    BY SameValidatorNext DEF validating
  <2>2. (parse \/ validated \/ generated \/ UNCHANGED vars) => UNCHANGED VP!vars
    BY DEF parse, validated, generated, vars, validator, VP!vars
  <2>3. generating => UNCHANGED VP!vars
    <3>1. generating => GP!Next /\ UNCHANGED validator
      BY SameGeneratorNext DEF generating
    <3> QED BY <3>1, GP!TreeStays DEF validator, VP!vars
  <2> QED BY <2>1, <2>2, <2>3 DEF Next
<1> QED BY <1>1, Assumptions, VP!AssignedStep DEF CInv, NamesInv

\* A literal of the type that a checked assignment gave it is generated with
\* the width of the variable, or as a double.
LEMMA LiteralWidth ==
  ASSUME NEW o \in DOMAIN ast.nodes, at(o).kind \in Literal, NEW type \in RefType, result_type[o] = type,
         check_type_assignment(initial_type(at(o)), type)
  PROVE  \/ Generation!literal_value(o).type = primitive_to_llvm_type(type)
         \/ primitive_to_llvm_type(type) \in {"half", "float"}
<1> USE DEF RefType, SizedInteger, INT, INT64, UINT, UINT64, FLOAT16, FLOAT64, BOOL
<1>1. /\ initial_type(at(o)) = type \/ same_family(initial_type(at(o)), type)
      /\ initial_type(at(o)) = type => type \notin ConstType
  BY DEF check_type_assignment, is_assignment_compatible
<1>2. Generation!literal_value(o).type =
        CASE at(o).kind = "ConstantInteger" -> constant_integer_type(type)
          [] at(o).kind = "ConstantUnsignedInteger" -> constant_unsigned_type(type)
          [] at(o).kind = "ConstantFloat" -> "double"
          [] at(o).kind = "ConstantBool" -> "i1"
  <2>1. /\ Generation!node_at(o) = at(o)
        /\ Generation!constant_integer_type(type) = constant_integer_type(type)
        /\ Generation!constant_unsigned_type(type) = constant_unsigned_type(type)
    BY Zenon DEF Generation!node_at, at, Generation!constant_integer_type, Generation!constant_unsigned_type,
       constant_integer_type, constant_unsigned_type, Generation!SizedInteger, Generation!primitive_to_llvm_type,
       primitive_to_llvm_type,
       Generation!INT, Generation!INT8, Generation!INT16, Generation!INT32, Generation!INT64, Generation!UINT,
       Generation!UINT8, Generation!UINT16, Generation!UINT32, Generation!UINT64, Generation!CONST_INT,
       Generation!CONST_UINT, Generation!CONST_FLOAT, Generation!FLOAT16, Generation!FLOAT32, Generation!FLOAT64,
       Generation!BOOL, Generation!UNDEF, INT8, INT16, INT32, UINT8, UINT16, UINT32, CONST_INT, CONST_UINT,
       CONST_FLOAT, FLOAT32, UNDEF
  <2>2. \A t : Generation!constant(t).type = t
    BY DEF Generation!constant
  <2> QED BY <2>1, <2>2 DEF Generation!literal_value, Literal
<1>3. CASE at(o).kind = "ConstantInteger"
  <2>1. initial_type(at(o)) = CONST_INT
    BY <1>3 DEF initial_type
  <2>2. type \in INT .. INT64
    BY <1>1, <2>1 DEF ConstType, same_family, is_signed_int, is_unsigned_int, is_float, CONST_INT, CONST_UINT, CONST_FLOAT
  <2> QED BY <1>2, <1>3, <2>2 DEF constant_integer_type
<1>4. CASE at(o).kind = "ConstantUnsignedInteger"
  <2>1. initial_type(at(o)) = CONST_UINT
    BY <1>4 DEF initial_type
  <2>2. type \in UINT .. UINT64
    BY <1>1, <2>1 DEF ConstType, same_family, is_signed_int, is_unsigned_int, is_float, CONST_INT, CONST_UINT, CONST_FLOAT
  <2> QED BY <1>2, <1>4, <2>2 DEF constant_unsigned_type
<1>5. CASE at(o).kind = "ConstantFloat"
  <2>1. initial_type(at(o)) = CONST_FLOAT
    BY <1>5 DEF initial_type
  <2>2. type \in FLOAT16 .. FLOAT64
    BY <1>1, <2>1 DEF ConstType, same_family, is_signed_int, is_unsigned_int, is_float, CONST_INT, CONST_UINT, CONST_FLOAT
  <2>3. primitive_to_llvm_type(type) \in {"half", "float", "double"}
    BY <2>2 DEF primitive_to_llvm_type, INT8, UINT8, INT16, UINT16, INT32, UINT32, CONST_INT, CONST_UINT, FLOAT32,
       CONST_FLOAT, UNDEF
  <2> QED BY <1>2, <1>5, <2>3
<1>6. CASE at(o).kind = "ConstantBool"
  <2>1. initial_type(at(o)) = BOOL
    BY <1>6 DEF initial_type
  <2>2. ~ same_family(BOOL, type)
    BY DEF same_family, is_signed_int, is_unsigned_int, is_float, CONST_INT, CONST_UINT, CONST_FLOAT
  <2>3. type = BOOL
    BY <1>1, <2>1, <2>2
  <2>4. primitive_to_llvm_type(BOOL) = "i1"
    BY DEF primitive_to_llvm_type, INT8, INT16, INT32, UINT8, UINT16, UINT32, FLOAT32, CONST_INT, CONST_UINT,
       CONST_FLOAT, UNDEF
  <2> QED BY <1>2, <1>6, <2>3, <2>4
<1> QED BY <1>3, <1>4, <1>5, <1>6 DEF Literal

LEMMA StoredWidths ==
  ASSUME CInv, VP!ScopingInv, VP!VerdictInv, VP!AssignedInv, Begun
  PROVE  AssignedLiteralsFit
<1> SUFFICES ASSUME NEW s \in stores, at(s[1]).kind = "VariableAssignment",
                    at(resolved[s[1]]).kind = "VariableDeclaration",
                    at(at(s[1]).operands[1]).kind \in Literal, uses[s[1]] = resolved[s[1]]
             PROVE  s[2] = s[3] \/ s[3] \in {"half", "float"}
  BY DEF AssignedLiteralsFit
<1> DEFINE n == s[1]
           o == at(n).operands[1]
           type == at(resolved[n]).type
<1>1. IsAst(ast) /\ VP!IsAst(ast) /\ GP!IsAst(ast) /\ VP!Settled /\ VP!Legal(ast)
  <2>1. VP!Settled
    BY Meant DEF Begun, UnderWay
  <2>2. VP!VerdictIsStatic
    BY Assumptions, VP!VerdictIs DEF CInv
  <2>3. VP!Validated /\ round = 1 /\ VP!Accepted
    BY DEF Begun, UnderWay, Accepted, Validated, Validation!Running, VP!Validated, VP!Running, VP!Accepted
  <2> QED BY <2>1, <2>2, <2>3, SameTrees DEF VP!VerdictIsStatic, CInv, VP!IInv
<1>2. PICK t, c : GP!TypesUpTo(t, c) /\ c \in Nat
  <2>1. PICK w, t : GP!Walked(ast, w, todo) /\ GP!TypesUpTo(t, w[1].at)
    BY DEF Begun, UnderWay, GP!TypesInv
  <2>2. Len(todo) \in Nat
    BY DEF Begun, UnderWay, GP!GInv, GP!ItemsInv
  <2>3. w[1] \in GP!Point
    BY <2>1, <2>2 DEF GP!Walked
  <2> QED BY <2>1, <2>3 DEF GP!Point
<1>3. /\ n \in DOMAIN ast.nodes /\ n <= c
      /\ s[2] = t[o] /\ s[3] = GP!allocated_type(resolved[n])
  BY <1>2 DEF GP!TypesUpTo, GP!StoredAs, GP!node_at, at
<1>4. /\ 1 \in DOMAIN at(n).operands /\ o \in DOMAIN ast.nodes
      /\ o \in Nat /\ o < n /\ n \in Nat
  <2>1. /\ n \in Nat
        /\ DOMAIN at(n).operands = 1 .. Len(at(n).operands) /\ Len(at(n).operands) \in Nat
        /\ \A i \in DOMAIN at(n).operands :
             /\ at(n).operands[i] \in DOMAIN ast.nodes /\ at(n).operands[i] \in Nat
             /\ at(n).operands[i] < n
    BY <1>1, <1>3, GP!OperandsBefore DEF at, GP!node_at
  <2>2. Len(at(n).operands) = 1
    BY <1>1, <1>3 DEF IsAst, Operands, at
  <2> QED BY <2>1, <2>2
<1>5. t[o] = Generation!literal_value(o).type
  <2>1. t[o] = GP!ValueTypeAt(t, o)
    <3>1. o <= c
      BY <1>2, <1>3, <1>4
    <3> QED BY <1>2, <1>4, <3>1 DEF GP!TypesUpTo
  <2>2. GP!node_at(o).kind \in GP!Literal
    BY DEF GP!node_at, at, GP!Literal, Literal
  <2>3. GP!node_at(o).kind \notin {"VariableLookup", "FunctionCall", "BinaryOp", "UnaryOp"}
    BY <2>2 DEF GP!Literal
  <2>4. GP!ValueTypeAt(t, o) = GP!literal_value(o).type
    <3> HIDE DEF o
    <3> QED BY <2>2, <2>3 DEF GP!ValueTypeAt
  <2>5. GP!literal_value(o) = Generation!literal_value(o)
    BY SameLiterals
  <2> QED BY <2>1, <2>4, <2>5
<1>6. /\ resolved[n] \in DOMAIN ast.nodes /\ resolved[n] = VP!Resolve(ast, n) /\ resolved[n] # VP!NoNode
  <2>1. resolved[n] # VP!NoNode /\ resolved[n] = VP!Resolve(ast, n)
    BY <1>1, <1>3 DEF VP!Settled, VP!Uses, VP!at, at
  <2>2. resolved \in [DOMAIN ast.nodes -> {VP!NoNode} \cup DOMAIN ast.nodes]
    BY DEF CInv, VP!IInv, VP!ResolvedInv
  <2> QED BY <1>3, <2>1, <2>2
<1>7. type \in RefType
  BY <1>1, <1>6 DEF IsAst, DeclaredTypes, at
<1>10. resolved[n] = Resolve(ast, n) /\ resolved[n] # NoNode
  BY <1>6, SameNames DEF NoNode, VP!NoNode
<1>8. check_type_assignment(initial_type(at(o)), type)
  <2>1. LegalNode(ast, TypesOf(ast), n)
    BY <1>1, <1>3, SameLegal DEF Legal
  <2>2. has_value(at(n))
    <3>1. Len(at(n).operands) = 1
      BY <1>1, <1>3 DEF IsAst, Operands, at
    <3> QED BY <3>1 DEF has_value
  <2>3. check_type_assignment(TypesOf(ast)[o], type)
    BY <1>10, <2>1, <2>2 DEF LegalNode, at, Declaration
  <2>4. TypesOf(ast)[o] = initial_type(at(o))
    <3>1. VP!at(o).kind \in VP!Literal
      BY DEF VP!Literal, Literal, VP!at, at
    <3>2. VP!TypeOf(o) = VP!initial_type(VP!at(o))
      BY <1>1, <1>4, <3>1, Assumptions, VP!TypeOfLeaf
    <3>3. VP!initial_type(VP!at(o)) = initial_type(at(o))
      BY Zenon DEF VP!initial_type, initial_type, VP!at, at, VP!BOOL, BOOL, VP!CONST_INT, CONST_INT, VP!CONST_UINT,
         CONST_UINT, VP!CONST_FLOAT, CONST_FLOAT, VP!Literal, Literal, VP!NoType, NoType
    <3>4. VP!TypeOf(o) = TypesOf(ast)[o]
      BY Zenon, SameStaticTypes DEF VP!TypeOf
    <3> QED BY <3>2, <3>3, <3>4
  <2> QED BY <2>3, <2>4
<1>9. result_type[o] = type
  <2>1. VP!AssignsLiteral(n) /\ VP!VariableType(n) = type
    BY <1>6 DEF VP!AssignsLiteral, VP!VariableType, VP!at, at, VP!Literal, Literal
  <2>2. frames = << >> /\ errors = << >>
    BY DEF Begun, UnderWay, Accepted, Validated, Validation!Running
  <2>3. ~ VP!Pending("check_assignment", n)
    BY <2>2 DEF VP!Pending
  <2>4. result_type[o] = VP!VariableType(n)
    BY <1>3, <1>6, <2>1, <2>2, <2>3 DEF VP!AssignedInv, VP!at, at
  <2> QED BY <2>1, <2>4
<1> HIDE DEF n, o, type
<1> QED BY <1>3, <1>4, <1>5, <1>7, <1>8, <1>9, LiteralWidth, SameAllocations DEF n, o, type

\* Whatever the program, the width the validator gives to a literal that is
\* assigned to a variable is the width it is stored with: that of the variable,
\* except that every float literal is a double.
THEOREM LiteralsFit == Spec => []AssignedLiteralsFit
<1>1. CInv /\ NamesInv /\ VP!AssignedInv => AssignedLiteralsFit
  <2>1. Fresh => AssignedLiteralsFit
    BY DEF Fresh, AssignedLiteralsFit
  <2> QED BY <2>1, StoredWidths DEF NamesInv
<1>2. Init => VP!AssignedInv
  BY Assumptions, SameValidatorInit, VP!AssignedInit DEF Init
<1> QED BY <1>1, <1>2, InitCInv, StepCInv, NamesInit, NamesStep, AssignedRests, PTL DEF Spec
=============================================================================
