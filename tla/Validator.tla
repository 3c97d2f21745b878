------------------------------- MODULE Validator -------------------------------
(***************************************************************************)
(* class Validator (src/src/validate.cpp): one object validating one tree, *)
(* MaxRounds times.  The recursive visitors are unfolded into steps.  The  *)
(* work left to do is kept per stack frame, in frames: each frame has the  *)
(* node that opened it and the items still to be done inside it, and an    *)
(* item is a visit of a node or what a visitor does after its children.    *)
(*                                                                         *)
(* result_type_ of every node is in result_type; the visitors write it     *)
(* through const_cast, so it outlives the round.                           *)
(*                                                                         *)
(* add_error_nowhere, top_level_in_order, AssignUnchecked,                 *)
(* binary_result_for_numbers, operand_types_all_result and                 *)
(* finish_without_throw are wrong on purpose: each stands for a bug that   *)
(* one of the properties must notice.                                      *)
(***************************************************************************)
EXTENDS Ast

CONSTANTS Programs,     \* the trees a validator may be given
          MaxRounds     \* how often validate is called on the tree

ASSUME ProgramsAreAsts == \A tree \in Programs : IsAst(tree)

ASSUME MaxRoundsIsPositive == MaxRounds \in Nat \ {0}

VARIABLES ast,                  \* the argument of validate
          result_type,          \* result_type_ of every node
          scopes,               \* symbol_table_ and its parents
          frames,               \* what is left to do, per stack frame
          errors,               \* errors_, by node and message
          current_function_,    \* or NoNode
          round,                \* how often validate was called
          resolved,             \* the declaration each name was last found to mean
          verdict_before,       \* whether the round before accepted the tree
          types_before          \* and the result types it left

vars == << ast, result_type, scopes, frames, errors, current_function_, round, resolved,
           verdict_before, types_before >>

history == << round, verdict_before, types_before >>

Table == INSTANCE SymbolTable WITH Decl <- Nat \ {NoNode}, NoEntry <- NoNode

Todo == {"register", "visit", "declare_variable", "check_assignment", "type_binary_op",
         "type_unary_op", "argument", "check_argument", "check_return", "check_condition",
         "else_block"}

\* entry is the declaration the visitor holds on to meanwhile.
Item == [do : Todo, node : Nat, entry : Nat]

Frame == [owner : Nat, todo : Seq(Item)]

do(what, n) == [do |-> what, node |-> n, entry |-> NoNode]

visits(list) == [i \in DOMAIN list |-> do("visit", list[i])]

Message == {"already defined", "not found", "type mismatch", "incompatible element found",
            "invalid operand types", "incompatible types", "is not a function",
            "wrong argument count", "return outside function", "return value expected",
            "return value not expected", "return type mismatch", "condition should return bool"}

-------------------------------------------------------------------------------

at(n) == ast.nodes[n]

Running == frames # << >>

Current == frames[Len(frames)]

this == Head(Current.todo).node

held_entry == Head(Current.todo).entry

\* What is to be done next is this.
Now(what) == Running /\ Current.todo # << >> /\ Head(Current.todo).do = what

Visiting(kind) == Now("visit") /\ at(this).kind = kind

\* The current frame goes on with these items.
Then(items) == frames' = [frames EXCEPT ![Len(frames)].todo = items \o Tail(@)]

\* A new frame does the list, and the current one goes on with items after it.
Enter(list, items) ==
    frames' = Append([frames EXCEPT ![Len(frames)].todo = items \o Tail(@)],
                     [owner |-> this, todo |-> visits(list)])

add_error_nowhere(n, message) == errors' = Append(errors, [node |-> NoNode, message |-> message])

add_error(n, message) == errors' = Append(errors, [node |-> n, message |-> message])

\* The visitor reports its node and returns.
Fail(message) == add_error(this, message) /\ Then(<< >>) /\ UNCHANGED result_type

\* What no visitor of an expression or a statement touches.
KeepScope == UNCHANGED << ast, history, scopes, current_function_ >>

insert_or_fail(n, message) ==
    /\ Table!insert(at(n).name, n)
    /\ IF Table!is_new(at(n).name) THEN UNCHANGED errors ELSE add_error(n, message)
    /\ Then(<< >>)
    /\ UNCHANGED << ast, history, current_function_, result_type, resolved >>

-------------------------------------------------------------------------------

top_level_in_order == visits(ast.top)

\* The first loop of validate_top_level, for the functions, then the second.
top_level_items == [i \in DOMAIN ast.top |-> do("register", ast.top[i])] \o visits(ast.top)

validate ==
    /\ ~ Running
    /\ round < MaxRounds
    /\ round' = round + 1
    /\ errors' = << >>
    /\ Table!reset
    /\ current_function_' = NoNode
    /\ frames' = << [owner |-> NoNode, todo |-> top_level_items] >>
    /\ verdict_before' = (errors = << >>)
    /\ types_before' = result_type
    /\ resolved' = [n \in DOMAIN ast.nodes |-> NoNode]
    /\ UNCHANGED << ast, result_type >>

register_function ==
    /\ Now("register")
    /\ \/ is_function(at(this)) /\ insert_or_fail(this, "already defined")
       \/ /\ ~ is_function(at(this))
          /\ Then(<< >>)
          /\ UNCHANGED << errors, result_type, resolved >>
          /\ KeepScope

validate_function_declaration ==
    /\ Visiting("FunctionDeclaration")
    /\ Table!create_stack_frame
    /\ current_function_' = this
    /\ Enter(at(this).params \o at(this).body, << >>)
    /\ UNCHANGED << ast, history, errors, result_type, resolved >>

validate_constant_declaration ==
    Visiting("ConstantDeclaration") /\ insert_or_fail(this, "already defined")

validate_argument == Visiting("Argument") /\ insert_or_fail(this, "already defined")

validate_variable_declaration ==
    /\ Visiting("VariableDeclaration")
    /\ Then(visits(at(this).operands) \o << do("declare_variable", this) >>)
    /\ UNCHANGED << errors, result_type, resolved >>
    /\ KeepScope

declare_variable == Now("declare_variable") /\ insert_or_fail(this, "already defined")

validate_variable_assignment ==
    LET entry == Table!lookup(at(this).name) IN
    /\ Visiting("VariableAssignment")
    /\ resolved' = [resolved EXCEPT ![this] = entry]
    /\ \/ entry = NoNode /\ Fail("not found")
       \/ /\ entry # NoNode
          /\ Then(visits(at(this).operands)
                    \o << [do |-> "check_assignment", node |-> this, entry |-> entry] >>)
          /\ UNCHANGED << errors, result_type >>
    /\ KeepScope

AssignUnchecked(n, type, message) ==
    /\ result_type' = [result_type EXCEPT ![n] = type]
    /\ IF check_type_assignment(result_type[n], type) THEN UNCHANGED errors ELSE add_error(this, message)
    /\ Then(<< >>)

\* check_type_assignment on node n, which also fixes the type of a constant.
Assign(n, type, message) ==
    /\ IF check_type_assignment(result_type[n], type)
       THEN /\ result_type' = set_type_on_const(result_type, n, type)
            /\ UNCHANGED errors
       ELSE add_error(this, message) /\ UNCHANGED result_type
    /\ Then(<< >>)

\* Arguments, constants and functions may be assigned anything.
check_assignment ==
    /\ Now("check_assignment")
    /\ IF at(held_entry).kind = "VariableDeclaration"
       THEN Assign(at(this).operands[1], at(held_entry).type, "type mismatch")
       ELSE Then(<< >>) /\ UNCHANGED << errors, result_type >>
    /\ UNCHANGED resolved
    /\ KeepScope

\* The type validate_variable_lookup copies from the entry.
entry_type(entry) ==
    IF at(entry).kind = "ConstantDeclaration"
    THEN initial_type(at(at(entry).operands[1]))
    ELSE at(entry).type

validate_variable_lookup ==
    LET entry == Table!lookup(at(this).name) IN
    /\ Visiting("VariableLookup")
    /\ resolved' = [resolved EXCEPT ![this] = entry]
    /\ \/ entry = NoNode /\ Fail("not found")
       \/ entry # NoNode /\ is_function(at(entry)) /\ Fail("incompatible element found")
       \/ /\ entry # NoNode /\ ~ is_function(at(entry))
          /\ result_type' = [result_type EXCEPT ![this] = entry_type(entry)]
          /\ Then(<< >>)
          /\ UNCHANGED errors
    /\ KeepScope

\* "For other node types (constants, etc.), no validation needed"
validate_literal ==
    /\ Now("visit")
    /\ at(this).kind \in Literal
    /\ Then(<< >>)
    /\ UNCHANGED << errors, result_type, resolved >>
    /\ KeepScope

validate_binary_op ==
    /\ Visiting("BinaryOp")
    /\ Then(visits(at(this).operands) \o << do("type_binary_op", this) >>)
    /\ UNCHANGED << errors, result_type, resolved >>
    /\ KeepScope

binary_result_for_numbers(op, left, right) ==
    IF op \in Arithmetic THEN convert_arithmetic_types(left, right)
    ELSE IF \/ op \in Comparison /\ is_numeric(left) /\ is_numeric(right)
            \/ op \in Logical /\ left = BOOL /\ right = BOOL
         THEN BOOL ELSE UNDEF

\* The result type of the operation, or UNDEF when it reports an error.
binary_result(op, left, right) ==
    IF op \in Arithmetic THEN convert_arithmetic_types(left, right)
    ELSE IF \/ op \in Comparison /\ is_numeric_comparison_compatible(left, right)
            \/ op \in Logical /\ left = BOOL /\ right = BOOL
         THEN BOOL ELSE UNDEF

\* What the operation asks its operands to be, if they are constants: its own
\* type in arithmetic, the type of the other side otherwise.
operand_types_all_result(op, left, right, result) == << result, result >>

operand_types(op, left, right, result) ==
    IF op \in Arithmetic THEN << result, result >> ELSE << right, left >>

type_binary_op ==
    LET l == at(this).operands[1]
        r == at(this).operands[2]
        left == result_type[l]
        right == result_type[r]
        result == binary_result(at(this).op, left, right)
        asked == operand_types(at(this).op, left, right, result)
        typed == [result_type EXCEPT ![this] = result]
    IN
    /\ Now("type_binary_op")
    /\ \/ NoType \in {left, right} /\ Fail("invalid operand types")
       \/ NoType \notin {left, right} /\ result = UNDEF /\ Fail("incompatible types")
       \/ /\ NoType \notin {left, right} /\ result # UNDEF
          /\ result_type' = set_type_on_const(set_type_on_const(typed, l, asked[1]), r, asked[2])
          /\ Then(<< >>)
          /\ UNCHANGED errors
    /\ UNCHANGED resolved
    /\ KeepScope

validate_unary_op ==
    /\ Visiting("UnaryOp")
    /\ Then(visits(at(this).operands) \o << do("type_unary_op", this) >>)
    /\ UNCHANGED << errors, result_type, resolved >>
    /\ KeepScope

type_unary_op ==
    LET type == result_type[at(this).operands[1]]
        fits == IF at(this).op = "NEGATE" THEN is_numeric(type) ELSE type = BOOL
    IN
    /\ Now("type_unary_op")
    /\ \/ type = NoType /\ Fail("invalid operand types")
       \/ type # NoType /\ ~ fits /\ Fail("incompatible types")
       \/ /\ type # NoType /\ fits
          /\ result_type' = [result_type EXCEPT ![this] = type]
          /\ Then(<< >>)
          /\ UNCHANGED errors
    /\ UNCHANGED resolved
    /\ KeepScope

\* The call has the type of the function even when its arguments are wrong.
validate_function_call ==
    LET entry == Table!lookup(at(this).name)
        args == at(this).operands
        params == at(entry).params
    IN
    /\ Visiting("FunctionCall")
    /\ resolved' = [resolved EXCEPT ![this] = entry]
    /\ \/ entry = NoNode /\ Fail("not found")
       \/ entry # NoNode /\ ~ is_function(at(entry)) /\ Fail("is not a function")
       \/ /\ entry # NoNode /\ is_function(at(entry))
          /\ result_type' = [result_type EXCEPT ![this] = at(entry).type]
          /\ IF Len(args) # Len(params)
             THEN add_error(this, "wrong argument count") /\ Then(<< >>)
             ELSE /\ Then([i \in DOMAIN args |->
                             [do |-> "argument", node |-> args[i], entry |-> params[i]]])
                  /\ UNCHANGED errors
    /\ KeepScope

validate_call_argument ==
    /\ Now("argument")
    /\ Then(<< do("visit", this), [do |-> "check_argument", node |-> this, entry |-> held_entry] >>)
    /\ UNCHANGED << errors, result_type, resolved >>
    /\ KeepScope

check_argument ==
    /\ Now("check_argument")
    /\ Assign(this, at(held_entry).type, "type mismatch")
    /\ UNCHANGED resolved
    /\ KeepScope

validate_function_return ==
    /\ Visiting("FunctionReturn")
    /\ Then(visits(at(this).operands) \o << do("check_return", this) >>)
    /\ UNCHANGED << errors, result_type, resolved >>
    /\ KeepScope

\* No rule of the grammar puts a return outside a function.
check_return ==
    LET returned == at(current_function_).type IN
    /\ Now("check_return")
    /\ IF current_function_ = NoNode THEN Fail("return outside function")
       ELSE IF ~ has_value(at(this)) /\ returned # UNDEF THEN Fail("return value expected")
       ELSE IF has_value(at(this)) /\ returned = UNDEF THEN Fail("return value not expected")
       ELSE IF has_value(at(this)) THEN Assign(at(this).operands[1], returned, "return type mismatch")
       ELSE Then(<< >>) /\ UNCHANGED << errors, result_type >>
    /\ UNCHANGED resolved
    /\ KeepScope

validate_if ==
    /\ Visiting("If")
    /\ Then(visits(at(this).operands) \o << do("check_condition", this) >>)
    /\ UNCHANGED << errors, result_type, resolved >>
    /\ KeepScope

\* A condition without a type has been reported already.
check_condition ==
    LET condition == at(this).operands[1] IN
    /\ Now("check_condition")
    /\ IF result_type[condition] \in {NoType, BOOL} THEN UNCHANGED errors
       ELSE add_error(condition, "condition should return bool")
    /\ Table!create_stack_frame
    /\ Enter(at(this).body, IF has_else(at(this)) THEN << do("else_block", this) >> ELSE << >>)
    /\ UNCHANGED << ast, history, current_function_, result_type, resolved >>

validate_else_block ==
    /\ Now("else_block")
    /\ Table!create_stack_frame
    /\ Enter(at(this).orelse, << >>)
    /\ UNCHANGED << ast, history, current_function_, errors, result_type, resolved >>

\* The list of the current frame is done; a function's frame is also the end
\* of the function.
release_stack_frame ==
    /\ Len(frames) > 1
    /\ Current.todo = << >>
    /\ Table!release_stack_frame
    /\ frames' = SubSeq(frames, 1, Len(frames) - 1)
    /\ current_function_' = IF is_function(at(Current.owner)) THEN NoNode ELSE current_function_
    /\ UNCHANGED << ast, history, errors, result_type, resolved >>

finish_without_throw ==
    /\ Len(frames) = 1
    /\ Current.todo = << >>
    /\ errors = << >>
    /\ frames' = << >>
    /\ UNCHANGED << ast, history, scopes, current_function_, errors, result_type, resolved >>

\* validate returns, or throws errors_ when there are any.
finish ==
    /\ Len(frames) = 1
    /\ Current.todo = << >>
    /\ frames' = << >>
    /\ UNCHANGED << ast, history, scopes, current_function_, errors, result_type, resolved >>

-------------------------------------------------------------------------------

Init ==
    /\ ast \in Programs
    /\ result_type = [n \in DOMAIN ast.nodes |-> initial_type(at(n))]
    /\ Table!Init
    /\ frames = << >>
    /\ errors = << >>
    /\ current_function_ = NoNode
    /\ round = 0
    /\ resolved = [n \in DOMAIN ast.nodes |-> NoNode]
    /\ verdict_before = TRUE
    /\ types_before = result_type

Next ==
    \/ validate
    \/ register_function
    \/ validate_function_declaration
    \/ validate_constant_declaration
    \/ validate_argument
    \/ validate_variable_declaration
    \/ declare_variable
    \/ validate_variable_assignment
    \/ check_assignment
    \/ validate_variable_lookup
    \/ validate_literal
    \/ validate_binary_op
    \/ type_binary_op
    \/ validate_unary_op
    \/ type_unary_op
    \/ validate_function_call
    \/ validate_call_argument
    \/ check_argument
    \/ validate_function_return
    \/ check_return
    \/ validate_if
    \/ check_condition
    \/ validate_else_block
    \/ release_stack_frame
    \/ finish

\* One thread runs the visitors; nothing keeps it from taking its next step.
Spec == Init /\ [][Next]_vars /\ WF_vars(Next)

-------------------------------------------------------------------------------

TypeOK ==
    /\ IsAst(ast)
    /\ result_type \in [DOMAIN ast.nodes -> ResultType]
    /\ scopes \in Seq([Name -> {NoNode} \cup DOMAIN ast.nodes])
    /\ frames \in Seq(Frame)
    /\ errors \in Seq([node : DOMAIN ast.nodes, message : Message])
    /\ current_function_ \in {NoNode} \cup DOMAIN ast.nodes
    /\ round \in 0 .. MaxRounds
    /\ resolved \in [DOMAIN ast.nodes -> {NoNode} \cup DOMAIN ast.nodes]
    /\ verdict_before \in BOOLEAN
    /\ types_before \in [DOMAIN ast.nodes -> ResultType]

\* Every frame the visitors opened owns the table at its depth and releases
\* it, whichever errors were met inside it: the second frame is always the
\* function's, and when validate returns only the global table is left.
FramesOwnScopes ==
    /\ Len(scopes) = IF Running THEN Len(frames) ELSE 1
    /\ current_function_ = IF Len(frames) > 1 THEN frames[2].owner ELSE NoNode

\* A literal whose type is fixed keeps it, in this validation and in any
\* later one of the same tree.
FixedLiteralsKeepTheirType ==
    [][\A n \in DOMAIN ast.nodes :
         (at(n).kind \in Literal /\ result_type[n] \notin ConstType)
            => result_type'[n] = result_type[n]]_vars
================================================================================
