----------------------------- MODULE CodeGenerator -----------------------------
(***************************************************************************)
(* class CodeGenerator (src/src/codegen.cpp), from generate to the verdict *)
(* of verifyModule.  The recursive visitors are unfolded into steps: todo  *)
(* is what is left to do, an item is a visit of a node or what a visitor   *)
(* does after its children, and kept has the values visitors hold in their *)
(* local variables meanwhile.                                              *)
(*                                                                         *)
(* The generator trusts the tree: it reads the result types the validator  *)
(* left in it, and keeps its own two tables of names.  uses and stores only *)
(* record what it did.                                                     *)
(*                                                                         *)
(* visit_variable_declaration_naming_first, entry_values_and_outer,        *)
(* entry_values_cleared, no_default_return, type_of_left and Branch_always *)
(* are wrong on purpose: each stands for a bug that one of the properties  *)
(* must notice.                                                            *)
(***************************************************************************)
EXTENDS Ast, LlvmIr

VARIABLES ast,                  \* the argument of generate
          result_type,          \* result_type_ of every node
          todo,                 \* what is left to do
          current_value_,       \* the value of the last expression
          kept,                 \* left_val and the arguments collected so far
          named_values_,        \* the declaration that owns a name's storage
          prev_named_values,    \* saved while a function is generated
          functions_,           \* the function of a name
          current_function_,    \* the function being generated, or NoNode
          blocks,               \* the basic blocks of all functions
          insert_block,         \* where builder_ appends
          refused,              \* nodes whose instruction verifyModule refuses
          uses,                 \* the declaration each name was found to mean
          stores,               \* the types stored and allocated, by assignment
          outcome

\* The names of the code, and that of the entry point.
Symbol == Name \cup {"main"}

Wrapper == -1   \* the function create_main_wrapper makes

Item == [do : {"visit", "keep", "binary_op", "unary_op", "bind", "store", "call", "return",
               "branch", "end_then", "end_else", "end_function", "define_constant"},
         node : Nat, entry : Nat]

Failure == {"unknown variable", "unknown function", "argument count", "no value",
            "invalid condition", "not a constant", "verification failed"}

Outcome == {"idle", "running", "verified", "undefined behaviour"} \cup Failure

item(what, n, entry) == [do |-> what, node |-> n, entry |-> entry]

visit(list) == [i \in DOMAIN list |-> item("visit", list[i], NoNode)]

-------------------------------------------------------------------------------

node_at(n) == ast.nodes[n]

Generating == outcome = "running"

here == Head(todo).node

entry_here == Head(todo).entry

Next_is(what) == Generating /\ todo # << >> /\ Head(todo).do = what

Visits(kind) == Next_is("visit") /\ node_at(here).kind = kind

Goes_on(items) == todo' = items \o Tail(todo)

\* An exception leaves generate: the generator is not used again.
Throw(reason) ==
    /\ outcome' = reason
    /\ UNCHANGED << todo, current_value_, kept, named_values_, prev_named_values, functions_,
                    current_function_, blocks, insert_block, refused, uses, stores >>

Tree == UNCHANGED << ast, result_type >>

KeepTables == UNCHANGED << named_values_, prev_named_values, functions_, current_function_ >>

Append_instruction == blocks' = [blocks EXCEPT ![insert_block] = appended(@)]

Append_use(d) == blocks' = [blocks EXCEPT ![insert_block] = using(@, d)]

Refuse_unless(legal) == refused' = IF legal THEN refused ELSE refused \cup {here}

KeepBuilder == UNCHANGED << blocks, insert_block, refused >>

allocated_type(d) == primitive_to_llvm_type(node_at(d).type)

-------------------------------------------------------------------------------

generate ==
    /\ outcome = "idle"
    /\ outcome' = "running"
    /\ todo' = visit(ast.top)
    /\ UNCHANGED << current_value_, kept, uses, stores >>
    /\ Tree /\ KeepTables /\ KeepBuilder

literal_value(n) ==
    CASE node_at(n).kind = "ConstantInteger" -> constant(constant_integer_type(result_type[n]))
      [] node_at(n).kind = "ConstantUnsignedInteger" -> constant(constant_unsigned_type(result_type[n]))
      [] node_at(n).kind = "ConstantFloat" -> constant("double")
      [] node_at(n).kind = "ConstantBool" -> constant("i1")

visit_literal ==
    /\ Next_is("visit")
    /\ node_at(here).kind \in Literal
    /\ current_value_' = literal_value(here)
    /\ Goes_on(<< >>)
    /\ UNCHANGED << kept, uses, stores, outcome >>
    /\ Tree /\ KeepTables /\ KeepBuilder

\* left_val, or one more argument of a call.
keep_value ==
    /\ Next_is("keep")
    /\ kept' = Append(kept, current_value_)
    /\ Goes_on(<< >>)
    /\ UNCHANGED << current_value_, uses, stores, outcome >>
    /\ Tree /\ KeepTables /\ KeepBuilder

visit_binary_op ==
    /\ Visits("BinaryOp")
    /\ LET operands == visit(node_at(here).operands) IN
       Goes_on(<< operands[1], item("keep", here, NoNode), operands[2], item("binary_op", here, NoNode) >>)
    /\ UNCHANGED << current_value_, kept, uses, stores, outcome >>
    /\ Tree /\ KeepTables /\ KeepBuilder

type_of_left(op, left) == left.type

binary_op_type(op, left) == IF op \in Comparison THEN "i1" ELSE left.type

(***************************************************************************)
(* The left operand alone chooses between integer and float instructions.  *)
(* The builder folds two constants instead of appending an instruction;    *)
(* what it makes of constants of two types, a value or an instruction that *)
(* is refused, depends on the build.                                       *)
(***************************************************************************)
binary_op ==
    LET left == kept[Len(kept)]
        right == current_value_
        op == node_at(here).op
        type == binary_op_type(op, left)
        legal == IF op \in Logical THEN SameIntegers(left, right) ELSE SameNumbers(left, right)
        folds == left.constant /\ right.constant
    IN
    /\ Next_is("binary_op")
    /\ \/ NoValue \in {left, right} /\ Throw("no value")
       \/ /\ NoValue \notin {left, right}
          /\ kept' = SubSeq(kept, 1, Len(kept) - 1)
          /\ Goes_on(<< >>)
          /\ \/ /\ folds
                /\ current_value_' = constant(type)
                /\ UNCHANGED << blocks, refused >>
             \/ /\ ~ (folds /\ legal)
                /\ current_value_' = computed(type)
                /\ Append_instruction
                /\ Refuse_unless(legal)
          /\ KeepTables
          /\ UNCHANGED << insert_block, uses, stores, outcome >>
    /\ Tree

visit_unary_op ==
    /\ Visits("UnaryOp")
    /\ Goes_on(visit(node_at(here).operands) \o << item("unary_op", here, NoNode) >>)
    /\ UNCHANGED << current_value_, kept, uses, stores, outcome >>
    /\ Tree /\ KeepTables /\ KeepBuilder

unary_op ==
    LET legal == current_value_.type \in
                   IF node_at(here).op = "NOT" THEN IntegerTy ELSE IntegerTy \cup FloatingPointTy
    IN
    /\ Next_is("unary_op")
    /\ \/ current_value_ = NoValue /\ Throw("no value")
       \/ /\ current_value_ # NoValue
          /\ Goes_on(<< >>)
          /\ \/ current_value_.constant /\ UNCHANGED << blocks, refused >>
             \/ ~ current_value_.constant /\ Append_instruction /\ Refuse_unless(legal)
          /\ KeepTables
          /\ UNCHANGED << current_value_, kept, insert_block, uses, stores, outcome >>
    /\ Tree

visit_variable_declaration_naming_first ==
    /\ Visits("VariableDeclaration")
    /\ blocks' = [blocks EXCEPT ![insert_block] = making(@, here)]
    /\ named_values_' = [named_values_ EXCEPT ![node_at(here).name] = here]
    /\ Goes_on(visit(node_at(here).operands) \o << item("bind", here, NoNode) >>)
    /\ UNCHANGED << prev_named_values, functions_, current_function_, current_value_, kept,
                    insert_block, refused, uses, stores, outcome >>
    /\ Tree

\* The storage exists before the initial value, the name after it.
visit_variable_declaration ==
    /\ Visits("VariableDeclaration")
    /\ blocks' = [blocks EXCEPT ![insert_block] = making(@, here)]
    /\ Goes_on(visit(node_at(here).operands) \o << item("bind", here, NoNode) >>)
    /\ KeepTables
    /\ UNCHANGED << current_value_, kept, insert_block, refused, uses, stores, outcome >>
    /\ Tree

stored(n, d) == stores' = stores \cup {<< n, current_value_.type, allocated_type(d) >>}

bind_variable ==
    /\ Next_is("bind")
    /\ \/ has_value(node_at(here)) /\ current_value_ = NoValue /\ Throw("no value")
       \/ /\ has_value(node_at(here)) => current_value_ # NoValue
          /\ IF has_value(node_at(here))
             THEN /\ Append_use(here)
                  /\ stored(here, here)
                  /\ Refuse_unless(current_value_.type # "void")
             ELSE UNCHANGED << blocks, stores, refused >>
          /\ named_values_' = [named_values_ EXCEPT ![node_at(here).name] = here]
          /\ current_value_' = computed("ptr")
          /\ Goes_on(<< >>)
          /\ UNCHANGED << prev_named_values, functions_, current_function_, kept, insert_block,
                          uses, outcome >>
    /\ Tree

visit_variable_assignment ==
    LET d == named_values_[node_at(here).name] IN
    /\ Visits("VariableAssignment")
    /\ \/ d = NoNode /\ Throw("unknown variable")
       \/ /\ d # NoNode
          /\ Goes_on(visit(node_at(here).operands) \o << item("store", here, d) >>)
          /\ uses' = [uses EXCEPT ![here] = d]
          /\ KeepTables /\ KeepBuilder
          /\ UNCHANGED << current_value_, kept, stores, outcome >>
    /\ Tree

store_value ==
    /\ Next_is("store")
    /\ \/ current_value_ = NoValue /\ Throw("no value")
       \/ /\ current_value_ # NoValue
          /\ Append_use(entry_here)
          /\ stored(here, entry_here)
          /\ Refuse_unless(current_value_.type # "void")
          /\ Goes_on(<< >>)
          /\ KeepTables
          /\ UNCHANGED << current_value_, kept, insert_block, uses, outcome >>
    /\ Tree

\* The storage is cast to an AllocaInst, which a global constant is not.
visit_variable_lookup ==
    LET d == named_values_[node_at(here).name] IN
    /\ Visits("VariableLookup")
    /\ \/ d = NoNode /\ Throw("unknown variable")
       \/ d # NoNode /\ node_at(d).kind = "ConstantDeclaration" /\ Throw("undefined behaviour")
       \/ /\ d # NoNode /\ node_at(d).kind # "ConstantDeclaration"
          /\ Append_use(d)
          /\ current_value_' = computed(allocated_type(d))
          /\ uses' = [uses EXCEPT ![here] = d]
          /\ Goes_on(<< >>)
          /\ KeepTables
          /\ UNCHANGED << kept, insert_block, refused, stores, outcome >>
    /\ Tree

entry_values_and_outer(owners) ==
    [x \in Name |-> IF \E d \in owners : node_at(d).name = x
                    THEN CHOOSE d \in owners : node_at(d).name = x ELSE named_values_[x]]

entry_values_cleared(owners) == [x \in Name |-> NoNode]

\* named_values_ at the start of a body: the arguments, and nothing else.
entry_values(owners) ==
    [x \in Name |-> IF \E d \in owners : node_at(d).name = x
                    THEN CHOOSE d \in owners : node_at(d).name = x ELSE NoNode]

\* The entry block makes storage for the arguments and stores them in it.
visit_function_declaration ==
    LET params == node_at(here).params
        entry == Len(blocks) + 1
        owners == {params[i] : i \in DOMAIN params}
    IN
    /\ Visits("FunctionDeclaration")
    /\ blocks' = Append(blocks, [new_block(entry) EXCEPT !.makes = owners])
    /\ insert_block' = entry
    /\ prev_named_values' = named_values_
    /\ current_function_' = here
    /\ named_values_' = entry_values(owners)
    /\ Goes_on(visit(node_at(here).body) \o << item("end_function", here, NoNode) >>)
    /\ UNCHANGED << current_value_, functions_, kept, refused, uses, stores, outcome >>
    /\ Tree

no_default_return == blocks

\* Zero, or nothing, where the body ends without a return.
default_return ==
    IF blocks[insert_block].ended THEN blocks
    ELSE [blocks EXCEPT ![insert_block] = terminated(@, {})]

\* Only now may a call find the function.
end_function ==
    /\ Next_is("end_function")
    /\ blocks' = default_return
    /\ named_values_' = prev_named_values
    /\ functions_' = [functions_ EXCEPT ![node_at(here).name] = here]
    /\ current_function_' = NoNode
    /\ current_value_' = computed("ptr")
    /\ Goes_on(<< >>)
    /\ UNCHANGED << prev_named_values, kept, insert_block, refused, uses, stores, outcome >>
    /\ Tree

visit_function_call ==
    LET f == functions_[node_at(here).name]
        args == visit(node_at(here).operands)
    IN
    /\ Visits("FunctionCall")
    /\ \/ f = NoNode /\ Throw("unknown function")
       \/ f # NoNode /\ Len(args) # Len(node_at(f).params) /\ Throw("argument count")
       \/ /\ f # NoNode /\ Len(args) = Len(node_at(f).params)
          /\ Goes_on([i \in 1 .. 2 * Len(args) |->
                        IF i % 2 = 1 THEN args[(i + 1) \div 2] ELSE item("keep", here, NoNode)]
                       \o << item("call", here, f) >>)
          /\ uses' = [uses EXCEPT ![here] = f]
          /\ KeepTables /\ KeepBuilder
          /\ UNCHANGED << current_value_, kept, stores, outcome >>
    /\ Tree

\* The call is given a name, which LLVM refuses for one that returns nothing.
call ==
    LET params == node_at(entry_here).params
        before == Len(kept) - Len(params)
        type == primitive_to_llvm_type(node_at(entry_here).type)
        legal == /\ type # "void"
                 /\ \A i \in DOMAIN params : kept[before + i].type = allocated_type(params[i])
    IN
    /\ Next_is("call")
    /\ \/ \E i \in DOMAIN params : kept[before + i] = NoValue /\ Throw("no value")
       \/ /\ \A i \in DOMAIN params : kept[before + i] # NoValue
          /\ current_value_' = computed(type)
          /\ kept' = SubSeq(kept, 1, before)
          /\ Append_instruction
          /\ Refuse_unless(legal)
          /\ Goes_on(<< >>)
          /\ KeepTables
          /\ UNCHANGED << insert_block, uses, stores, outcome >>
    /\ Tree

visit_function_return ==
    /\ Visits("FunctionReturn")
    /\ Goes_on(visit(node_at(here).operands) \o << item("return", here, NoNode) >>)
    /\ UNCHANGED << current_value_, kept, uses, stores, outcome >>
    /\ Tree /\ KeepTables /\ KeepBuilder

return ==
    LET returned == primitive_to_llvm_type(node_at(current_function_).type)
        type == IF has_value(node_at(here)) THEN current_value_.type ELSE "void"
    IN
    /\ Next_is("return")
    /\ \/ has_value(node_at(here)) /\ current_value_ = NoValue /\ Throw("no value")
       \/ /\ has_value(node_at(here)) => current_value_ # NoValue
          /\ blocks' = [blocks EXCEPT ![insert_block] = terminated(@, {})]
          /\ Refuse_unless(type = returned)
          /\ Goes_on(<< >>)
          /\ KeepTables
          /\ UNCHANGED << current_value_, kept, insert_block, uses, stores, outcome >>
    /\ Tree

visit_if ==
    /\ Visits("If")
    /\ Goes_on(visit(node_at(here).operands) \o << item("branch", here, NoNode) >>)
    /\ UNCHANGED << current_value_, kept, uses, stores, outcome >>
    /\ Tree /\ KeepTables /\ KeepBuilder

\* The new blocks are "then", "ifcont" and, if there is an else, "else".
branch ==
    LET then_bb == Len(blocks) + 1
        merge_bb == Len(blocks) + 2
        else_bb == Len(blocks) + 3
        new == new_block(blocks[insert_block].entry)
        other == IF has_else(node_at(here)) THEN else_bb ELSE merge_bb
    IN
    /\ Next_is("branch")
    /\ \/ current_value_ = NoValue /\ Throw("no value")
       \/ /\ current_value_ # NoValue
          /\ current_value_.type \notin IntegerTy \cup FloatingPointTy
          /\ Throw("invalid condition")
       \/ /\ current_value_.type \in IntegerTy \cup FloatingPointTy
          /\ blocks' = [blocks EXCEPT ![insert_block] = terminated(@, {then_bb, other})]
                         \o (IF has_else(node_at(here)) THEN << new, new, new >> ELSE << new, new >>)
          /\ insert_block' = then_bb
          /\ Goes_on(visit(node_at(here).body) \o << item("end_then", here, merge_bb) >>)
          /\ KeepTables
          /\ UNCHANGED << current_value_, kept, refused, uses, stores, outcome >>
    /\ Tree

Branch_always(target) == blocks' = [blocks EXCEPT ![insert_block] = terminated(@, {target})]

Branch_to(target) ==
    blocks' = IF blocks[insert_block].ended THEN blocks
              ELSE [blocks EXCEPT ![insert_block] = terminated(@, {target})]

end_then ==
    /\ Next_is("end_then")
    /\ Branch_to(entry_here)
    /\ \/ /\ has_else(node_at(here))
          /\ insert_block' = entry_here + 1
          /\ Goes_on(visit(node_at(here).orelse) \o << item("end_else", here, entry_here) >>)
       \/ /\ ~ has_else(node_at(here))
          /\ insert_block' = entry_here
          /\ Goes_on(<< >>)
    /\ KeepTables
    /\ UNCHANGED << current_value_, kept, refused, uses, stores, outcome >>
    /\ Tree

end_else ==
    /\ Next_is("end_else")
    /\ Branch_to(entry_here)
    /\ insert_block' = entry_here
    /\ Goes_on(<< >>)
    /\ KeepTables
    /\ UNCHANGED << current_value_, kept, refused, uses, stores, outcome >>
    /\ Tree

visit_constant_declaration ==
    /\ Visits("ConstantDeclaration")
    /\ Goes_on(visit(node_at(here).operands) \o << item("define_constant", here, NoNode) >>)
    /\ UNCHANGED << current_value_, kept, uses, stores, outcome >>
    /\ Tree /\ KeepTables /\ KeepBuilder

define_constant ==
    /\ Next_is("define_constant")
    /\ \/ current_value_ = NoValue /\ Throw("no value")
       \/ current_value_ # NoValue /\ ~ current_value_.constant /\ Throw("not a constant")
       \/ /\ current_value_.constant
          /\ named_values_' = [named_values_ EXCEPT ![node_at(here).name] = here]
          /\ Goes_on(<< >>)
          /\ UNCHANGED << prev_named_values, functions_, current_function_, current_value_, kept,
                          uses, stores, outcome >>
          /\ KeepBuilder
    /\ Tree

\* The wrapper only returns 0.
create_main_wrapper ==
    /\ Generating /\ todo = << >>
    /\ functions_["main"] = NoNode
    /\ functions_' = [functions_ EXCEPT !["main"] = Wrapper]
    /\ blocks' = Append(blocks, terminated(new_block(Len(blocks) + 1), {}))
    /\ insert_block' = Len(blocks) + 1
    /\ UNCHANGED << todo, named_values_, prev_named_values, current_function_, current_value_,
                    kept, refused, uses, stores, outcome >>
    /\ Tree

verify_module ==
    /\ Generating /\ todo = << >>
    /\ functions_["main"] # NoNode
    /\ outcome' = IF refused = {} /\ Terminated(blocks) /\ Dominated(blocks)
                  THEN "verified" ELSE "verification failed"
    /\ UNCHANGED << todo, current_value_, kept, uses, stores >>
    /\ Tree /\ KeepTables /\ KeepBuilder

-------------------------------------------------------------------------------

Init ==
    /\ todo = << >>
    /\ current_value_ = NoValue
    /\ kept = << >>
    /\ named_values_ = [x \in Name |-> NoNode]
    /\ prev_named_values = [x \in Name |-> NoNode]
    /\ functions_ = [x \in Symbol |-> NoNode]
    /\ current_function_ = NoNode
    /\ blocks = << >>
    /\ insert_block = 0
    /\ refused = {}
    /\ uses = [n \in DOMAIN ast.nodes |-> NoNode]
    /\ stores = {}
    /\ outcome = "idle"

Next ==
    \/ generate
    \/ visit_literal
    \/ keep_value
    \/ visit_binary_op
    \/ binary_op
    \/ visit_unary_op
    \/ unary_op
    \/ visit_variable_declaration
    \/ bind_variable
    \/ visit_variable_assignment
    \/ store_value
    \/ visit_variable_lookup
    \/ visit_function_declaration
    \/ end_function
    \/ visit_function_call
    \/ call
    \/ visit_function_return
    \/ return
    \/ visit_if
    \/ branch
    \/ end_then
    \/ end_else
    \/ visit_constant_declaration
    \/ define_constant
    \/ create_main_wrapper
    \/ verify_module

TypeOK ==
    /\ todo \in Seq(Item)
    /\ current_value_ \in Value \cup {NoValue}
    /\ kept \in Seq(Value \cup {NoValue})
    /\ named_values_ \in [Name -> {NoNode} \cup DOMAIN ast.nodes]
    /\ prev_named_values \in [Name -> {NoNode} \cup DOMAIN ast.nodes]
    /\ functions_ \in [Symbol -> {NoNode, Wrapper} \cup DOMAIN ast.nodes]
    /\ current_function_ \in {NoNode} \cup DOMAIN ast.nodes
    /\ blocks \in Seq(Block)
    /\ insert_block \in 0 .. Len(blocks)
    /\ refused \subseteq DOMAIN ast.nodes
    /\ uses \in [DOMAIN ast.nodes -> {NoNode} \cup DOMAIN ast.nodes]
    /\ stores \subseteq (DOMAIN ast.nodes) \X LlvmType \X LlvmType
    /\ outcome \in Outcome
================================================================================
