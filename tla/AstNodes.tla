-------------------------------- MODULE AstNodes --------------------------------
(***************************************************************************)
(* The nodes the grammar's actions make (src/src/parser.y), one            *)
(* constructor per kind.  An operand is whatever the tree at hand refers   *)
(* to nodes by: the parser gives their numbers, AstBuilder the nodes.      *)
(***************************************************************************)
EXTENDS Ast

expression(kind, name, op, operands) ==
    [kind |-> kind, name |-> name, op |-> op, type |-> NoType, operands |-> operands,
     params |-> << >>, body |-> << >>, orelse |-> << >>]

declaration(kind, name, type, operands) ==
    [kind |-> kind, name |-> name, op |-> "none", type |-> type, operands |-> operands,
     params |-> << >>, body |-> << >>, orelse |-> << >>]

const_value(kind) == expression(kind, NoName, "none", << >>)

variable_lookup(x) == expression("VariableLookup", x, "none", << >>)

function_call(f, args) == expression("FunctionCall", f, "none", args)

binary_op(op, left, right) == expression("BinaryOp", NoName, op, << left, right >>)

unary_op(op, operand) == expression("UnaryOp", NoName, op, << operand >>)

const_definition(x, value) == declaration("ConstantDeclaration", x, NoType, << value >>)

\* value is a sequence of at most one expression.
variable_declaration(x, type, value) == declaration("VariableDeclaration", x, type, value)

arg(x, type) == declaration("Argument", x, type, << >>)

\* Without a reftype the function's type is UNDEF, which is void.
function(f, args, type, block) ==
    [kind |-> "FunctionDeclaration", name |-> f, op |-> "none", type |-> type,
     operands |-> << >>, params |-> args, body |-> block, orelse |-> << >>]

variable_assignment(x, value) == expression("VariableAssignment", x, "none", << value >>)

function_return(value) == expression("FunctionReturn", NoName, "none", value)

if_statement(condition, then_block, else_block) ==
    [kind |-> "If", name |-> NoName, op |-> "none", type |-> NoType,
     operands |-> << condition >>, params |-> << >>, body |-> then_block, orelse |-> else_block]
================================================================================
