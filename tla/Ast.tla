---------------------------------- MODULE Ast ----------------------------------
(***************************************************************************)
(* The abstract syntax tree (src/src/ast.hpp), as the grammar builds it.   *)
(* A tree is the sequence of its nodes, every child before its parent, and *)
(* top, the top-level list.  A node's number stands for its address: the   *)
(* symbol table and the error list refer to nodes by it.                   *)
(*                                                                         *)
(* Literals have no value and nodes no location: nothing the compiler      *)
(* decides before it emits a value depends on them.  BlockNode, array and  *)
(* identifier types are left out: no rule of the grammar builds one.       *)
(***************************************************************************)
EXTENDS ChaTypes, Sequences

CONSTANT Name       \* identifiers

NoName == ""        \* the name of a node without one

NoNode == 0         \* the null pointer

Literal == {"ConstantInteger", "ConstantUnsignedInteger", "ConstantFloat", "ConstantBool"}

Declaration == {"ConstantDeclaration", "VariableDeclaration", "Argument", "FunctionDeclaration"}

Expression == Literal \cup {"BinaryOp", "UnaryOp", "VariableLookup", "FunctionCall"}

Kind == Expression \cup Declaration \cup {"VariableAssignment", "FunctionReturn", "If"}

Arithmetic == {"PLUS", "MINUS", "STAR", "SLASH"}

Comparison == {"EQUALS_EQUALS", "NOT_EQUALS", "GREATER_THAN", "GREATER_THAN_OR_EQUALS",
               "LESS_THAN", "LESS_THAN_OR_EQUALS"}

Logical == {"AND", "OR"}

UnaryOperator == {"NEGATE", "NOT"}

Operator == Arithmetic \cup Comparison \cup Logical \cup UnaryOperator

(***************************************************************************)
(* The fields of the node classes.  operands are the nodes of the          *)
(* expressions evaluated for it: left and right, the operand, the value,   *)
(* the condition, or the arguments of a call.  body is also then_block,    *)
(* orelse is else_block, type the declared or returned type.               *)
(***************************************************************************)
AstNode == [kind     : Kind,
            name     : Name \cup {NoName},
            op       : Operator \cup {"none"},
            type     : ResultType,
            operands : Seq(Nat),
            params   : Seq(Nat),
            body     : Seq(Nat),
            orelse   : Seq(Nat)]

\* What the grammar allows as an instruction, and as a statement.
TopLevel == {"ConstantDeclaration", "FunctionDeclaration"}

Statement == Expression \cup {"VariableDeclaration", "VariableAssignment", "FunctionReturn", "If"}

Named == Declaration \cup {"VariableLookup", "VariableAssignment", "FunctionCall"}

\* The types a program can name: the grammar's reftype.
RefType == SizedInteger \cup (FLOAT16 .. FLOAT64) \cup {BOOL}

\* The types a node of the kind declares; a function without one is UNDEF.
DeclaredTypes(kind) ==
    CASE kind \in {"VariableDeclaration", "Argument"} -> RefType
      [] kind = "FunctionDeclaration"                 -> RefType \cup {UNDEF}
      [] OTHER                                        -> {NoType}

\* How many operands a node of the kind has.
Operands(kind) ==
    CASE kind = "BinaryOp" -> {2}
      [] kind \in {"UnaryOp", "VariableAssignment", "If", "ConstantDeclaration"} -> {1}
      [] kind \in {"VariableDeclaration", "FunctionReturn"} -> {0, 1}
      [] kind = "FunctionCall" -> Nat
      [] OTHER -> {0}

\* The operators of a node of the kind.
Operators(kind) ==
    CASE kind = "BinaryOp" -> Arithmetic \cup Comparison \cup Logical
      [] kind = "UnaryOp"  -> UnaryOperator
      [] OTHER             -> {"none"}

Children(node) == node.operands \o node.params \o node.body \o node.orelse

\* The first node, in tree order, of the subtree of n.
FirstOf(tree) ==
    LET first[n \in DOMAIN tree.nodes] ==
          LET children == Children(tree.nodes[n])
          IN  IF children = << >> THEN n ELSE first[children[1]]
    IN  first

\* Children precede parents, so a subtree is an interval of nodes.
Under(tree, n, m) == n \in FirstOf(tree)[m] .. m

\* The subtrees of the list are, one behind the other, the nodes behind a up
\* to b.
Spans(first, list, a, b) ==
    /\ list = << >> => a = b
    /\ list # << >> => first[list[1]] = a + 1 /\ list[Len(list)] = b
    /\ \A i \in 1 .. Len(list) - 1 : first[list[i + 1]] = list[i] + 1

(***************************************************************************)
(* Every node has one place: unique_ptr owns it.  The numbers follow the   *)
(* order in which the grammar's actions make the nodes.                    *)
(***************************************************************************)
InPostOrder(tree) ==
    LET first == FirstOf(tree) IN
    /\ \A n \in DOMAIN tree.nodes :
         first[n] \in 1 .. n /\ Spans(first, Children(tree.nodes[n]), first[n] - 1, n - 1)
    /\ Spans(first, tree.top, 0, Len(tree.nodes))

IsAst(tree) ==
    LET NodesOf(kinds, bound) == {n \in 1 .. bound : tree.nodes[n].kind \in kinds} IN
    /\ tree.nodes \in Seq(AstNode)
    /\ tree.top \in Seq(NodesOf(TopLevel, Len(tree.nodes)))
    /\ \A n \in DOMAIN tree.nodes :
         LET node == tree.nodes[n] IN
           /\ node.operands \in Seq(NodesOf(Expression, n - 1))
           /\ node.params \in Seq(NodesOf({"Argument"}, n - 1))
           /\ node.body \in Seq(NodesOf(Statement, n - 1))
           /\ node.orelse \in Seq(NodesOf(Statement, n - 1))
           /\ Len(node.operands) \in Operands(node.kind)
           /\ node.kind \in Named => node.name \in Name
           /\ node.type \in DeclaredTypes(node.kind)
           /\ node.op \in Operators(node.kind)
           /\ node.kind = "ConstantDeclaration" => node.operands \in Seq(NodesOf(Literal, n - 1))
           /\ node.kind # "FunctionDeclaration" => node.params = << >>
           /\ node.kind \notin {"FunctionDeclaration", "If"} => node.body = << >>
           /\ node.kind # "If" => node.orelse = << >>
    /\ InPostOrder(tree)

\* The result type a node is constructed with.
initial_type(node) ==
    CASE node.kind = "ConstantInteger"         -> CONST_INT
      [] node.kind = "ConstantUnsignedInteger" -> CONST_UINT
      [] node.kind = "ConstantFloat"           -> CONST_FLOAT
      [] node.kind = "ConstantBool"            -> BOOL
      [] node.kind \notin Literal              -> NoType

has_value(node) == node.operands # << >>

has_else(node) == node.orelse # << >>

is_function(node) == node.kind = "FunctionDeclaration"
================================================================================
