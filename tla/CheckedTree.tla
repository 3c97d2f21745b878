------------------------------ MODULE CheckedTree ------------------------------
(***************************************************************************)
(* What the code generator takes for granted of a tree, and a validation   *)
(* without errors has made sure of: every call passes as many arguments as *)
(* its function takes, no function has the name of another, and no operand *)
(* of an operator, argument or condition is a call without a value.        *)
(***************************************************************************)
EXTENDS Ast

InTop(tree, n) == \E i \in DOMAIN tree.top : tree.top[i] = n

Functions(tree, x) ==
    {n \in DOMAIN tree.nodes : is_function(tree.nodes[n]) /\ tree.nodes[n].name = x /\ InTop(tree, n)}

\* The expression is not a call of a function that returns nothing.
HasNumber(tree, n) ==
    tree.nodes[n].kind = "FunctionCall" =>
      \E f \in Functions(tree, tree.nodes[n].name) : tree.nodes[f].type # UNDEF

\* Nodes whose operands all have to be numbers.
Calculates == {"BinaryOp", "UnaryOp", "FunctionCall", "If"}

\* The nodes the generator visits are all among those that were looked at.
Closed(tree, seen) ==
    /\ \A i \in DOMAIN tree.top : tree.top[i] \in seen
    /\ \A n \in seen :
         LET node == tree.nodes[n] IN
         /\ \A i \in DOMAIN node.operands : node.operands[i] \in seen
         /\ node.kind \in {"FunctionDeclaration", "If"} =>
              \A i \in DOMAIN node.body : node.body[i] \in seen
         /\ node.kind = "If" => \A i \in DOMAIN node.orelse : node.orelse[i] \in seen

Checked(tree, seen) ==
    /\ seen \subseteq DOMAIN tree.nodes
    /\ Closed(tree, seen)
    /\ \A n \in seen :
         LET node == tree.nodes[n] IN
         /\ node.kind = "FunctionCall" =>
              \E f \in Functions(tree, node.name) : Len(tree.nodes[f].params) = Len(node.operands)
         /\ node.kind \in Calculates =>
              \A i \in DOMAIN node.operands : HasNumber(tree, node.operands[i])
    /\ \A x \in Name : \A f, g \in Functions(tree, x) : f = g
================================================================================
