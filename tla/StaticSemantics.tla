---------------------------- MODULE StaticSemantics ----------------------------
(***************************************************************************)
(* The rules of the language stated over the finished tree, with no order  *)
(* of evaluation, no symbol table and no stack: what a name means by where *)
(* it stands, what type an expression has by its parts, and which nodes    *)
(* are legal.  The Validator is checked against them.                      *)
(***************************************************************************)
EXTENDS Ast, Functions

(***************************************************************************)
(* The lists of nodes that are one scope each: the program; the arguments  *)
(* and the body of a function together; and each block of an if.           *)
(***************************************************************************)
ScopeLists(tree) ==
    LET nodes == {tree.nodes[n] : n \in DOMAIN tree.nodes}
    IN  {tree.top}
        \cup {f.params \o f.body : f \in {g \in nodes : is_function(g)}}
        \cup {i.body : i \in {g \in nodes : g.kind = "If"}}
        \cup {i.orelse : i \in {g \in nodes : g.kind = "If"}}

Declarations(tree, list, x) ==
    {d \in Range(list) : tree.nodes[d].kind \in Declaration /\ tree.nodes[d].name = x}

\* All functions are known from the start, anything else in the rest of its
\* list, so not in its own initialiser.
Known(tree, d, m) == is_function(tree.nodes[d]) \/ d < m

Precedes(tree, d, e) ==
    IF is_function(tree.nodes[d]) <=> is_function(tree.nodes[e])
    THEN d < e ELSE is_function(tree.nodes[d])

\* Of the declarations of x in the list the first one known is the one that
\* counts.
FirstDeclared(tree, list, x) ==
    CHOOSE d \in Declarations(tree, list, x) :
      \A e \in Declarations(tree, list, x) : e = d \/ Precedes(tree, d, e)

(***************************************************************************)
(* Where n stands in the list, if a declaration of x is known there.       *)
(* Resolve is the declaration in force at n in the innermost such list,    *)
(* NoNode if there is none.                                                *)
(***************************************************************************)
InForce(tree, n, x, list) ==
    {m \in Range(list) :
       Under(tree, n, m) /\ \E d \in Declarations(tree, list, x) : Known(tree, d, m)}

Resolve(tree, n) ==
    LET x == tree.nodes[n].name
        lists == {list \in ScopeLists(tree) : InForce(tree, n, x, list) # {}}
        innermost == CHOOSE list \in lists : \A other \in lists :
                       \A m \in InForce(tree, n, x, list), o \in InForce(tree, n, x, other) : m <= o
    IN  IF lists = {} THEN NoNode ELSE FirstDeclared(tree, innermost, x)

\* The type a declaration gives to the uses of its name.
DeclaredType(tree, d) ==
    IF d = NoNode \/ is_function(tree.nodes[d]) THEN NoType
    ELSE IF tree.nodes[d].kind = "ConstantDeclaration"
         THEN initial_type(tree.nodes[tree.nodes[d].operands[1]])
         ELSE tree.nodes[d].type

\* The type of every expression of the tree, NoType if it has none.
TypesOf(tree) ==
    LET types[n \in DOMAIN tree.nodes] ==
          LET node == tree.nodes[n]
              left == types[node.operands[1]]
              right == types[node.operands[2]]
              common == convert_arithmetic_types(left, right)
          IN  CASE node.kind \in Literal -> initial_type(node)
                [] node.kind = "VariableLookup" -> DeclaredType(tree, Resolve(tree, n))
                [] node.kind = "FunctionCall" ->
                     LET f == Resolve(tree, n) IN
                     IF f # NoNode /\ is_function(tree.nodes[f]) THEN tree.nodes[f].type ELSE NoType
                [] node.op \in Arithmetic ->
                     IF common # UNDEF THEN common ELSE NoType
                [] node.op \in Comparison ->
                     IF NoType \notin {left, right} /\ is_numeric_comparison_compatible(left, right)
                     THEN BOOL ELSE NoType
                [] node.op \in Logical -> IF left = BOOL /\ right = BOOL THEN BOOL ELSE NoType
                [] node.op = "NEGATE" -> IF is_numeric(left) THEN left ELSE NoType
                [] node.op = "NOT" -> IF left = BOOL THEN BOOL ELSE NoType
                [] OTHER -> NoType
    IN  types

\* Only the first declaration of a name in a list is legal.
FirstInScope(tree, d) ==
    \A list \in ScopeLists(tree) :
      d \in Range(list) => FirstDeclared(tree, list, tree.nodes[d].name) = d

EnclosingFunction(tree, n) ==
    CHOOSE f \in DOMAIN tree.nodes : is_function(tree.nodes[f]) /\ Under(tree, n, f)

LegalNode(tree, types, n) ==
    LET node == tree.nodes[n]
        decl == Resolve(tree, n)
        value == IF has_value(node) THEN types[node.operands[1]] ELSE NoType
        returned == tree.nodes[EnclosingFunction(tree, n)].type
    IN  CASE node.kind \in Declaration -> FirstInScope(tree, n)
          [] node.kind = "VariableAssignment" ->
               /\ decl # NoNode
               /\ tree.nodes[decl].kind = "VariableDeclaration"
                    => check_type_assignment(value, tree.nodes[decl].type)
          [] node.kind = "FunctionCall" ->
               /\ decl # NoNode
               /\ is_function(tree.nodes[decl])
               /\ Len(tree.nodes[decl].params) = Len(node.operands)
               /\ \A i \in DOMAIN node.operands :
                    check_type_assignment(types[node.operands[i]],
                                          tree.nodes[tree.nodes[decl].params[i]].type)
          [] node.kind = "FunctionReturn" ->
               /\ has_value(node) <=> returned # UNDEF
               /\ has_value(node) => check_type_assignment(value, returned)
          [] node.kind = "If" -> value = BOOL
          [] OTHER -> types[n] # NoType

Legal(tree) ==
    LET types == TypesOf(tree)
    IN  \A n \in DOMAIN tree.nodes : LegalNode(tree, types, n)

\* The three families of numbers between which nothing moves implicitly.
Family(type) ==
    CASE is_signed_int(type)   -> "signed"
      [] is_unsigned_int(type) -> "unsigned"
      [] is_float(type)        -> "float"
      [] OTHER                 -> "none"

(***************************************************************************)
(* Two constants of different families compared.  Each is given the type   *)
(* of the other, so both are constants again.  A constant beside an        *)
(* operand of a fixed type is given that type, of whatever family, and     *)
(* keeps it.                                                               *)
(***************************************************************************)
CrossesConstants(tree) ==
    LET types == TypesOf(tree)
    IN  \E n \in DOMAIN tree.nodes :
          LET left == types[tree.nodes[n].operands[1]]
              right == types[tree.nodes[n].operands[2]]
          IN  /\ tree.nodes[n].op \in Comparison
              /\ {left, right} \subseteq ConstType
              /\ left # right
================================================================================
