-------------------------- MODULE CodeGeneratorProofs --------------------------
(***************************************************************************)
(* For any tree the grammar allows, accepted or not, and whatever result   *)
(* types it is given: the CodeGenerator keeps its types, never lacks a     *)
(* value or a constant where it needs one, never casts a global to a local *)
(* variable, and leaves no block open.  For a tree whose nodes the         *)
(* validator has checked it also never passes a call the wrong number of   *)
(* arguments, or branches on what is not a number, and for a tree whose    *)
(* functions name their arguments apart its tables hold of every name the  *)
(* latest storage, and the functions, that come before in tree order.      *)
(* Every value it keeps has the type its node gets from what was found for *)
(* the names in it, and a module it verifies has no call and no return of  *)
(* another type than its place takes.                                      *)
(***************************************************************************)
EXTENDS CodeGenerator, CheckedTree, TreeProofs, TLAPS

vars == << ast, result_type, todo, current_value_, kept, named_values_, prev_named_values,
           functions_, current_function_, blocks, insert_block, refused, uses, stores, outcome >>

-------------------------------------------------------------------------------
(***************************************************************************)
(* What is left to do.  An item is for a node of the kind whose visitor    *)
(* left it, and what it holds on to is what that visitor found.            *)
(***************************************************************************)

Storage(tree) == {n \in DOMAIN tree.nodes : tree.nodes[n].kind \in {"VariableDeclaration", "Argument"}}

Constants(tree) == {n \in DOMAIN tree.nodes : tree.nodes[n].kind = "ConstantDeclaration"}

Fits(tree, i) ==
    LET node == tree.nodes[i.node] IN
    /\ i \in Item
    /\ i.node \in DOMAIN tree.nodes
    /\ (i.do \in {"visit", "end_function"} /\ node.kind \in TopLevel) => InTop(tree, i.node)
    /\ i.do = "binary_op" => node.kind = "BinaryOp"
    /\ i.do = "unary_op" => node.kind = "UnaryOp"
    /\ i.do = "bind" => node.kind = "VariableDeclaration"
    /\ i.do = "store" => node.kind = "VariableAssignment" /\ i.entry \in Storage(tree)
    /\ i.do = "call" => /\ node.kind = "FunctionCall"
                        /\ i.entry \in Functions(tree, node.name)
                        /\ Len(tree.nodes[i.entry].params) = Len(node.operands)
    /\ i.do = "return" => node.kind = "FunctionReturn"
    /\ i.do \in {"branch", "end_then", "end_else"} => node.kind = "If"
    /\ i.do = "end_function" => node.kind = "FunctionDeclaration"
    /\ i.do = "define_constant" => node.kind = "ConstantDeclaration"

\* It does something inside a function.
Inside(tree, i) ==
    /\ i.do \notin {"end_function", "define_constant"}
    /\ i.do = "visit" => tree.nodes[i.node].kind \in Statement

Instruction(tree, i) == i.do = "visit" /\ tree.nodes[i.node].kind \in TopLevel

\* It is there for the value of the last expression.
Needs(tree, i) ==
    \/ i.do \in {"keep", "binary_op", "unary_op", "store", "branch"}
    \/ i.do \in {"bind", "return"} /\ has_value(tree.nodes[i.node])

\* It leaves a value behind.
Yields(tree, i) ==
    \/ i.do \in {"binary_op", "unary_op", "call"}
    \/ i.do = "visit" /\ tree.nodes[i.node].kind \in Expression

\* It ends a block with a return, or will.
Returns(tree, i) ==
    \/ i.do = "return"
    \/ i.do = "visit" /\ tree.nodes[i.node].kind = "FunctionReturn"

\* It goes on in another block.
Ends(i) == i.do \in {"end_then", "end_else", "end_function"}

ReturnsEarly(tree, list) == \E i \in 1 .. Len(list) - 1 : tree.nodes[list[i]].kind = "FunctionReturn"

\* A statement follows a return in the same list.
LeavesEarly(tree) ==
    \E n \in DOMAIN tree.nodes :
      \/ tree.nodes[n].kind \in {"FunctionDeclaration", "If"} /\ ReturnsEarly(tree, tree.nodes[n].body)
      \/ tree.nodes[n].kind = "If" /\ ReturnsEarly(tree, tree.nodes[n].orelse)

\* Item b may come right after item a.
Follows(tree, a, b) ==
    /\ Needs(tree, b) => Yields(tree, a)
    /\ Returns(tree, a) => Ends(b) \/ LeavesEarly(tree)

Chained(tree, s) == \A j \in 1 .. Len(s) - 1 : Follows(tree, s[j], s[j + 1])

ItemsInv ==
    /\ todo \in Seq(Item)
    /\ \A j \in DOMAIN todo : Fits(ast, todo[j])
    /\ Chained(ast, todo)

(***************************************************************************)
(* The instructions still to be visited come last.  Before them is what is *)
(* left of one function, up to its end_function, or of one constant, of    *)
(* which only its literal and its definition can be.                       *)
(***************************************************************************)

Defines(k) ==
    /\ k \in 0 .. 2
    /\ k # 0 => todo[k].do = "define_constant"
    /\ k = 1 => current_value_.constant
    /\ k = 2 => todo[1].do = "visit" /\ node_at(todo[1].node).kind \in Literal

Generates(k) ==
    /\ k # 0
    /\ todo[k] = item("end_function", current_function_, NoNode)
    /\ \A j \in 1 .. k - 1 : Inside(ast, todo[j])

RegionInv ==
    \E k \in 0 .. Len(todo) :
      /\ \A j \in k + 1 .. Len(todo) : Instruction(ast, todo[j])
      /\ IF current_function_ = NoNode THEN Defines(k) ELSE Generates(k)

ValueInv ==
    /\ current_value_ \in Value \cup {NoValue}
    /\ (todo # << >> /\ Needs(ast, todo[1])) => current_value_ # NoValue

\* How many more values are kept after the item than before it.
Effect(tree, i) ==
    CASE i.do = "keep"      -> 1
      [] i.do = "binary_op" -> -1
      [] i.do = "call"      -> -Len(tree.nodes[i.entry].params)
      [] OTHER              -> 0

\* So many values are kept before each item, if there are n before the first.
Depths(tree, d, s, n) ==
    /\ d \in [1 .. Len(s) + 1 -> Nat]
    /\ d[1] = n
    /\ \A j \in 1 .. Len(s) : d[j + 1] = d[j] + Effect(tree, s[j])

KeptInv ==
    /\ kept \in Seq(Value)
    /\ \E d : Depths(ast, d, todo, Len(kept))

-------------------------------------------------------------------------------
(* The tables of names, and the blocks. *)

NamesInv ==
    /\ current_function_ \in {NoNode} \cup DOMAIN ast.nodes
    /\ named_values_ \in [Name -> {NoNode} \cup
                            (IF current_function_ = NoNode THEN Constants(ast) ELSE Storage(ast))]
    /\ prev_named_values \in [Name -> {NoNode} \cup Constants(ast)]
    /\ functions_ \in [Symbol -> {NoNode, Wrapper} \cup DOMAIN ast.nodes]
    /\ \A x \in Symbol : \/ functions_[x] \in {NoNode} \cup Functions(ast, x)
                         \/ functions_[x] = Wrapper /\ todo = << >>

\* The blocks an item will go on in.
Awaits(tree, i) ==
    CASE i.do = "end_then" /\ has_else(tree.nodes[i.node]) -> {i.entry, i.entry + 1}
      [] i.do = "end_then" /\ ~ has_else(tree.nodes[i.node]) -> {i.entry}
      [] i.do = "end_else" -> {i.entry}
      [] OTHER -> {}

(***************************************************************************)
(* A block is open as long as something is still to be put in it: it is    *)
(* the one the builder appends to, or one that exactly one item goes on in. *)
(***************************************************************************)
BlocksInv ==
    /\ blocks \in Seq(Block)
    /\ insert_block \in 0 .. Len(blocks)
    /\ current_function_ # NoNode => insert_block # 0
    /\ \A j \in DOMAIN todo : \A b \in Awaits(ast, todo[j]) :
         b \in DOMAIN blocks /\ b # insert_block /\ ~ blocks[b].ended
    /\ \A i, j \in DOMAIN todo : i # j => Awaits(ast, todo[i]) \cap Awaits(ast, todo[j]) = {}
    /\ \A b \in DOMAIN blocks :
         \/ blocks[b].ended
         \/ current_function_ # NoNode /\ b = insert_block
         \/ \E j \in DOMAIN todo : b \in Awaits(ast, todo[j])
    /\ ~ LeavesEarly(ast) =>
         /\ \A b \in DOMAIN blocks : ~ blocks[b].broken
         /\ (current_function_ # NoNode /\ blocks[insert_block].ended) => Ends(todo[1])

RecordsInv ==
    /\ refused \subseteq DOMAIN ast.nodes
    /\ uses \in [DOMAIN ast.nodes -> {NoNode} \cup DOMAIN ast.nodes]
    /\ stores \subseteq (DOMAIN ast.nodes) \X LlvmType \X LlvmType
    /\ outcome \in Outcome \ {"no value", "not a constant", "undefined behaviour"}
    /\ outcome \in {"idle", "verified", "verification failed"} => todo = << >>
    /\ outcome = "idle" => \A x \in Symbol : functions_[x] = NoNode

GInv ==
    /\ IsAst(ast)
    /\ ItemsInv
    /\ RegionInv
    /\ ValueInv
    /\ KeptInv
    /\ NamesInv
    /\ BlocksInv
    /\ RecordsInv

-------------------------------------------------------------------------------
(* The tree and the types. *)

LEMMA NodeFacts ==
  ASSUME IsAst(ast), NEW n \in DOMAIN ast.nodes
  PROVE  /\ DOMAIN ast.nodes \subseteq Nat \ {NoNode}
         /\ ast.nodes[n] \in AstNode
         /\ \A i \in DOMAIN ast.nodes[n].operands :
              /\ ast.nodes[n].operands[i] \in DOMAIN ast.nodes
              /\ ast.nodes[ast.nodes[n].operands[i]].kind \in Expression
         /\ \A i \in DOMAIN ast.nodes[n].params :
              /\ ast.nodes[n].params[i] \in DOMAIN ast.nodes
              /\ ast.nodes[ast.nodes[n].params[i]].kind = "Argument"
         /\ \A i \in DOMAIN ast.nodes[n].body :
              /\ ast.nodes[n].body[i] \in DOMAIN ast.nodes
              /\ ast.nodes[ast.nodes[n].body[i]].kind \in Statement
         /\ \A i \in DOMAIN ast.nodes[n].orelse :
              /\ ast.nodes[n].orelse[i] \in DOMAIN ast.nodes
              /\ ast.nodes[ast.nodes[n].orelse[i]].kind \in Statement
<1>1. ast.nodes \in Seq(AstNode)
  BY DEF IsAst
<1>2. n \in 1 .. Len(ast.nodes) /\ DOMAIN ast.nodes = 1 .. Len(ast.nodes) /\ Len(ast.nodes) \in Nat
  BY <1>1
<1>3. 1 .. n - 1 \subseteq DOMAIN ast.nodes
  BY <1>2
<1>4. ast.nodes[n] \in AstNode
  BY <1>1, <1>2
<1>5. /\ ast.nodes[n].operands \in Seq({m \in 1 .. n - 1 : ast.nodes[m].kind \in Expression})
      /\ ast.nodes[n].params \in Seq({m \in 1 .. n - 1 : ast.nodes[m].kind \in {"Argument"}})
      /\ ast.nodes[n].body \in Seq({m \in 1 .. n - 1 : ast.nodes[m].kind \in Statement})
      /\ ast.nodes[n].orelse \in Seq({m \in 1 .. n - 1 : ast.nodes[m].kind \in Statement})
  BY DEF IsAst
<1>6. \A i \in DOMAIN ast.nodes[n].operands :
        /\ ast.nodes[n].operands[i] \in DOMAIN ast.nodes
        /\ ast.nodes[ast.nodes[n].operands[i]].kind \in Expression
  BY <1>3, <1>5
<1>7. \A i \in DOMAIN ast.nodes[n].params :
        /\ ast.nodes[n].params[i] \in DOMAIN ast.nodes
        /\ ast.nodes[ast.nodes[n].params[i]].kind = "Argument"
  BY <1>3, <1>5
<1>8. \A i \in DOMAIN ast.nodes[n].body :
        /\ ast.nodes[n].body[i] \in DOMAIN ast.nodes
        /\ ast.nodes[ast.nodes[n].body[i]].kind \in Statement
  BY <1>3, <1>5
<1>9. \A i \in DOMAIN ast.nodes[n].orelse :
        /\ ast.nodes[n].orelse[i] \in DOMAIN ast.nodes
        /\ ast.nodes[ast.nodes[n].orelse[i]].kind \in Statement
  BY <1>3, <1>5
<1>10. DOMAIN ast.nodes \subseteq Nat \ {NoNode}
  BY <1>2 DEF NoNode
<1> QED BY <1>4, <1>6, <1>7, <1>8, <1>9, <1>10

\* What the grammar makes of each kind.
LEMMA KindFacts ==
  ASSUME IsAst(ast), NEW n \in DOMAIN ast.nodes
  PROVE  /\ Len(ast.nodes[n].operands) \in Operands(ast.nodes[n].kind)
         /\ ast.nodes[n].kind \in Named => ast.nodes[n].name \in Name
         /\ ast.nodes[n].type \in DeclaredTypes(ast.nodes[n].kind)
         /\ ast.nodes[n].kind = "ConstantDeclaration" =>
              \A i \in DOMAIN ast.nodes[n].operands : ast.nodes[ast.nodes[n].operands[i]].kind \in Literal
<1>1. /\ Len(ast.nodes[n].operands) \in Operands(ast.nodes[n].kind)
      /\ ast.nodes[n].kind \in Named => ast.nodes[n].name \in Name
      /\ ast.nodes[n].type \in DeclaredTypes(ast.nodes[n].kind)
      /\ ast.nodes[n].kind = "ConstantDeclaration" =>
           ast.nodes[n].operands \in Seq({m \in 1 .. n - 1 : ast.nodes[m].kind \in Literal})
  BY DEF IsAst
<1> QED BY <1>1

LEMMA TopFacts ==
  ASSUME IsAst(ast), NEW i \in DOMAIN ast.top
  PROVE  ast.top[i] \in DOMAIN ast.nodes /\ ast.nodes[ast.top[i]].kind \in TopLevel
<1>1. ast.nodes \in Seq(AstNode)
  BY DEF IsAst
<1>2. ast.top \in Seq({n \in 1 .. Len(ast.nodes) : ast.nodes[n].kind \in TopLevel})
  BY DEF IsAst
<1> QED BY <1>1, <1>2

LEMMA Kinds ==
  /\ Literal \subseteq Expression
  /\ Expression \subseteq Statement
  /\ Statement \cap TopLevel = {}
  /\ Literal \cap {"BinaryOp", "UnaryOp", "VariableLookup", "FunctionCall"} = {}
  /\ {"BinaryOp", "UnaryOp", "VariableLookup", "FunctionCall"} \subseteq Expression
  /\ Expression \cap {"VariableDeclaration", "VariableAssignment", "FunctionReturn", "If"} = {}
  /\ TopLevel = {"ConstantDeclaration", "FunctionDeclaration"}
  /\ Statement = Expression \cup {"VariableDeclaration", "VariableAssignment", "FunctionReturn", "If"}
BY DEF Literal, Expression, Statement, TopLevel

\* The LLVM types of the types a program can name are those of numbers.
LEMMA NamedTypes ==
  ASSUME NEW type \in RefType
  PROVE  primitive_to_llvm_type(type) \in IntegerTy \cup FloatingPointTy
BY DEF RefType, SizedInteger, primitive_to_llvm_type, IntegerTy, FloatingPointTy, UNDEF, BOOL,
       CONST_INT, INT, INT8, INT16, INT32, INT64, CONST_UINT, UINT, UINT8, UINT16, UINT32, UINT64,
       CONST_FLOAT, FLOAT16, FLOAT32, FLOAT64

LEMMA FunctionTypes ==
  ASSUME NEW type \in RefType \cup {UNDEF}
  PROVE  primitive_to_llvm_type(type) \in LlvmType
<1>1. CASE type \in RefType
  BY <1>1, NamedTypes DEF LlvmType
<1>2. CASE type = UNDEF
  BY <1>2 DEF primitive_to_llvm_type, UNDEF, BOOL, LlvmType,
       CONST_INT, INT, INT8, INT16, INT32, INT64, CONST_UINT, UINT, UINT8, UINT16, UINT32, UINT64,
       CONST_FLOAT, FLOAT16, FLOAT32, FLOAT64
<1> QED BY <1>1, <1>2

\* A literal is a constant number, whatever type the validator left it.
LEMMA LiteralValues ==
  ASSUME NEW n, node_at(n).kind \in Literal
  PROVE  /\ literal_value(n) \in Value
         /\ literal_value(n).constant
         /\ literal_value(n).type \in IntegerTy \cup FloatingPointTy
<1>1. \A type \in SizedInteger : primitive_to_llvm_type(type) \in IntegerTy \cup FloatingPointTy
  BY NamedTypes DEF RefType
<1>2. constant_integer_type(result_type[n]) \in IntegerTy \cup FloatingPointTy
  BY <1>1 DEF constant_integer_type, IntegerTy
<1>3. constant_unsigned_type(result_type[n]) \in IntegerTy \cup FloatingPointTy
  BY <1>1 DEF constant_unsigned_type, IntegerTy
<1>4. \E type \in IntegerTy \cup FloatingPointTy : literal_value(n) = constant(type)
  BY <1>2, <1>3 DEF literal_value, Literal, IntegerTy, FloatingPointTy
<1> QED BY <1>4 DEF constant, Value, LlvmType

LEMMA NoValueIsNoValue == NoValue \notin Value /\ ~ NoValue.constant
BY DEF NoValue, Value, LlvmType, IntegerTy, FloatingPointTy

LEMMA NewValues ==
  ASSUME NEW type \in LlvmType
  PROVE  /\ computed(type) \in Value /\ computed(type) # NoValue
         /\ constant(type) \in Value /\ constant(type) # NoValue
<1>1. computed(type) \in Value /\ constant(type) \in Value
  BY DEF computed, constant, Value
<1> QED BY <1>1, NoValueIsNoValue

-------------------------------------------------------------------------------
(* How what is left to do changes. *)

LEMMA HeadFacts ==
  ASSUME GInv, todo # << >>
  PROVE  /\ Len(todo) \in Nat \ {0}
         /\ 1 \in DOMAIN todo
         /\ Head(todo) = todo[1]
         /\ Fits(ast, todo[1])
         /\ todo[1] \in Item
         /\ here = todo[1].node
         /\ entry_here = todo[1].entry
         /\ here \in DOMAIN ast.nodes
<1>1. todo \in Seq(Item) /\ \A j \in DOMAIN todo : Fits(ast, todo[j])
  BY DEF GInv, ItemsInv
<1>2. Len(todo) \in Nat \ {0} /\ 1 \in DOMAIN todo /\ Head(todo) = todo[1] /\ todo[1] \in Item
  BY <1>1
<1> QED BY <1>1, <1>2 DEF Fits, here, entry_here

\* An item that only happens in a function, happens in one.
LEMMA InFunction ==
  ASSUME GInv, todo # << >>,
         \/ todo[1].do \notin {"visit", "define_constant"}
         \/ todo[1].do = "visit" /\ node_at(here).kind \notin Literal \cup TopLevel
  PROVE  /\ current_function_ # NoNode
         /\ todo[1].do # "end_function" => Inside(ast, todo[1])
<1>1. Len(todo) \in Nat \ {0} /\ here = todo[1].node
  BY HeadFacts
<1>2. PICK k \in 0 .. Len(todo) :
        /\ \A j \in k + 1 .. Len(todo) : Instruction(ast, todo[j])
        /\ IF current_function_ = NoNode THEN Defines(k) ELSE Generates(k)
  BY DEF GInv, RegionInv
<1>3. CASE current_function_ = NoNode
  <2>1. Defines(k)
    BY <1>2, <1>3
  <2>2. k \in {0, 1, 2}
    BY <2>1 DEF Defines
  <2>3. k = 0 => Instruction(ast, todo[1])
    BY <1>1, <1>2
  <2> QED BY <1>1, <2>1, <2>2, <2>3 DEF Defines, Instruction, node_at
<1>4. CASE current_function_ # NoNode
  <2>1. Generates(k)
    BY <1>2, <1>4
  <2>2. CASE k = 1
    BY <1>4, <2>1, <2>2 DEF Generates, item
  <2>3. CASE k # 1
    <3>1. 1 \in 1 .. k - 1
      BY <1>1, <2>1, <2>3 DEF Generates
    <3> QED BY <1>4, <2>1, <3>1 DEF Generates
  <2> QED BY <2>2, <2>3
<1> QED BY <1>3, <1>4

LEMMA NewTodo ==
  ASSUME GInv, todo # << >>, NEW items \in Seq(Item), Goes_on(items)
  PROVE  /\ todo' \in Seq(Item)
         /\ Len(todo') = Len(items) + Len(todo) - 1
         /\ \A j \in 1 .. Len(items) : todo'[j] = items[j]
         /\ \A j \in 2 .. Len(todo) : todo'[Len(items) + j - 1] = todo[j]
<1>1. todo \in Seq(Item) /\ Len(todo) \in Nat \ {0}
  BY HeadFacts DEF GInv, ItemsInv
<1>2. /\ Tail(todo) \in Seq(Item)
      /\ Len(Tail(todo)) = Len(todo) - 1
      /\ \A j \in 1 .. Len(todo) - 1 : Tail(todo)[j] = todo[j + 1]
  BY <1>1
<1>3. todo' = items \o Tail(todo)
  BY DEF Goes_on
<1>4. \A j \in 2 .. Len(todo) : todo'[Len(items) + j - 1] = todo[j]
  <2> TAKE j \in 2 .. Len(todo)
  <2>1. j - 1 \in 1 .. Len(Tail(todo)) /\ Tail(todo)[j - 1] = todo[j]
    BY <1>1, <1>2
  <2>2. (items \o Tail(todo))[Len(items) + (j - 1)] = Tail(todo)[j - 1]
    BY <1>2, <2>1
  <2> QED BY <1>3, <2>1, <2>2
<1> QED BY <1>1, <1>2, <1>3, <1>4

\* A position in the new list is one in the items or one in the old tail.
LEMMA NewPositions ==
  ASSUME NEW n \in Nat, NEW m \in Nat \ {0}, NEW j \in 1 .. n + m - 1
  PROVE  j \in 1 .. n \/ (j - n + 1 \in 2 .. m /\ n + (j - n + 1) - 1 = j)
OBVIOUS

LEMMA ItemsStep ==
  ASSUME GInv, todo # << >>, ast' = ast, NEW items \in Seq(Item), Goes_on(items),
         \A j \in 1 .. Len(items) : Fits(ast, items[j]),
         Chained(ast, items),
         items # << >> =>
           \A b \in Item : Follows(ast, todo[1], b) => Follows(ast, items[Len(items)], b)
  PROVE  ItemsInv'
<1> DEFINE n == Len(items)
<1>1. /\ todo' \in Seq(Item)
      /\ Len(todo') = n + Len(todo) - 1
      /\ \A j \in 1 .. n : todo'[j] = items[j]
      /\ \A j \in 2 .. Len(todo) : todo'[n + j - 1] = todo[j]
  BY NewTodo
<1>2. n \in Nat /\ Len(todo) \in Nat \ {0} /\ DOMAIN todo' = 1 .. Len(todo') /\ DOMAIN todo = 1 .. Len(todo)
  BY <1>1, HeadFacts DEF GInv, ItemsInv
<1>3. /\ \A j \in DOMAIN todo : todo[j] \in Item /\ Fits(ast, todo[j])
      /\ \A j \in 1 .. Len(todo) - 1 : Follows(ast, todo[j], todo[j + 1])
  BY DEF GInv, ItemsInv, Chained
<1>4. \A j \in DOMAIN todo' : Fits(ast, todo'[j])
  <2> TAKE j \in DOMAIN todo'
  <2>1. CASE j \in 1 .. n
    BY <1>1, <2>1
  <2>2. CASE j \notin 1 .. n
    <3>1. j - n + 1 \in 2 .. Len(todo) /\ n + (j - n + 1) - 1 = j
      BY <1>1, <1>2, <2>2, NewPositions
    <3>2. todo'[n + (j - n + 1) - 1] = todo[j - n + 1]
      BY <1>1, <3>1
    <3> QED BY <1>2, <1>3, <3>1, <3>2
  <2> QED BY <2>1, <2>2
<1>5. \A j \in 1 .. Len(todo') - 1 : Follows(ast, todo'[j], todo'[j + 1])
  <2> TAKE j \in 1 .. Len(todo') - 1
  <2>1. CASE j + 1 \in 1 .. n
    <3>1. j \in 1 .. Len(items) - 1
      BY <1>2, <2>1
    <3>2. j \in 1 .. n
      BY <1>2, <2>1
    <3>3. todo'[j] = items[j] /\ todo'[j + 1] = items[j + 1]
      BY <1>1, <2>1, <3>2
    <3>4. Follows(ast, items[j], items[j + 1])
      BY <3>1 DEF Chained
    <3> QED BY <3>3, <3>4
  <2>2. CASE j = n
    <3>1. 2 \in 2 .. Len(todo) /\ n + 2 - 1 = j + 1 /\ n # 0 /\ 1 \in 1 .. Len(todo) - 1
      BY <1>1, <1>2, <2>2
    <3>2. todo'[j + 1] = todo[2] /\ todo[2] \in Item /\ Follows(ast, todo[1], todo[2])
      BY <1>1, <1>2, <1>3, <3>1
    <3>3. todo'[j] = items[n] /\ items # << >>
      BY <1>1, <1>2, <2>2, <3>1
    <3> QED BY <3>2, <3>3
  <2>3. CASE j > n
    <3>1. /\ j - n + 1 \in 2 .. Len(todo) /\ n + (j - n + 1) - 1 = j
          /\ j - n + 2 \in 2 .. Len(todo) /\ n + (j - n + 2) - 1 = j + 1
          /\ j - n + 1 \in 1 .. Len(todo) - 1 /\ (j - n + 1) + 1 = j - n + 2
      BY <1>1, <1>2, <2>3
    <3>2. todo'[j] = todo[j - n + 1] /\ todo'[j + 1] = todo[j - n + 2]
      BY <1>1, <3>1
    <3>3. Follows(ast, todo[j - n + 1], todo[(j - n + 1) + 1])
      BY <1>3, <3>1
    <3> QED BY <3>1, <3>2, <3>3
  <2> QED BY <1>1, <1>2, <2>1, <2>2, <2>3
<1> QED BY <1>1, <1>4, <1>5 DEF ItemsInv, Chained

\* Inside a function, what is left of it stays before its end.
LEMMA RegionStep ==
  ASSUME GInv, todo # << >>, ast' = ast, current_function_' = current_function_,
         current_function_ # NoNode, Inside(ast, todo[1]),
         NEW items \in Seq(Item), Goes_on(items), \A j \in 1 .. Len(items) : Inside(ast, items[j])
  PROVE  RegionInv'
<1> DEFINE n == Len(items)
<1>1. /\ todo' \in Seq(Item)
      /\ Len(todo') = n + Len(todo) - 1
      /\ \A j \in 1 .. n : todo'[j] = items[j]
      /\ \A j \in 2 .. Len(todo) : todo'[n + j - 1] = todo[j]
  BY NewTodo
<1>2. n \in Nat /\ Len(todo) \in Nat \ {0}
  BY HeadFacts
<1>3. PICK k \in 0 .. Len(todo) :
        /\ \A j \in k + 1 .. Len(todo) : Instruction(ast, todo[j])
        /\ Generates(k)
  BY DEF GInv, RegionInv
<1>4. k \in 2 .. Len(todo)
  BY <1>2, <1>3 DEF Generates, Inside, item
<1> DEFINE l == n + k - 1
<1>5. l \in 0 .. Len(todo') /\ l # 0
  BY <1>1, <1>2, <1>4
<1>6. todo'[l] = todo[k]
  BY <1>1, <1>4
<1>7. \A j \in l + 1 .. Len(todo') : Instruction(ast, todo'[j])
  <2> TAKE j \in l + 1 .. Len(todo')
  <2>1. j - n + 1 \in 2 .. Len(todo) /\ j - n + 1 \in k + 1 .. Len(todo) /\ n + (j - n + 1) - 1 = j
    BY <1>1, <1>2, <1>4
  <2>2. todo'[n + (j - n + 1) - 1] = todo[j - n + 1]
    BY <1>1, <2>1
  <2> QED BY <1>3, <2>1, <2>2
<1>8. \A j \in 1 .. l - 1 : Inside(ast, todo'[j])
  <2> TAKE j \in 1 .. l - 1
  <2>1. CASE j \in 1 .. n
    BY <1>1, <2>1
  <2>2. CASE j \notin 1 .. n
    <3>1. j - n + 1 \in 2 .. Len(todo) /\ j - n + 1 \in 1 .. k - 1 /\ n + (j - n + 1) - 1 = j
      BY <1>2, <1>4, <2>2
    <3>2. todo'[n + (j - n + 1) - 1] = todo[j - n + 1]
      BY <1>1, <3>1
    <3> QED BY <1>3, <3>1, <3>2 DEF Generates
  <2> QED BY <2>1, <2>2
<1>9. Generates(l)'
  BY <1>3, <1>5, <1>6, <1>8 DEF Generates, item
<1> HIDE DEF l
<1> QED BY <1>5, <1>7, <1>9 DEF RegionInv

LEMMA ValueStep ==
  ASSUME GInv, todo # << >>, ast' = ast, NEW items \in Seq(Item), Goes_on(items),
         current_value_' \in Value \cup {NoValue},
         items # << >> => ~ Needs(ast, items[1]),
         (items = << >> /\ Yields(ast, todo[1])) => current_value_' # NoValue
  PROVE  ValueInv'
<1> DEFINE n == Len(items)
<1>1. /\ todo' \in Seq(Item)
      /\ Len(todo') = n + Len(todo) - 1
      /\ \A j \in 1 .. n : todo'[j] = items[j]
      /\ \A j \in 2 .. Len(todo) : todo'[n + j - 1] = todo[j]
  BY NewTodo
<1>2. n \in Nat /\ Len(todo) \in Nat \ {0}
  BY HeadFacts
<1>3. CASE items # << >>
  <2>1. todo'[1] = items[1]
    BY <1>1, <1>3
  <2> QED BY <1>3, <2>1 DEF ValueInv
<1>4. CASE items = << >>
  <2>1. n = 0
    BY <1>4
  <2>2. SUFFICES ASSUME todo' # << >>, Needs(ast, todo'[1])
        PROVE  current_value_' # NoValue
    BY DEF ValueInv
  <2>3. 2 \in 2 .. Len(todo) /\ 1 \in 1 .. Len(todo) - 1
    BY <1>1, <1>2, <2>1, <2>2
  <2>4. todo'[1] = todo[2]
    BY <1>1, <2>1, <2>3
  <2>5. Follows(ast, todo[1], todo[2])
    BY <2>3 DEF GInv, ItemsInv, Chained
  <2> QED BY <1>4, <2>2, <2>4, <2>5 DEF Follows
<1> QED BY <1>3, <1>4

LEMMA KeptStep ==
  ASSUME GInv, todo # << >>, ast' = ast, NEW items \in Seq(Item), Goes_on(items), kept' \in Seq(Value),
         NEW e, Depths(ast, e, items, Len(kept')),
         e[Len(items) + 1] = Len(kept) + Effect(ast, todo[1])
  PROVE  KeptInv'
<1> DEFINE n == Len(items)
<1>1. /\ todo' \in Seq(Item)
      /\ Len(todo') = n + Len(todo) - 1
      /\ \A j \in 1 .. n : todo'[j] = items[j]
      /\ \A j \in 2 .. Len(todo) : todo'[n + j - 1] = todo[j]
  BY NewTodo
<1>2. n \in Nat /\ Len(todo) \in Nat \ {0}
  BY HeadFacts
<1>3. PICK d : Depths(ast, d, todo, Len(kept))
  BY DEF GInv, KeptInv
<1> DEFINE f == [j \in 1 .. Len(todo') + 1 |-> IF j \in 1 .. n + 1 THEN e[j] ELSE d[j - n + 1]]
<1>4. /\ e \in [1 .. n + 1 -> Nat] /\ e[1] = Len(kept')
      /\ \A j \in 1 .. n : e[j + 1] = e[j] + Effect(ast, items[j])
      /\ d \in [1 .. Len(todo) + 1 -> Nat] /\ d[1] = Len(kept)
      /\ \A j \in 1 .. Len(todo) : d[j + 1] = d[j] + Effect(ast, todo[j])
  BY <1>3 DEF Depths
<1>5. d[2] = e[n + 1]
  <2>1. 1 \in 1 .. Len(todo) /\ 1 + 1 = 2
    BY <1>2
  <2>2. d[2] = d[1] + Effect(ast, todo[1])
    BY <1>4, <2>1
  <2> QED BY <1>4, <2>2
<1>6. f \in [1 .. Len(todo') + 1 -> Nat]
  <2>1. \A j \in 1 .. Len(todo') + 1 : j \notin 1 .. n + 1 => j - n + 1 \in 1 .. Len(todo) + 1
    BY <1>1, <1>2
  <2> QED BY <1>4, <2>1
<1>7. f[1] = Len(kept')
  BY <1>1, <1>2, <1>4
<1>8. \A j \in 1 .. Len(todo') : f[j + 1] = f[j] + Effect(ast, todo'[j])
  <2> TAKE j \in 1 .. Len(todo')
  <2>0. j \in 1 .. Len(todo') + 1 /\ j + 1 \in 1 .. Len(todo') + 1
    BY <1>1, <1>2
  <2>1. CASE j \in 1 .. n
    <3>1. f[j] = e[j] /\ f[j + 1] = e[j + 1]
      BY <1>2, <2>0, <2>1
    <3> QED BY <1>1, <1>4, <2>1, <3>1
  <2>2. CASE j \notin 1 .. n
    <3>0. j \in Nat /\ j > n /\ j <= n + Len(todo) - 1
      BY <1>1, <1>2, <2>2
    <3>1. /\ j - n + 1 \in 2 .. Len(todo) /\ n + (j - n + 1) - 1 = j
          /\ j - n + 1 \in 1 .. Len(todo) /\ (j - n + 1) + 1 = (j + 1) - n + 1
          /\ j + 1 \notin 1 .. n + 1
      <4> HIDE DEF n
      <4> QED BY <1>2, <3>0
    <3>2. todo'[n + (j - n + 1) - 1] = todo[j - n + 1]
      BY <1>1, <3>1
    <3>3. f[j] = d[j - n + 1]
      <4>1. CASE j = n + 1
        BY <1>5, <1>2, <2>0, <4>1
      <4>2. CASE j # n + 1
        BY <1>2, <2>0, <2>2, <4>2
      <4> QED BY <4>1, <4>2
    <3>4. f[j + 1] = d[(j + 1) - n + 1]
      BY <2>0, <3>1
    <3>5. d[(j - n + 1) + 1] = d[j - n + 1] + Effect(ast, todo[j - n + 1])
      BY <1>4, <3>1
    <3> QED BY <3>1, <3>2, <3>3, <3>4, <3>5
  <2> QED BY <2>1, <2>2
<1> HIDE DEF f
<1>9. Depths(ast, f, todo', Len(kept'))
  BY <1>6, <1>7, <1>8 DEF Depths
<1> QED BY <1>9 DEF KeptInv

\* An expression or a statement is done with as many kept values as before.
LEMMA KeptStays ==
  ASSUME GInv, todo # << >>, ast' = ast, NEW items \in Seq(Item), Goes_on(items), kept' = kept,
         Effect(ast, todo[1]) = 0, \A j \in 1 .. Len(items) : Effect(ast, items[j]) = 0
  PROVE  KeptInv'
<1> DEFINE e == [j \in 1 .. Len(items) + 1 |-> Len(kept)]
<1>1. kept \in Seq(Value) /\ Len(kept) \in Nat /\ Len(items) \in Nat
  BY DEF GInv, KeptInv
<1>2. Depths(ast, e, items, Len(kept'))
  BY <1>1 DEF Depths
<1>3. e[Len(items) + 1] = Len(kept) + Effect(ast, todo[1])
  BY <1>1
<1> HIDE DEF e
<1> QED BY <1>1, <1>2, <1>3, KeptStep

\* What an item inside a function does to what is left to do.
LEMMA TodoStep ==
  ASSUME GInv, todo # << >>, ast' = ast, current_function_' = current_function_,
         current_function_ # NoNode, Inside(ast, todo[1]),
         NEW items \in Seq(Item), Goes_on(items),
         \A j \in 1 .. Len(items) : Fits(ast, items[j]) /\ Inside(ast, items[j]),
         Chained(ast, items),
         items # << >> =>
           \A b \in Item : Follows(ast, todo[1], b) => Follows(ast, items[Len(items)], b),
         current_value_' \in Value \cup {NoValue},
         items # << >> => ~ Needs(ast, items[1]),
         (items = << >> /\ Yields(ast, todo[1])) => current_value_' # NoValue
  PROVE  ItemsInv' /\ RegionInv' /\ ValueInv'
BY ItemsStep, RegionStep, ValueStep

LEMMA DoneStep ==
  ASSUME GInv, todo # << >>, ast' = ast, current_function_' = current_function_,
         current_function_ # NoNode, Inside(ast, todo[1]), Goes_on(<< >>),
         current_value_' \in Value \cup {NoValue},
         Yields(ast, todo[1]) => current_value_' # NoValue
  PROVE  ItemsInv' /\ RegionInv' /\ ValueInv'
<1>1. << >> \in Seq(Item) /\ Len(<< >>) = 0 /\ 1 .. 0 = {}
  OBVIOUS
<1>2. Chained(ast, << >>)
  BY DEF Chained
<1>3. ItemsInv' /\ RegionInv'
  BY <1>1, <1>2, ItemsStep, RegionStep
<1>4. ValueInv'
  BY <1>1, ValueStep
<1> QED BY <1>3, <1>4

-------------------------------------------------------------------------------
(* How the blocks change. *)

\* The blocks that items after the first will go on in.
Rest == UNION {Awaits(ast, todo[m]) : m \in 2 .. Len(todo)}

LEMMA RestFacts ==
  ASSUME GInv, todo # << >>
  PROVE  /\ \A b \in Rest : b \in DOMAIN blocks /\ b # insert_block /\ ~ blocks[b].ended
         /\ Rest \cap Awaits(ast, todo[1]) = {}
         /\ \A b \in DOMAIN blocks :
              \/ blocks[b].ended
              \/ current_function_ # NoNode /\ b = insert_block
              \/ b \in Rest \cup Awaits(ast, todo[1])
<1>1. Len(todo) \in Nat \ {0} /\ DOMAIN todo = 1 .. Len(todo)
  BY HeadFacts DEF GInv, ItemsInv
<1>2. 2 .. Len(todo) \subseteq DOMAIN todo /\ 1 \in DOMAIN todo /\ \A m \in 2 .. Len(todo) : m # 1
  BY <1>1
<1>3. \A j \in DOMAIN todo : j = 1 \/ j \in 2 .. Len(todo)
  BY <1>1
<1>4. \A b \in Rest : \E m \in 2 .. Len(todo) : b \in Awaits(ast, todo[m])
  BY DEF Rest
<1>5. \A m \in 2 .. Len(todo) : \A b \in Awaits(ast, todo[m]) : b \in Rest
  BY DEF Rest
<1>6. \A b \in Rest : b \in DOMAIN blocks /\ b # insert_block /\ ~ blocks[b].ended
  BY <1>2, <1>4 DEF GInv, BlocksInv
<1>7. \A b \in Rest : b \notin Awaits(ast, todo[1])
  BY <1>2, <1>4 DEF GInv, BlocksInv
<1>8. \A b \in DOMAIN blocks :
        \/ blocks[b].ended
        \/ current_function_ # NoNode /\ b = insert_block
        \/ b \in Rest \cup Awaits(ast, todo[1])
  BY <1>3, <1>5 DEF GInv, BlocksInv
<1> QED BY <1>6, <1>7, <1>8

\* Only the last of the new items may go on in blocks, and in new ones.
LEMMA AwaitsStep ==
  ASSUME GInv, todo # << >>, ast' = ast, NEW items \in Seq(Item), Goes_on(items), NEW new,
         \A j \in 1 .. Len(items) - 1 : Awaits(ast, items[j]) = {},
         IF items = << >> THEN new = {} ELSE new = Awaits(ast, items[Len(items)]),
         new \cap Rest = {}
  PROVE  /\ \A j \in DOMAIN todo' : Awaits(ast, todo'[j]) \subseteq Rest \cup new
         /\ \A b \in Rest \cup new : \E j \in DOMAIN todo' : b \in Awaits(ast, todo'[j])
         /\ \A i, j \in DOMAIN todo' : i # j => Awaits(ast, todo'[i]) \cap Awaits(ast, todo'[j]) = {}
<1> DEFINE n == Len(items)
<1>1. /\ todo' \in Seq(Item)
      /\ Len(todo') = n + Len(todo) - 1
      /\ \A j \in 1 .. n : todo'[j] = items[j]
      /\ \A j \in 2 .. Len(todo) : todo'[n + j - 1] = todo[j]
  BY NewTodo
<1>2. /\ n \in Nat /\ Len(todo) \in Nat \ {0} /\ Len(todo') \in Nat
      /\ DOMAIN todo' = 1 .. Len(todo') /\ DOMAIN todo = 1 .. Len(todo)
      /\ (items = << >> <=> n = 0)
  BY <1>1, HeadFacts DEF GInv, ItemsInv
<1>3. \A j \in 1 .. n - 1 : Awaits(ast, todo'[j]) = {}
  <2> TAKE j \in 1 .. n - 1
  <2>1. j \in 1 .. n
    BY <1>2
  <2> QED BY <1>1, <2>1
<1>4. n # 0 => Awaits(ast, todo'[n]) = new
  <2> SUFFICES ASSUME n # 0
      PROVE  Awaits(ast, todo'[n]) = new
    OBVIOUS
  <2>1. n \in 1 .. n /\ items # << >>
    BY <1>2
  <2>2. todo'[n] = items[n]
    BY <1>1, <2>1
  <2> QED BY <2>1, <2>2
<1>5. \A m \in 2 .. Len(todo) : Awaits(ast, todo'[n + m - 1]) = Awaits(ast, todo[m])
  BY <1>1
<1>6. \A m \in 2 .. Len(todo) : Awaits(ast, todo[m]) \subseteq Rest
  BY DEF Rest
<1>7. \A b \in Rest : \E m \in 2 .. Len(todo) : b \in Awaits(ast, todo[m])
  BY DEF Rest
<1>8. \A j \in DOMAIN todo' :
        \/ j \in 1 .. n - 1
        \/ j = n /\ n # 0
        \/ \E m \in 2 .. Len(todo) : j = n + m - 1
  <2> TAKE j \in DOMAIN todo'
  <2>1. CASE j > n
    <3>1. j - n + 1 \in 2 .. Len(todo) /\ j = n + (j - n + 1) - 1
      BY SMTT(30), <1>1, <1>2, <2>1
    <3> QED BY <3>1
  <2>2. CASE j <= n
    BY <1>2, <2>2
  <2> QED BY <1>2, <2>1, <2>2
<1>9. \A m \in 2 .. Len(todo) : n + m - 1 \in DOMAIN todo'
  BY <1>1, <1>2
<1>10. n # 0 => n \in DOMAIN todo'
  BY <1>1, <1>2
<1>11. \A i, j \in 2 .. Len(todo) : i # j => Awaits(ast, todo[i]) \cap Awaits(ast, todo[j]) = {}
  BY SMTT(30), <1>2 DEF GInv, BlocksInv
<1>12. \A j \in DOMAIN todo' : Awaits(ast, todo'[j]) \subseteq Rest \cup new
  BY ZenonT(60), <1>3, <1>4, <1>5, <1>6, <1>8
<1>13. \A b \in Rest \cup new : \E j \in DOMAIN todo' : b \in Awaits(ast, todo'[j])
  <2> TAKE b \in Rest \cup new
  <2>1. CASE b \in Rest
    BY <1>5, <1>7, <1>9, <2>1
  <2>2. CASE b \in new
    BY <1>2, <1>4, <1>10, <2>2
  <2> QED BY <2>1, <2>2
<1>14. \A i, j \in DOMAIN todo' : i # j => Awaits(ast, todo'[i]) \cap Awaits(ast, todo'[j]) = {}
  <2> TAKE i, j \in DOMAIN todo'
  <2> HAVE i # j
  <2>1. CASE i \in 1 .. n - 1 \/ j \in 1 .. n - 1
    BY <1>3, <2>1
  <2>2. CASE i = n /\ n # 0 /\ \E m \in 2 .. Len(todo) : j = n + m - 1
    BY <1>4, <1>5, <1>6, <2>2
  <2>3. CASE j = n /\ n # 0 /\ \E m \in 2 .. Len(todo) : i = n + m - 1
    BY <1>4, <1>5, <1>6, <2>3
  <2>4. CASE \E l, m \in 2 .. Len(todo) : i = n + l - 1 /\ j = n + m - 1
    BY <1>5, <1>11, <2>4
  <2> QED BY <1>8, <2>1, <2>2, <2>3, <2>4
<1> QED BY <1>12, <1>13, <1>14

LEMMA BlocksStep ==
  ASSUME GInv, todo # << >>, ast' = ast, NEW items \in Seq(Item), Goes_on(items), NEW new,
         \A j \in 1 .. Len(items) - 1 : Awaits(ast, items[j]) = {},
         IF items = << >> THEN new = {} ELSE new = Awaits(ast, items[Len(items)]),
         new \cap Rest = {},
         blocks' \in Seq(Block), insert_block' \in 0 .. Len(blocks'),
         current_function_' # NoNode => insert_block' # 0,
         \A b \in Rest \cup new : b \in DOMAIN blocks' /\ b # insert_block' /\ ~ blocks'[b].ended,
         \A b \in DOMAIN blocks' :
           \/ blocks'[b].ended
           \/ current_function_' # NoNode /\ b = insert_block'
           \/ b \in Rest \cup new,
         ~ LeavesEarly(ast) =>
           /\ \A b \in DOMAIN blocks' : ~ blocks'[b].broken
           /\ (current_function_' # NoNode /\ blocks'[insert_block'].ended) => Ends(todo'[1])
  PROVE  BlocksInv'
<1>1. /\ \A j \in DOMAIN todo' : Awaits(ast, todo'[j]) \subseteq Rest \cup new
      /\ \A b \in Rest \cup new : \E j \in DOMAIN todo' : b \in Awaits(ast, todo'[j])
      /\ \A i, j \in DOMAIN todo' : i # j => Awaits(ast, todo'[i]) \cap Awaits(ast, todo'[j]) = {}
  BY AwaitsStep
<1>2. \A j \in DOMAIN todo' : \A b \in Awaits(ast, todo'[j]) :
        b \in DOMAIN blocks' /\ b # insert_block' /\ ~ blocks'[b].ended
  BY <1>1
<1>3. \A b \in DOMAIN blocks' :
        \/ blocks'[b].ended
        \/ current_function_' # NoNode /\ b = insert_block'
        \/ \E j \in DOMAIN todo' : b \in Awaits(ast, todo'[j])
  BY <1>1
<1> QED BY <1>1, <1>2, <1>3 DEF BlocksInv

\* The block the builder appends to; a return may have ended it.
LEMMA OpenBlock ==
  ASSUME GInv, todo # << >>, current_function_ # NoNode
  PROVE  /\ insert_block \in DOMAIN blocks
         /\ blocks[insert_block] \in Block
         /\ ~ LeavesEarly(ast) =>
              /\ ~ blocks[insert_block].broken
              /\ ~ Ends(todo[1]) => ~ blocks[insert_block].ended
<1>1. blocks \in Seq(Block) /\ insert_block \in 0 .. Len(blocks) /\ insert_block # 0
  BY DEF GInv, BlocksInv
<1>2. insert_block \in DOMAIN blocks /\ blocks[insert_block] \in Block
  BY <1>1
<1> QED BY <1>2 DEF GInv, BlocksInv

LEMMA Instructions ==
  ASSUME NEW b \in Block, NEW d \in Nat, NEW targets \in SUBSET Nat
  PROVE  /\ \A c \in {appended(b), using(b, d), making(b, d)} :
              c \in Block /\ ~ c.ended /\ (c.broken => b.broken \/ b.ended)
         /\ terminated(b, targets) \in Block
         /\ terminated(b, targets).ended
         /\ terminated(b, targets).broken => b.broken \/ b.ended
<1>1. appended(b) \in Block /\ ~ appended(b).ended /\ (appended(b).broken => b.broken \/ b.ended)
  BY DEF Block, appended
<1>2. \A c \in {using(b, d), making(b, d)} :
        c \in Block /\ c.ended = appended(b).ended /\ c.broken = appended(b).broken
  BY <1>1 DEF Block, making, using
<1>3. terminated(b, targets) \in Block /\ terminated(b, targets).ended
  BY DEF Block, terminated
<1>4. terminated(b, targets).broken => b.broken \/ b.ended
  BY DEF Block, terminated
<1> QED BY <1>1, <1>2, <1>3, <1>4

LEMMA QuietBlocks ==
  ASSUME GInv, todo # << >>, ast' = ast, NEW items \in Seq(Item), Goes_on(items),
         \A j \in 1 .. Len(items) : Awaits(ast, items[j]) = {},
         ~ Ends(todo[1]),
         current_function_' = current_function_, blocks' = blocks, insert_block' = insert_block
  PROVE  BlocksInv'
<1>1. Awaits(ast, todo[1]) = {}
  BY DEF Awaits, Ends
<1>2. /\ \A b \in Rest : b \in DOMAIN blocks /\ b # insert_block /\ ~ blocks[b].ended
      /\ \A b \in DOMAIN blocks :
           \/ blocks[b].ended
           \/ current_function_ # NoNode /\ b = insert_block
           \/ b \in Rest
  BY <1>1, RestFacts
<1>3. items # << >> => Len(items) \in 1 .. Len(items)
  OBVIOUS
<1>4. IF items = << >> THEN {} = {} ELSE {} = Awaits(ast, items[Len(items)])
  BY <1>3
<1>5. \A j \in 1 .. Len(items) - 1 : Awaits(ast, items[j]) = {}
  <2>1. \A j \in 1 .. Len(items) - 1 : j \in 1 .. Len(items)
    OBVIOUS
  <2> QED BY <2>1
<1>6. blocks \in Seq(Block) /\ insert_block \in 0 .. Len(blocks) /\ (current_function_ # NoNode => insert_block # 0)
  BY DEF GInv, BlocksInv
<1>7. ~ LeavesEarly(ast) =>
        /\ \A b \in DOMAIN blocks : ~ blocks[b].broken
        /\ ~ (current_function_ # NoNode /\ blocks[insert_block].ended)
  BY OpenBlock DEF GInv, BlocksInv
<1>8. {} \cap Rest = {} /\ Rest \cup {} = Rest
  OBVIOUS
<1> QED BY <1>2, <1>4, <1>5, <1>6, <1>7, <1>8, BlocksStep

\* An instruction at the end of the current block.
LEMMA WriteBlock ==
  ASSUME GInv, todo # << >>, ast' = ast, NEW items \in Seq(Item), Goes_on(items),
         \A j \in 1 .. Len(items) : Awaits(ast, items[j]) = {},
         current_function_ # NoNode, ~ Ends(todo[1]),
         current_function_' = current_function_, insert_block' = insert_block,
         NEW b \in Block, blocks' = [blocks EXCEPT ![insert_block] = b],
         b.broken => blocks[insert_block].broken \/ blocks[insert_block].ended,
         (~ LeavesEarly(ast) /\ b.ended) => Ends(todo'[1])
  PROVE  BlocksInv'
<1>1. Awaits(ast, todo[1]) = {}
  BY DEF Awaits, Ends
<1>2. /\ \A c \in Rest : c \in DOMAIN blocks /\ c # insert_block /\ ~ blocks[c].ended
      /\ \A c \in DOMAIN blocks :
           \/ blocks[c].ended
           \/ current_function_ # NoNode /\ c = insert_block
           \/ c \in Rest
  BY <1>1, RestFacts
<1>3. items # << >> => Len(items) \in 1 .. Len(items)
  OBVIOUS
<1>4. IF items = << >> THEN {} = {} ELSE {} = Awaits(ast, items[Len(items)])
  BY <1>3
<1>5. \A j \in 1 .. Len(items) - 1 : Awaits(ast, items[j]) = {}
  <2>1. \A j \in 1 .. Len(items) - 1 : j \in 1 .. Len(items)
    OBVIOUS
  <2> QED BY <2>1
<1>6. /\ blocks \in Seq(Block) /\ insert_block \in 0 .. Len(blocks) /\ insert_block # 0
      /\ insert_block \in DOMAIN blocks
  BY OpenBlock DEF GInv, BlocksInv
<1>7. /\ blocks' \in Seq(Block) /\ Len(blocks') = Len(blocks) /\ DOMAIN blocks' = DOMAIN blocks
      /\ blocks'[insert_block] = b
      /\ \A c \in DOMAIN blocks : c # insert_block => blocks'[c] = blocks[c]
  BY <1>6
<1>8. \A c \in Rest \cup {} : c \in DOMAIN blocks' /\ c # insert_block' /\ ~ blocks'[c].ended
  BY <1>2, <1>7
<1>9. \A c \in DOMAIN blocks' :
        \/ blocks'[c].ended
        \/ current_function_' # NoNode /\ c = insert_block'
        \/ c \in Rest \cup {}
  BY <1>2, <1>7
<1>10. ~ LeavesEarly(ast) =>
         /\ \A c \in DOMAIN blocks' : ~ blocks'[c].broken
         /\ (current_function_' # NoNode /\ blocks'[insert_block'].ended) => Ends(todo'[1])
  <2> HAVE ~ LeavesEarly(ast)
  <2>1. ~ blocks[insert_block].broken /\ ~ blocks[insert_block].ended
    BY OpenBlock
  <2>2. \A c \in DOMAIN blocks : ~ blocks[c].broken
    BY DEF GInv, BlocksInv
  <2> QED BY <1>7, <2>1, <2>2
<1>11. {} \cap Rest = {}
  OBVIOUS
<1> QED BY <1>4, <1>5, <1>6, <1>7, <1>8, <1>9, <1>10, <1>11, BlocksStep

-------------------------------------------------------------------------------
(* What most steps leave alone. *)

\* An exception only changes the outcome.
LEMMA ThrowStep ==
  ASSUME GInv, Generating, todo # << >>, Tree, NEW reason, Throw(reason),
         reason \in Outcome \ {"no value", "not a constant", "undefined behaviour", "idle", "verified",
                               "verification failed"}
  PROVE  GInv'
<1>1. /\ ast' = ast /\ todo' = todo /\ current_value_' = current_value_ /\ kept' = kept
      /\ named_values_' = named_values_ /\ prev_named_values' = prev_named_values
      /\ functions_' = functions_ /\ current_function_' = current_function_ /\ blocks' = blocks
      /\ insert_block' = insert_block /\ refused' = refused /\ uses' = uses /\ stores' = stores
      /\ outcome' = reason
  BY DEF Throw, Tree
<1>2. IsAst(ast)' /\ ItemsInv' /\ ValueInv' /\ KeptInv'
  BY <1>1 DEF GInv, ItemsInv, ValueInv, KeptInv
<1>3. RegionInv'
  BY <1>1 DEF GInv, RegionInv, Defines, Generates, node_at
<1>4. NamesInv'
  BY <1>1 DEF GInv, NamesInv
<1>5. BlocksInv'
  BY <1>1 DEF GInv, BlocksInv
<1>6. RecordsInv'
  BY <1>1 DEF GInv, RecordsInv
<1> QED BY <1>2, <1>3, <1>4, <1>5, <1>6 DEF GInv

LEMMA SameNames ==
  ASSUME GInv, todo # << >>, ast' = ast, KeepTables
  PROVE  NamesInv'
<1>1. /\ named_values_' = named_values_ /\ prev_named_values' = prev_named_values
      /\ functions_' = functions_ /\ current_function_' = current_function_
  BY DEF KeepTables
<1>2. \A x \in Symbol : functions_[x] \in {NoNode} \cup Functions(ast, x)
  BY DEF GInv, NamesInv
<1> QED BY <1>1, <1>2 DEF GInv, NamesInv

LEMMA NewRecords ==
  ASSUME GInv, Generating, ast' = ast, outcome' = outcome, refused' \subseteq DOMAIN ast.nodes,
         uses' \in [DOMAIN ast.nodes -> {NoNode} \cup DOMAIN ast.nodes],
         stores' \subseteq (DOMAIN ast.nodes) \X LlvmType \X LlvmType
  PROVE  RecordsInv'
BY DEF GInv, RecordsInv, Generating

LEMMA SameRecords ==
  ASSUME GInv, Generating, todo # << >>, ast' = ast,
         \/ refused' = refused
         \/ \E legal : Refuse_unless(legal),
         uses' = uses, stores' = stores, outcome' = outcome
  PROVE  RecordsInv'
<1>1. here \in DOMAIN ast.nodes
  BY HeadFacts
<1>2. refused' \subseteq DOMAIN ast.nodes
  BY <1>1 DEF GInv, RecordsInv, Refuse_unless
<1> QED BY <1>2, NewRecords DEF GInv, RecordsInv

LEMMA SameBuilder ==
  ASSUME KeepBuilder
  PROVE  blocks' = blocks /\ insert_block' = insert_block /\ refused' = refused
BY DEF KeepBuilder

LEMMA SameTree ==
  ASSUME Tree
  PROVE  ast' = ast /\ result_type' = result_type
BY DEF Tree

-------------------------------------------------------------------------------
(* Visits that only leave something to do. *)

LEMMA VisitItem ==
  ASSUME IsAst(ast), NEW n \in DOMAIN ast.nodes
  PROVE  /\ item("visit", n, NoNode) \in Item
         /\ ast.nodes[n].kind \in Statement \/ InTop(ast, n) => Fits(ast, item("visit", n, NoNode))
         /\ Awaits(ast, item("visit", n, NoNode)) = {}
         /\ Effect(ast, item("visit", n, NoNode)) = 0
         /\ ~ Needs(ast, item("visit", n, NoNode))
         /\ \A a : Follows(ast, a, item("visit", n, NoNode)) <=> (Returns(ast, a) => LeavesEarly(ast))
         /\ ast.nodes[n].kind \in Statement => Inside(ast, item("visit", n, NoNode))
         /\ ast.nodes[n].kind \in Expression =>
              /\ Yields(ast, item("visit", n, NoNode))
              /\ ~ Returns(ast, item("visit", n, NoNode))
<1> DEFINE i == item("visit", n, NoNode)
<1>1. i.do = "visit" /\ i.node = n /\ i.entry = NoNode
  BY DEF item
<1>2. n \in Nat /\ NoNode \in Nat
  BY NodeFacts DEF NoNode
<1>3. i \in Item
  BY <1>2 DEF Item, item
<1> HIDE DEF i
<1>4. ast.nodes[n].kind \in Statement \/ InTop(ast, n) => Fits(ast, i)
  BY <1>1, <1>3, Kinds DEF Fits
<1>5. Awaits(ast, i) = {} /\ Effect(ast, i) = 0 /\ ~ Needs(ast, i) /\ ~ Ends(i)
  BY <1>1 DEF Awaits, Effect, Needs, Ends
<1>6. \A a : Follows(ast, a, i) <=> (Returns(ast, a) => LeavesEarly(ast))
  BY <1>5 DEF Follows
<1>7. ast.nodes[n].kind \in Statement => Inside(ast, i)
  BY <1>1 DEF Inside
<1>8. ast.nodes[n].kind \in Expression => Yields(ast, i) /\ ~ Returns(ast, i)
  BY <1>1, Kinds DEF Yields, Returns
<1> QED BY <1>3, <1>4, <1>5, <1>6, <1>7, <1>8 DEF i

LEMMA SeqOf ==
  ASSUME NEW T, NEW s \in Seq(T), NEW S, \A i \in DOMAIN s : s[i] \in S
  PROVE  s \in Seq(S)
OBVIOUS

LEMMA ThenOne ==
  ASSUME NEW T, NEW s \in Seq(T), NEW e \in T
  PROVE  /\ s \o << e >> \in Seq(T)
         /\ s \o << e >> # << >>
         /\ Len(s \o << e >>) = Len(s) + 1
         /\ (s \o << e >>)[Len(s) + 1] = e
         /\ \A j \in 1 .. Len(s) : (s \o << e >>)[j] = s[j]
<1>1. << e >> \in Seq(T) /\ Len(<< e >>) = 1 /\ << e >>[1] = e
  OBVIOUS
<1>2. s \o << e >> \in Seq(T) /\ Len(s \o << e >>) = Len(s) + 1 /\ Len(s) \in Nat
  BY <1>1
<1>3. (s \o << e >>)[Len(s) + 1] = << e >>[1]
  BY <1>1
<1> QED BY <1>1, <1>2, <1>3

\* visit of a list, by its members.
LEMMA VisitList ==
  ASSUME IsAst(ast), NEW list, NEW S, list \in Seq(S), S \subseteq DOMAIN ast.nodes
  PROVE  /\ visit(list) \in Seq(Item)
         /\ Len(visit(list)) = Len(list)
         /\ \A j \in 1 .. Len(list) : /\ list[j] \in DOMAIN ast.nodes
                                      /\ visit(list)[j] = item("visit", list[j], NoNode)
<1>1. \A j \in DOMAIN list : list[j] \in DOMAIN ast.nodes /\ item("visit", list[j], NoNode) \in Item
  BY VisitItem
<1>2. visit(list) = [j \in 1 .. Len(list) |-> item("visit", list[j], NoNode)]
  BY DEF visit
<1> QED BY <1>1, <1>2

\* The visitors that evaluate at most one operand before they do their work.
After == [UnaryOp |-> "unary_op", VariableDeclaration |-> "bind", VariableAssignment |-> "store",
          FunctionReturn |-> "return", If |-> "branch"]

LEMMA OneOperand ==
  ASSUME GInv, todo # << >>, todo[1].do = "visit", NEW kind \in DOMAIN After, node_at(here).kind = kind,
         NEW entry \in Nat, kind = "VariableAssignment" => entry \in Storage(ast),
         NEW items, items = visit(node_at(here).operands) \o << item(After[kind], here, entry) >>
  PROVE  /\ items \in Seq(Item) /\ items # << >>
         /\ \A j \in 1 .. Len(items) : /\ Fits(ast, items[j]) /\ Inside(ast, items[j])
                                       /\ Awaits(ast, items[j]) = {} /\ Effect(ast, items[j]) = 0
         /\ Chained(ast, items)
         /\ \A b \in Item : Follows(ast, todo[1], b) => Follows(ast, items[Len(items)], b)
         /\ ~ Needs(ast, items[1])
<1> DEFINE node == ast.nodes[here]
           last == item(After[kind], here, entry)
           n == Len(node.operands)
<1>1. here \in DOMAIN ast.nodes /\ IsAst(ast) /\ todo[1].node = here /\ node.kind = kind
  BY HeadFacts DEF GInv, node_at
<1>2. here \in Nat /\ node.operands \in Seq(Nat)
  BY <1>1, NodeFacts DEF AstNode
<1>3. /\ n \in {0, 1}
      /\ kind \in {"UnaryOp", "VariableAssignment", "If"} => n = 1
      /\ kind \notin Expression \/ kind = "UnaryOp"
      /\ kind \in Statement
  BY <1>1, KindFacts, Kinds DEF Operands, After
<1>4. last \in Item /\ last.do = After[kind] /\ last.node = here /\ last.entry = entry
  BY <1>2 DEF Item, item, After
<1> HIDE DEF last
<1>5. Fits(ast, last) /\ Inside(ast, last)
  BY <1>1, <1>4 DEF Fits, Inside, After
<1>6. Awaits(ast, last) = {} /\ Effect(ast, last) = 0
  BY <1>4 DEF Awaits, Effect, After
<1>7. Needs(ast, last) => n = 1
  BY <1>1, <1>2, <1>3, <1>4 DEF Needs, has_value, After
<1>8. \A b \in Item : Follows(ast, todo[1], b) => Follows(ast, last, b)
  <2>1. Yields(ast, todo[1]) => Yields(ast, last)
    BY <1>1, <1>3, <1>4 DEF Yields, After
  <2>2. Returns(ast, last) => Returns(ast, todo[1])
    BY <1>1, <1>4 DEF Returns, After
  <2> QED BY <2>1, <2>2 DEF Follows
<1>9. /\ items \in Seq(Item) /\ items # << >> /\ Len(items) = n + 1 /\ items[n + 1] = last
      /\ \A j \in 1 .. n : items[j] = item("visit", node.operands[j], NoNode)
  <2>1. node.operands \in Seq(DOMAIN ast.nodes)
    BY <1>1, <1>2, NodeFacts, SeqOf
  <2>2. /\ visit(node.operands) \in Seq(Item) /\ Len(visit(node.operands)) = n
        /\ \A j \in 1 .. n : visit(node.operands)[j] = item("visit", node.operands[j], NoNode)
    BY <1>1, <2>1, VisitList
  <2>3. items = visit(node.operands) \o << last >>
    BY DEF node_at, last
  <2> DEFINE s == visit(node.operands)
  <2>4. s \in Seq(Item) /\ Len(s) = n /\ items = s \o << last >>
    BY <2>2, <2>3
  <2>5. last \in Item
    BY <1>4
  <2> HIDE DEF s, n
  <2>6. /\ s \o << last >> \in Seq(Item)
        /\ s \o << last >> # << >>
        /\ Len(s \o << last >>) = Len(s) + 1
        /\ (s \o << last >>)[Len(s) + 1] = last
        /\ \A j \in 1 .. Len(s) : (s \o << last >>)[j] = s[j]
    BY <2>4, <2>5, ThenOne
  <2> QED BY <2>2, <2>4, <2>6 DEF s
<1>10. \A j \in 1 .. n :
         /\ Fits(ast, items[j]) /\ Awaits(ast, items[j]) = {} /\ Effect(ast, items[j]) = 0
         /\ ~ Needs(ast, items[j]) /\ Inside(ast, items[j]) /\ Yields(ast, items[j]) /\ ~ Returns(ast, items[j])
  <2> TAKE j \in 1 .. n
  <2>1. node.operands[j] \in DOMAIN ast.nodes /\ ast.nodes[node.operands[j]].kind \in Expression
    <3>1. j \in DOMAIN node.operands
      BY <1>1, <1>2, OperandSeq
    <3> QED BY <1>1, <1>2, <3>1, NodeFacts
  <2> QED BY <1>1, <1>9, <2>1, VisitItem, Kinds
<1>11. \A j \in 1 .. Len(items) : j \in 1 .. n \/ j = n + 1
  BY <1>3, <1>9
<1>12. \A j \in 1 .. Len(items) - 1 : j = n /\ j = 1
  BY <1>3, <1>9
<1>13. Chained(ast, items)
  <2> SUFFICES ASSUME NEW j \in 1 .. Len(items) - 1
      PROVE  Follows(ast, items[j], items[j + 1])
    BY DEF Chained
  <2>1. j = n /\ n = 1
    BY <1>12
  <2>2. j \in 1 .. n /\ items[j + 1] = last
    BY <1>9, <2>1
  <2> QED BY <1>10, <2>2 DEF Follows
<1>14. ~ Needs(ast, items[1])
  <2>1. CASE n = 1
    BY <1>10, <2>1
  <2>2. CASE n = 0
    BY <1>7, <1>9, <2>2
  <2> QED BY <1>3, <2>1, <2>2
<1> QED BY <1>5, <1>6, <1>8, <1>9, <1>10, <1>11, <1>13, <1>14

\* A step that only leaves items of this function.
LEMMA LeaveItems ==
  ASSUME GInv, Generating, todo # << >>, Tree, current_function_ # NoNode, Inside(ast, todo[1]),
         ~ Ends(todo[1]), KeptInv',
         NEW items \in Seq(Item), items # << >>, Goes_on(items),
         \A j \in 1 .. Len(items) :
           Fits(ast, items[j]) /\ Inside(ast, items[j]) /\ Awaits(ast, items[j]) = {},
         Chained(ast, items), ~ Needs(ast, items[1]),
         \A b \in Item : Follows(ast, todo[1], b) => Follows(ast, items[Len(items)], b),
         KeepTables, KeepBuilder,
         UNCHANGED << current_value_, stores, outcome >>,
         uses' \in [DOMAIN ast.nodes -> {NoNode} \cup DOMAIN ast.nodes]
  PROVE  GInv'
<1>1. ast' = ast /\ current_function_' = current_function_ /\ current_value_' = current_value_
  BY DEF Tree, KeepTables
<1>2. ItemsInv' /\ RegionInv' /\ ValueInv'
  BY <1>1, TodoStep DEF GInv, ValueInv
<1>3. NamesInv'
  BY <1>1, SameNames
<1>4. BlocksInv'
  BY <1>1, QuietBlocks DEF KeepBuilder
<1>5. RecordsInv'
  BY <1>1, NewRecords DEF GInv, RecordsInv, KeepBuilder
<1> QED BY <1>1, <1>2, <1>3, <1>4, <1>5 DEF GInv

LEMMA LeaveStep ==
  ASSUME GInv, Generating, todo # << >>, Tree, current_function_ # NoNode, Inside(ast, todo[1]),
         ~ Ends(todo[1]), Effect(ast, todo[1]) = 0,
         NEW items \in Seq(Item), items # << >>, Goes_on(items),
         \A j \in 1 .. Len(items) : /\ Fits(ast, items[j]) /\ Inside(ast, items[j])
                                    /\ Awaits(ast, items[j]) = {} /\ Effect(ast, items[j]) = 0,
         Chained(ast, items), ~ Needs(ast, items[1]),
         \A b \in Item : Follows(ast, todo[1], b) => Follows(ast, items[Len(items)], b),
         KeepTables, KeepBuilder,
         UNCHANGED << current_value_, kept, stores, outcome >>,
         uses' \in [DOMAIN ast.nodes -> {NoNode} \cup DOMAIN ast.nodes]
  PROVE  GInv'
<1>1. KeptInv'
  BY KeptStays, SameTree
<1> QED BY <1>1, LeaveItems

LEMMA VisitingFacts ==
  ASSUME GInv, Next_is("visit"), node_at(here).kind \notin Literal \cup TopLevel
  PROVE  /\ Generating /\ todo # << >> /\ todo[1].do = "visit" /\ todo[1].node = here
         /\ current_function_ # NoNode /\ Inside(ast, todo[1])
         /\ ~ Ends(todo[1]) /\ Effect(ast, todo[1]) = 0
         /\ here \in DOMAIN ast.nodes
<1>1. Generating /\ todo # << >> /\ todo[1].do = "visit" /\ todo[1].node = here /\ here \in DOMAIN ast.nodes
  BY HeadFacts DEF Next_is
<1>2. current_function_ # NoNode /\ Inside(ast, todo[1])
  BY <1>1, InFunction
<1> QED BY <1>1, <1>2 DEF Ends, Effect

LEMMA KindsVisited ==
  /\ {"BinaryOp", "UnaryOp", "VariableDeclaration", "VariableAssignment", "VariableLookup", "FunctionCall",
      "FunctionReturn", "If"} \cap (Literal \cup TopLevel) = {}
  /\ DOMAIN After = {"UnaryOp", "VariableDeclaration", "VariableAssignment", "FunctionReturn", "If"}
BY DEF Literal, TopLevel, After

LEMMA visit_unary_opStep == ASSUME GInv, visit_unary_op PROVE GInv'
<1>1. Next_is("visit") /\ node_at(here).kind = "UnaryOp"
  BY DEF visit_unary_op, Visits, Next_is
<1>2. /\ Generating /\ todo # << >> /\ todo[1].do = "visit" /\ todo[1].node = here
      /\ current_function_ # NoNode /\ Inside(ast, todo[1])
      /\ ~ Ends(todo[1]) /\ Effect(ast, todo[1]) = 0
  BY <1>1, VisitingFacts, KindsVisited
<1>3. NoNode \in Nat /\ After["UnaryOp"] = "unary_op"
  BY DEF NoNode, After
<1>4. PICK items : items = visit(node_at(here).operands) \o << item(After["UnaryOp"], here, NoNode) >>
  OBVIOUS
<1>5. /\ items \in Seq(Item) /\ items # << >>
      /\ \A j \in 1 .. Len(items) : /\ Fits(ast, items[j]) /\ Inside(ast, items[j])
                                    /\ Awaits(ast, items[j]) = {} /\ Effect(ast, items[j]) = 0
      /\ Chained(ast, items)
      /\ \A b \in Item : Follows(ast, todo[1], b) => Follows(ast, items[Len(items)], b)
      /\ ~ Needs(ast, items[1])
  BY ZenonT(60), <1>1, <1>2, <1>3, <1>4, OneOperand, KindsVisited
<1>6. Goes_on(items)
  BY <1>3, <1>4 DEF visit_unary_op
<1>7. /\ Tree /\ KeepTables /\ KeepBuilder
      /\ UNCHANGED << current_value_, kept, uses, stores, outcome >>
  BY DEF visit_unary_op
<1> QED BY <1>2, <1>5, <1>6, <1>7, LeaveStep DEF GInv, RecordsInv

LEMMA visit_function_returnStep == ASSUME GInv, visit_function_return PROVE GInv'
<1>1. Next_is("visit") /\ node_at(here).kind = "FunctionReturn"
  BY DEF visit_function_return, Visits, Next_is
<1>2. /\ Generating /\ todo # << >> /\ todo[1].do = "visit" /\ todo[1].node = here
      /\ current_function_ # NoNode /\ Inside(ast, todo[1])
      /\ ~ Ends(todo[1]) /\ Effect(ast, todo[1]) = 0
  BY <1>1, VisitingFacts, KindsVisited
<1>3. NoNode \in Nat /\ After["FunctionReturn"] = "return"
  BY DEF NoNode, After
<1>4. PICK items : items = visit(node_at(here).operands) \o << item(After["FunctionReturn"], here, NoNode) >>
  OBVIOUS
<1>5. /\ items \in Seq(Item) /\ items # << >>
      /\ \A j \in 1 .. Len(items) : /\ Fits(ast, items[j]) /\ Inside(ast, items[j])
                                    /\ Awaits(ast, items[j]) = {} /\ Effect(ast, items[j]) = 0
      /\ Chained(ast, items)
      /\ \A b \in Item : Follows(ast, todo[1], b) => Follows(ast, items[Len(items)], b)
      /\ ~ Needs(ast, items[1])
  BY ZenonT(60), <1>1, <1>2, <1>3, <1>4, OneOperand, KindsVisited
<1>6. Goes_on(items)
  BY <1>3, <1>4 DEF visit_function_return
<1>7. /\ Tree /\ KeepTables /\ KeepBuilder
      /\ UNCHANGED << current_value_, kept, uses, stores, outcome >>
  BY DEF visit_function_return
<1> QED BY <1>2, <1>5, <1>6, <1>7, LeaveStep DEF GInv, RecordsInv

LEMMA visit_ifStep == ASSUME GInv, visit_if PROVE GInv'
<1>1. Next_is("visit") /\ node_at(here).kind = "If"
  BY DEF visit_if, Visits, Next_is
<1>2. /\ Generating /\ todo # << >> /\ todo[1].do = "visit" /\ todo[1].node = here
      /\ current_function_ # NoNode /\ Inside(ast, todo[1])
      /\ ~ Ends(todo[1]) /\ Effect(ast, todo[1]) = 0
  BY <1>1, VisitingFacts, KindsVisited
<1>3. NoNode \in Nat /\ After["If"] = "branch" /\ "If" \in DOMAIN After
  BY DEF NoNode, After
<1>4. PICK items : items = visit(node_at(here).operands) \o << item(After["If"], here, NoNode) >>
  OBVIOUS
<1>5. /\ items \in Seq(Item) /\ items # << >>
      /\ \A j \in 1 .. Len(items) : /\ Fits(ast, items[j]) /\ Inside(ast, items[j])
                                    /\ Awaits(ast, items[j]) = {} /\ Effect(ast, items[j]) = 0
      /\ Chained(ast, items)
      /\ \A b \in Item : Follows(ast, todo[1], b) => Follows(ast, items[Len(items)], b)
      /\ ~ Needs(ast, items[1])
  BY ZenonT(60), <1>1, <1>2, <1>3, <1>4, OneOperand
<1>6. Goes_on(items)
  BY <1>3, <1>4 DEF visit_if
<1>7. /\ Tree /\ KeepTables /\ KeepBuilder
      /\ UNCHANGED << current_value_, kept, uses, stores, outcome >>
  BY DEF visit_if
<1> QED BY <1>2, <1>5, <1>6, <1>7, LeaveStep DEF GInv, RecordsInv

LEMMA visit_variable_declarationStep == ASSUME GInv, visit_variable_declaration PROVE GInv'
<1>1. Next_is("visit") /\ node_at(here).kind = "VariableDeclaration"
  BY DEF visit_variable_declaration, Visits, Next_is
<1>2. /\ Generating /\ todo # << >> /\ todo[1].do = "visit" /\ todo[1].node = here
      /\ current_function_ # NoNode /\ Inside(ast, todo[1])
      /\ ~ Ends(todo[1]) /\ Effect(ast, todo[1]) = 0 /\ here \in DOMAIN ast.nodes
  BY <1>1, VisitingFacts, KindsVisited
<1>3. NoNode \in Nat /\ After["VariableDeclaration"] = "bind" /\ "VariableDeclaration" \in DOMAIN After
  BY DEF NoNode, After
<1>4. PICK items : items = visit(node_at(here).operands) \o << item(After["VariableDeclaration"], here, NoNode) >>
  OBVIOUS
<1>5. /\ items \in Seq(Item) /\ items # << >>
      /\ \A j \in 1 .. Len(items) : /\ Fits(ast, items[j]) /\ Inside(ast, items[j])
                                    /\ Awaits(ast, items[j]) = {} /\ Effect(ast, items[j]) = 0
      /\ Chained(ast, items)
      /\ \A b \in Item : Follows(ast, todo[1], b) => Follows(ast, items[Len(items)], b)
      /\ ~ Needs(ast, items[1])
  BY ZenonT(60), <1>1, <1>2, <1>3, <1>4, OneOperand, KindsVisited
<1>6. Goes_on(items)
  BY <1>3, <1>4 DEF visit_variable_declaration
<1>7. /\ Tree /\ KeepTables
      /\ current_value_' = current_value_ /\ kept' = kept /\ insert_block' = insert_block
      /\ refused' = refused /\ uses' = uses /\ stores' = stores /\ outcome' = outcome
  BY DEF visit_variable_declaration
<1>8. ast' = ast /\ current_function_' = current_function_
  BY <1>7 DEF Tree, KeepTables
<1>9. ItemsInv' /\ RegionInv' /\ ValueInv'
  BY <1>2, <1>5, <1>6, <1>7, <1>8, TodoStep DEF GInv, ValueInv
<1>10. KeptInv'
  BY <1>2, <1>5, <1>6, <1>7, <1>8, KeptStays
<1>11. NamesInv'
  BY <1>2, <1>7, <1>8, SameNames
<1>12. BlocksInv'
  <2>1. insert_block \in DOMAIN blocks /\ blocks[insert_block] \in Block /\ here \in Nat
    BY <1>2, OpenBlock, NodeFacts DEF GInv
  <2> DEFINE b == making(blocks[insert_block], here)
  <2>2. b \in Block /\ ~ b.ended /\ (b.broken => blocks[insert_block].broken \/ blocks[insert_block].ended)
    BY <2>1, Instructions
  <2>4. blocks' = [blocks EXCEPT ![insert_block] = b]
    BY DEF visit_variable_declaration
  <2> HIDE DEF b
  <2> QED BY <1>2, <1>5, <1>6, <1>7, <1>8, <2>2, <2>4, WriteBlock
<1>13. RecordsInv'
  BY <1>2, <1>7, <1>8, SameRecords
<1> QED BY <1>8, <1>9, <1>10, <1>11, <1>12, <1>13 DEF GInv

\* In a function every name is unknown, or that of a variable or an argument.
LEMMA NamedValue ==
  ASSUME GInv, current_function_ # NoNode, here \in DOMAIN ast.nodes, node_at(here).kind \in Named
  PROVE  named_values_[node_at(here).name] \in {NoNode} \cup Storage(ast)
<1>1. node_at(here).name \in Name
  BY KindFacts DEF GInv, node_at
<1> QED BY <1>1 DEF GInv, NamesInv

LEMMA NamedKinds ==
  {"VariableDeclaration", "VariableAssignment", "VariableLookup", "FunctionCall", "FunctionDeclaration",
   "ConstantDeclaration", "Argument"} \subseteq Named
BY DEF Named, Declaration

LEMMA NewUse ==
  ASSUME GInv, here \in DOMAIN ast.nodes, NEW d \in DOMAIN ast.nodes, uses' = [uses EXCEPT ![here] = d]
  PROVE  uses' \in [DOMAIN ast.nodes -> {NoNode} \cup DOMAIN ast.nodes]
BY DEF GInv, RecordsInv

LEMMA visit_variable_assignmentStep == ASSUME GInv, visit_variable_assignment PROVE GInv'
<1> DEFINE d == named_values_[node_at(here).name]
<1>1. Next_is("visit") /\ node_at(here).kind = "VariableAssignment"
  BY DEF visit_variable_assignment, Visits, Next_is
<1>2. /\ Generating /\ todo # << >> /\ todo[1].do = "visit" /\ todo[1].node = here
      /\ current_function_ # NoNode /\ Inside(ast, todo[1])
      /\ ~ Ends(todo[1]) /\ Effect(ast, todo[1]) = 0 /\ here \in DOMAIN ast.nodes
  BY <1>1, VisitingFacts, KindsVisited
<1>3. d \in {NoNode} \cup Storage(ast)
  BY <1>1, <1>2, NamedValue, NamedKinds
<1>4. CASE Throw("unknown variable")
  <2>1. Tree
    BY DEF visit_variable_assignment
  <2> QED BY <1>2, <1>4, <2>1, ThrowStep DEF Outcome, Failure
<1>5. CASE /\ d # NoNode
           /\ Goes_on(visit(node_at(here).operands) \o << item("store", here, d) >>)
           /\ uses' = [uses EXCEPT ![here] = d]
           /\ KeepTables /\ KeepBuilder
           /\ UNCHANGED << current_value_, kept, stores, outcome >>
  <2>1. d \in Storage(ast) /\ d \in DOMAIN ast.nodes
    BY <1>3, <1>5 DEF Storage
  <2>2. d \in Nat /\ After["VariableAssignment"] = "store" /\ "VariableAssignment" \in DOMAIN After
    BY <2>1, NodeFacts DEF GInv, After
  <2> HIDE DEF d
  <2>3. PICK items : items = visit(node_at(here).operands) \o << item(After["VariableAssignment"], here, d) >>
    OBVIOUS
  <2>4. /\ items \in Seq(Item) /\ items # << >>
        /\ \A j \in 1 .. Len(items) : /\ Fits(ast, items[j]) /\ Inside(ast, items[j])
                                      /\ Awaits(ast, items[j]) = {} /\ Effect(ast, items[j]) = 0
        /\ Chained(ast, items)
        /\ \A b \in Item : Follows(ast, todo[1], b) => Follows(ast, items[Len(items)], b)
        /\ ~ Needs(ast, items[1])
    BY ZenonT(60), <1>1, <1>2, <2>1, <2>2, <2>3, OneOperand
  <2>5. Goes_on(items)
    BY <1>5, <2>2, <2>3
  <2>6. uses' \in [DOMAIN ast.nodes -> {NoNode} \cup DOMAIN ast.nodes]
    BY <1>2, <1>5, <2>1, NewUse
  <2>7. Tree
    BY DEF visit_variable_assignment
  <2> QED BY <1>2, <1>5, <2>4, <2>5, <2>6, <2>7, LeaveStep
<1> QED BY <1>4, <1>5 DEF visit_variable_assignment

-------------------------------------------------------------------------------
(* What is done after the operands. *)

LEMMA Popped ==
  ASSUME GInv, todo # << >>, Goes_on(<< >>)
  PROVE  /\ todo' \in Seq(Item)
         /\ Len(todo') = Len(todo) - 1
         /\ \A j \in 1 .. Len(todo) - 1 : todo'[j] = todo[j + 1]
<1>1. todo \in Seq(Item)
  BY DEF GInv, ItemsInv
<1>2. todo' = << >> \o Tail(todo) /\ Tail(todo) \in Seq(Item) /\ Len(Tail(todo)) = Len(todo) - 1
  BY <1>1 DEF Goes_on
<1>3. todo' = Tail(todo)
  BY <1>2
<1> QED BY <1>1, <1>2, <1>3

LEMMA KeptEffect ==
  ASSUME GInv, todo # << >>, ast' = ast, Goes_on(<< >>), kept' \in Seq(Value),
         Len(kept') = Len(kept) + Effect(ast, todo[1])
  PROVE  KeptInv'
<1> DEFINE e == [j \in 1 .. 1 |-> Len(kept')]
<1>1. << >> \in Seq(Item) /\ Len(<< >>) = 0 /\ 1 .. 0 = {} /\ Len(kept') \in Nat
  OBVIOUS
<1>2. e \in [1 .. 0 + 1 -> Nat] /\ e[1] = Len(kept')
  BY <1>1
<1> HIDE DEF e
<1>3. Depths(ast, e, << >>, Len(kept')) /\ e[Len(<< >>) + 1] = Len(kept) + Effect(ast, todo[1])
  BY <1>1, <1>2 DEF Depths
<1> QED BY <1>1, <1>3, KeptStep

\* At most one instruction is written; only a return ends a block.
Writes ==
    \/ blocks' = blocks
    \/ \E b \in Block : /\ blocks' = [blocks EXCEPT ![insert_block] = b]
                        /\ b.broken => blocks[insert_block].broken \/ blocks[insert_block].ended
                        /\ b.ended => Returns(ast, todo[1])

\* An item of a function, done with at most one instruction.
LEMMA WorkStep ==
  ASSUME GInv, Generating, todo # << >>, Tree, current_function_ # NoNode, Inside(ast, todo[1]),
         ~ Ends(todo[1]), Goes_on(<< >>),
         current_function_' = current_function_, insert_block' = insert_block,
         current_value_' \in Value \cup {NoValue},
         Yields(ast, todo[1]) => current_value_' # NoValue,
         kept' \in Seq(Value), Len(kept') = Len(kept) + Effect(ast, todo[1]),
         NamesInv', RecordsInv',
         Writes
  PROVE  GInv'
<1>1. ast' = ast
  BY DEF Tree
<1>2. ItemsInv' /\ RegionInv' /\ ValueInv'
  BY <1>1, DoneStep
<1>3. KeptInv'
  BY <1>1, KeptEffect
<1>4. << >> \in Seq(Item) /\ Len(<< >>) = 0 /\ \A j \in 1 .. 0 : Awaits(ast, << >>[j]) = {}
  OBVIOUS
<1>5. CASE blocks' = blocks
  BY <1>1, <1>2, <1>3, <1>4, <1>5, QuietBlocks DEF GInv
<1>6. CASE \E b \in Block : /\ blocks' = [blocks EXCEPT ![insert_block] = b]
                            /\ b.broken => blocks[insert_block].broken \/ blocks[insert_block].ended
                            /\ b.ended => Returns(ast, todo[1])
  <2>1. PICK b \in Block : /\ blocks' = [blocks EXCEPT ![insert_block] = b]
                           /\ b.broken => blocks[insert_block].broken \/ blocks[insert_block].ended
                           /\ b.ended => Returns(ast, todo[1])
    BY <1>6
  <2>2. ASSUME ~ LeavesEarly(ast), b.ended
        PROVE  Ends(todo'[1])
    <3>1. PICK k \in 0 .. Len(todo) : Generates(k)
      BY DEF GInv, RegionInv
    <3>2. k # 1
      BY <3>1 DEF Generates, Inside, item
    <3>3. Len(todo) \in Nat \ {0}
      BY HeadFacts
    <3>4. 1 \in 1 .. Len(todo) - 1 /\ 2 \in 2 .. Len(todo)
      BY <3>1, <3>2, <3>3 DEF Generates
    <3>5. Follows(ast, todo[1], todo[2])
      BY <3>4 DEF GInv, ItemsInv, Chained
    <3>6. todo'[1] = todo[2]
      BY <3>4, Popped
    <3> QED BY <2>1, <2>2, <3>5, <3>6 DEF Follows
  <2>3. BlocksInv'
    BY <1>1, <1>4, <2>1, <2>2, WriteBlock
  <2> QED BY <1>1, <1>2, <1>3, <2>3 DEF GInv
<1> QED BY <1>5, <1>6 DEF Writes

LEMMA WorkFacts ==
  ASSUME GInv, NEW what, Next_is(what), what \notin {"visit", "define_constant", "end_function"}
  PROVE  /\ Generating /\ todo # << >> /\ todo[1].do = what /\ todo[1].node = here
         /\ todo[1].entry = entry_here /\ Fits(ast, todo[1])
         /\ current_function_ # NoNode /\ Inside(ast, todo[1])
         /\ here \in DOMAIN ast.nodes
         /\ Needs(ast, todo[1]) => current_value_ # NoValue
         /\ what \notin {"end_then", "end_else"} => ~ Ends(todo[1])
<1>1. /\ Generating /\ todo # << >> /\ todo[1].do = what /\ todo[1].node = here
      /\ todo[1].entry = entry_here /\ Fits(ast, todo[1]) /\ here \in DOMAIN ast.nodes
  BY HeadFacts DEF Next_is
<1>2. current_function_ # NoNode /\ Inside(ast, todo[1])
  BY <1>1, InFunction
<1> QED BY <1>1, <1>2 DEF Ends, GInv, ValueInv

LEMMA KeptFacts ==
  ASSUME GInv, todo # << >>
  PROVE  /\ kept \in Seq(Value) /\ Len(kept) \in Nat
         /\ Len(kept) + Effect(ast, todo[1]) \in Nat
<1>1. kept \in Seq(Value)
  BY DEF GInv, KeptInv
<1>2. PICK d : Depths(ast, d, todo, Len(kept))
  BY DEF GInv, KeptInv
<1>3. Len(todo) \in Nat \ {0}
  BY HeadFacts
<1>4. 1 \in 1 .. Len(todo) /\ 1 + 1 = 2 /\ 2 \in 1 .. Len(todo) + 1
  BY <1>3
<1>5. d[2] = Len(kept) + Effect(ast, todo[1]) /\ d[2] \in Nat
  BY <1>2, <1>4 DEF Depths
<1> QED BY <1>1, <1>5

LEMMA Appended ==
  ASSUME GInv, todo # << >>, current_function_ # NoNode,
         Append_instruction \/ \E d \in Nat : Append_use(d)
  PROVE  Writes
<1>1. insert_block \in DOMAIN blocks /\ blocks[insert_block] \in Block
  BY OpenBlock
<1>2. CASE Append_instruction
  <2>1. blocks' = [blocks EXCEPT ![insert_block] = appended(blocks[insert_block])]
    BY <1>2 DEF Append_instruction
  <2>2. /\ appended(blocks[insert_block]) \in Block /\ ~ appended(blocks[insert_block]).ended
        /\ appended(blocks[insert_block]).broken =>
             blocks[insert_block].broken \/ blocks[insert_block].ended
    BY <1>1, Instructions
  <2> QED BY <2>1, <2>2 DEF Writes
<1>3. CASE \E d \in Nat : Append_use(d)
  <2>1. PICK d \in Nat : Append_use(d)
    BY <1>3
  <2>2. blocks' = [blocks EXCEPT ![insert_block] = using(blocks[insert_block], d)]
    BY <2>1 DEF Append_use
  <2>3. /\ using(blocks[insert_block], d) \in Block /\ ~ using(blocks[insert_block], d).ended
        /\ using(blocks[insert_block], d).broken =>
             blocks[insert_block].broken \/ blocks[insert_block].ended
    BY <1>1, Instructions
  <2> QED BY <2>2, <2>3 DEF Writes
<1> QED BY <1>2, <1>3

LEMMA keep_valueStep == ASSUME GInv, keep_value PROVE GInv'
<1>1. Next_is("keep") /\ Tree /\ KeepTables /\ KeepBuilder /\ Goes_on(<< >>)
  BY DEF keep_value
<1>2. /\ current_value_' = current_value_ /\ uses' = uses /\ stores' = stores /\ outcome' = outcome
      /\ kept' = Append(kept, current_value_)
  BY DEF keep_value
<1>3. /\ Generating /\ todo # << >> /\ todo[1].do = "keep" /\ todo[1].node = here
      /\ current_function_ # NoNode /\ Inside(ast, todo[1]) /\ ~ Ends(todo[1])
      /\ Needs(ast, todo[1]) => current_value_ # NoValue
  BY <1>1, WorkFacts
<1>4. Effect(ast, todo[1]) = 1 /\ Needs(ast, todo[1]) /\ ~ Yields(ast, todo[1])
  BY <1>3 DEF Effect, Needs, Yields
<1>5. current_value_ \in Value
  BY <1>3, <1>4 DEF GInv, ValueInv
<1>6. kept' \in Seq(Value) /\ Len(kept') = Len(kept) + Effect(ast, todo[1])
  BY <1>2, <1>3, <1>4, <1>5, KeptFacts
<1>7. NamesInv'
  BY <1>1, <1>3, SameNames, SameTree
<1>8. RecordsInv'
  BY <1>1, <1>2, <1>3, SameRecords, SameTree, SameBuilder
<1> QED BY <1>1, <1>2, <1>3, <1>4, <1>5, <1>6, <1>7, <1>8, WorkStep, SameBuilder DEF KeepTables, Writes

LEMMA unary_opStep == ASSUME GInv, unary_op PROVE GInv'
<1>1. Next_is("unary_op") /\ Tree
  BY DEF unary_op
<1>2. /\ Generating /\ todo # << >> /\ todo[1].do = "unary_op" /\ todo[1].node = here
      /\ current_function_ # NoNode /\ Inside(ast, todo[1]) /\ ~ Ends(todo[1])
      /\ Needs(ast, todo[1]) => current_value_ # NoValue
  BY <1>1, WorkFacts
<1>3. current_value_ # NoValue /\ Effect(ast, todo[1]) = 0
  BY <1>2 DEF Needs, Effect
<1>4. /\ Goes_on(<< >>) /\ KeepTables
      /\ current_value_' = current_value_ /\ kept' = kept /\ insert_block' = insert_block
      /\ uses' = uses /\ stores' = stores /\ outcome' = outcome
  BY <1>3 DEF unary_op
<1>5. \/ blocks' = blocks /\ refused' = refused
      \/ Append_instruction /\ \E legal : Refuse_unless(legal)
  BY <1>3 DEF unary_op
<1>6. NamesInv' /\ RecordsInv'
  BY <1>1, <1>2, <1>4, <1>5, SameNames, SameRecords, SameTree
<1>7. Writes
  BY <1>2, <1>5, Appended DEF Writes
<1>8. kept' \in Seq(Value) /\ Len(kept') = Len(kept) + Effect(ast, todo[1])
  BY <1>2, <1>3, <1>4, KeptFacts
<1>9. current_value_' \in Value \cup {NoValue}
  BY <1>4 DEF GInv, ValueInv
<1> QED BY <1>1, <1>2, <1>3, <1>4, <1>6, <1>7, <1>8, <1>9, WorkStep DEF KeepTables

LEMMA StorageFacts ==
  ASSUME GInv, NEW d \in Storage(ast)
  PROVE  /\ d \in DOMAIN ast.nodes /\ d \in Nat /\ d # NoNode
         /\ node_at(d).kind # "ConstantDeclaration"
         /\ allocated_type(d) \in LlvmType
         /\ allocated_type(d) \in IntegerTy \cup FloatingPointTy
<1>1. d \in DOMAIN ast.nodes /\ ast.nodes[d].kind \in {"VariableDeclaration", "Argument"}
  BY DEF Storage
<1>2. d \in Nat /\ d # NoNode
  BY <1>1, NodeFacts DEF GInv
<1>3. ast.nodes[d].type \in RefType
  BY <1>1, KindFacts DEF GInv, DeclaredTypes
<1> QED BY <1>1, <1>2, <1>3, NamedTypes DEF allocated_type, node_at, LlvmType

LEMMA NewStore ==
  ASSUME GInv, here \in DOMAIN ast.nodes, NEW d \in Storage(ast), current_value_ \in Value, stored(here, d)
  PROVE  stores' \subseteq (DOMAIN ast.nodes) \X LlvmType \X LlvmType
<1>1. allocated_type(d) \in LlvmType /\ current_value_.type \in LlvmType
  BY StorageFacts DEF Value
<1>2. stores \subseteq (DOMAIN ast.nodes) \X LlvmType \X LlvmType
  BY DEF GInv, RecordsInv
<1>3. << here, current_value_.type, allocated_type(d) >> \in (DOMAIN ast.nodes) \X LlvmType \X LlvmType
  BY <1>1
<1> QED BY <1>2, <1>3 DEF stored

LEMMA bind_variableStep == ASSUME GInv, bind_variable PROVE GInv'
<1>1. Next_is("bind") /\ Tree
  BY DEF bind_variable
<1>2. /\ Generating /\ todo # << >> /\ todo[1].do = "bind" /\ todo[1].node = here
      /\ current_function_ # NoNode /\ Inside(ast, todo[1]) /\ ~ Ends(todo[1])
      /\ here \in DOMAIN ast.nodes /\ Fits(ast, todo[1])
      /\ Needs(ast, todo[1]) => current_value_ # NoValue
  BY <1>1, WorkFacts
<1>3. has_value(node_at(here)) => current_value_ # NoValue
  BY <1>2 DEF Needs, node_at
<1>4. here \in Storage(ast) /\ node_at(here).kind = "VariableDeclaration"
  BY <1>2 DEF Fits, Storage, node_at
<1>5. /\ named_values_' = [named_values_ EXCEPT ![node_at(here).name] = here]
      /\ current_value_' = computed("ptr")
      /\ Goes_on(<< >>)
      /\ prev_named_values' = prev_named_values /\ functions_' = functions_
      /\ current_function_' = current_function_ /\ kept' = kept /\ insert_block' = insert_block
      /\ uses' = uses /\ outcome' = outcome
  BY <1>3 DEF bind_variable
<1>6. \/ has_value(node_at(here)) /\ Append_use(here) /\ stored(here, here)
           /\ Refuse_unless(current_value_.type # "void")
      \/ blocks' = blocks /\ stores' = stores /\ refused' = refused
  BY <1>3 DEF bind_variable
<1>7. ast' = ast /\ here \in Nat
  BY <1>1, <1>4, SameTree, StorageFacts
<1>8. current_value_' \in Value /\ current_value_' # NoValue
  BY <1>5, NewValues DEF LlvmType
<1>9. Writes
  BY <1>2, <1>6, <1>7, Appended DEF Writes
<1>10. stores' \subseteq (DOMAIN ast.nodes) \X LlvmType \X LlvmType
  <2>1. CASE stores' = stores
    BY <2>1 DEF GInv, RecordsInv
  <2>2. CASE has_value(node_at(here)) /\ stored(here, here)
    <3>1. current_value_ \in Value
      BY <1>3, <2>2 DEF GInv, ValueInv
    <3> QED BY <1>2, <1>4, <2>2, <3>1, NewStore
  <2> QED BY <1>6, <2>1, <2>2
<1>11. refused' \subseteq DOMAIN ast.nodes
  BY <1>2, <1>6 DEF GInv, RecordsInv, Refuse_unless
<1>12. RecordsInv'
  BY <1>2, <1>5, <1>7, <1>10, <1>11, NewRecords DEF GInv, RecordsInv
<1>13. NamesInv'
  <2>1. node_at(here).name \in Name
    BY <1>2, <1>4, KindFacts, NamedKinds DEF GInv, node_at
  <2>2. named_values_ \in [Name -> {NoNode} \cup Storage(ast)]
    BY <1>2 DEF GInv, NamesInv
  <2>3. named_values_' \in [Name -> {NoNode} \cup Storage(ast)]
    BY <1>4, <1>5, <2>1, <2>2
  <2>4. \A x \in Symbol : functions_[x] \in {NoNode} \cup Functions(ast, x)
    BY <1>2 DEF GInv, NamesInv
  <2> QED BY <1>2, <1>5, <1>7, <2>3, <2>4 DEF GInv, NamesInv
<1>14. kept' \in Seq(Value) /\ Len(kept') = Len(kept) + Effect(ast, todo[1])
  BY <1>2, <1>5, KeptFacts DEF Effect
<1> QED BY <1>1, <1>2, <1>5, <1>8, <1>9, <1>12, <1>13, <1>14, WorkStep

LEMMA store_valueStep == ASSUME GInv, store_value PROVE GInv'
<1>1. Next_is("store") /\ Tree
  BY DEF store_value
<1>2. /\ Generating /\ todo # << >> /\ todo[1].do = "store" /\ todo[1].node = here
      /\ todo[1].entry = entry_here
      /\ current_function_ # NoNode /\ Inside(ast, todo[1]) /\ ~ Ends(todo[1])
      /\ here \in DOMAIN ast.nodes /\ Fits(ast, todo[1])
      /\ Needs(ast, todo[1]) => current_value_ # NoValue
  BY <1>1, WorkFacts
<1>3. current_value_ # NoValue /\ ~ Yields(ast, todo[1])
  BY <1>2 DEF Needs, Yields
<1>4. entry_here \in Storage(ast)
  BY <1>2 DEF Fits
<1>5. /\ Append_use(entry_here) /\ stored(here, entry_here)
      /\ Refuse_unless(current_value_.type # "void")
      /\ Goes_on(<< >>) /\ KeepTables
      /\ current_value_' = current_value_ /\ kept' = kept /\ insert_block' = insert_block
      /\ uses' = uses /\ outcome' = outcome
  BY <1>3 DEF store_value
<1>6. entry_here \in Nat /\ ast' = ast
  BY <1>1, <1>4, SameTree, StorageFacts
<1>7. current_value_ \in Value
  BY <1>3 DEF GInv, ValueInv
<1>8. stores' \subseteq (DOMAIN ast.nodes) \X LlvmType \X LlvmType
  BY <1>2, <1>4, <1>5, <1>7, NewStore
<1>9. refused' \subseteq DOMAIN ast.nodes
  BY <1>2, <1>5 DEF GInv, RecordsInv, Refuse_unless
<1>10. RecordsInv'
  BY <1>2, <1>5, <1>6, <1>8, <1>9, NewRecords DEF GInv, RecordsInv
<1>11. NamesInv'
  BY <1>2, <1>5, <1>6, SameNames
<1>12. Writes
  BY <1>2, <1>5, <1>6, Appended
<1>13. kept' \in Seq(Value) /\ Len(kept') = Len(kept) + Effect(ast, todo[1])
  BY <1>2, <1>5, KeptFacts DEF Effect
<1> QED BY <1>1, <1>2, <1>3, <1>5, <1>7, <1>10, <1>11, <1>12, <1>13, WorkStep DEF KeepTables

LEMMA visit_variable_lookupStep == ASSUME GInv, visit_variable_lookup PROVE GInv'
<1> DEFINE d == named_values_[node_at(here).name]
<1>1. Next_is("visit") /\ node_at(here).kind = "VariableLookup" /\ Tree
  BY DEF visit_variable_lookup, Visits, Next_is
<1>2. /\ Generating /\ todo # << >> /\ todo[1].do = "visit" /\ todo[1].node = here
      /\ current_function_ # NoNode /\ Inside(ast, todo[1])
      /\ ~ Ends(todo[1]) /\ Effect(ast, todo[1]) = 0 /\ here \in DOMAIN ast.nodes
  BY <1>1, VisitingFacts, KindsVisited
<1>3. d \in {NoNode} \cup Storage(ast)
  BY <1>1, <1>2, NamedValue, NamedKinds
<1>4. CASE Throw("unknown variable")
  BY <1>1, <1>2, <1>4, ThrowStep DEF Outcome, Failure
<1>5. CASE d # NoNode /\ node_at(d).kind = "ConstantDeclaration"
  BY <1>3, <1>5, StorageFacts
<1>6. CASE /\ d # NoNode /\ Append_use(d)
           /\ current_value_' = computed(allocated_type(d))
           /\ uses' = [uses EXCEPT ![here] = d]
           /\ Goes_on(<< >>)
           /\ KeepTables
           /\ UNCHANGED << kept, insert_block, refused, stores, outcome >>
  <2>1. d \in Storage(ast) /\ d \in Nat /\ d \in DOMAIN ast.nodes /\ allocated_type(d) \in LlvmType
    BY <1>3, <1>6, StorageFacts
  <2> HIDE DEF d
  <2>2. current_value_' \in Value /\ current_value_' # NoValue
    BY <1>6, <2>1, NewValues
  <2>3. Writes
    BY <1>2, <1>6, <2>1, Appended
  <2>4. uses' \in [DOMAIN ast.nodes -> {NoNode} \cup DOMAIN ast.nodes]
    BY <1>2, <1>6, <2>1, NewUse
  <2>5. RecordsInv'
    BY <1>1, <1>2, <1>6, <2>4, NewRecords, SameTree DEF GInv, RecordsInv
  <2>6. NamesInv'
    BY <1>1, <1>2, <1>6, SameNames, SameTree
  <2>7. kept' \in Seq(Value) /\ Len(kept') = Len(kept) + Effect(ast, todo[1])
    BY <1>2, <1>6, KeptFacts
  <2> QED BY <1>1, <1>2, <1>6, <2>2, <2>3, <2>5, <2>6, <2>7, WorkStep DEF KeepTables
<1> QED BY <1>4, <1>5, <1>6 DEF visit_variable_lookup

LEMMA returnStep == ASSUME GInv, return PROVE GInv'
<1>1. Next_is("return") /\ Tree
  BY DEF return
<1>2. /\ Generating /\ todo # << >> /\ todo[1].do = "return" /\ todo[1].node = here
      /\ current_function_ # NoNode /\ Inside(ast, todo[1]) /\ ~ Ends(todo[1])
      /\ Needs(ast, todo[1]) => current_value_ # NoValue
  BY <1>1, WorkFacts
<1>3. has_value(node_at(here)) => current_value_ # NoValue
  BY <1>2 DEF Needs, node_at
<1>4. /\ blocks' = [blocks EXCEPT ![insert_block] = terminated(blocks[insert_block], {})]
      /\ \E legal : Refuse_unless(legal)
      /\ Goes_on(<< >>) /\ KeepTables
      /\ current_value_' = current_value_ /\ kept' = kept /\ insert_block' = insert_block
      /\ uses' = uses /\ stores' = stores /\ outcome' = outcome
  BY <1>3 DEF return
<1>5. ~ Yields(ast, todo[1]) /\ Effect(ast, todo[1]) = 0 /\ Returns(ast, todo[1])
  BY <1>2 DEF Yields, Effect, Returns
<1>6. NamesInv' /\ RecordsInv'
  BY <1>1, <1>2, <1>4, SameNames, SameRecords, SameTree
<1>7. Writes
  <2>1. insert_block \in DOMAIN blocks /\ blocks[insert_block] \in Block /\ {} \in SUBSET Nat /\ 0 \in Nat
    BY <1>2, OpenBlock
  <2>2. /\ terminated(blocks[insert_block], {}) \in Block
        /\ terminated(blocks[insert_block], {}).broken =>
             blocks[insert_block].broken \/ blocks[insert_block].ended
    BY <2>1, Instructions
  <2> QED BY <1>4, <1>5, <2>2 DEF Writes
<1>8. kept' \in Seq(Value) /\ Len(kept') = Len(kept) + Effect(ast, todo[1])
  BY <1>2, <1>4, <1>5, KeptFacts
<1>9. current_value_' \in Value \cup {NoValue}
  BY <1>4 DEF GInv, ValueInv
<1> QED BY <1>1, <1>2, <1>4, <1>5, <1>6, <1>7, <1>8, <1>9, WorkStep DEF KeepTables

LEMMA KeptPrefix ==
  ASSUME NEW n \in 0 .. Len(kept), kept \in Seq(Value)
  PROVE  SubSeq(kept, 1, n) \in Seq(Value) /\ Len(SubSeq(kept, 1, n)) = n
OBVIOUS

LEMMA callStep == ASSUME GInv, call PROVE GInv'
<1> DEFINE f == ast.nodes[entry_here]
           before == Len(kept) - Len(f.params)
           type == primitive_to_llvm_type(f.type)
<1>1. Next_is("call") /\ Tree
  BY DEF call
<1>2. /\ Generating /\ todo # << >> /\ todo[1].do = "call" /\ todo[1].node = here
      /\ todo[1].entry = entry_here /\ Fits(ast, todo[1])
      /\ current_function_ # NoNode /\ Inside(ast, todo[1]) /\ ~ Ends(todo[1])
  BY <1>1, WorkFacts
<1>3. entry_here \in DOMAIN ast.nodes /\ f.kind = "FunctionDeclaration"
  BY <1>2 DEF Fits, Functions, is_function
<1>4. f \in AstNode /\ f.type \in RefType \cup {UNDEF}
  BY <1>3, NodeFacts, KindFacts DEF GInv, DeclaredTypes
<1>5. type \in LlvmType
  BY <1>4, FunctionTypes
<1>6. Effect(ast, todo[1]) = - Len(f.params) /\ Len(f.params) \in Nat /\ DOMAIN f.params = 1 .. Len(f.params)
  BY <1>2, <1>4 DEF Effect, AstNode
<1>7. before \in 0 .. Len(kept) /\ before = Len(kept) + Effect(ast, todo[1]) /\ kept \in Seq(Value)
  BY <1>2, <1>6, KeptFacts
<1>8. \A i \in DOMAIN f.params : kept[before + i] # NoValue
  <2> TAKE i \in DOMAIN f.params
  <2> DEFINE n == Len(f.params)
             m == Len(kept)
  <2>0. i \in 1 .. n /\ n \in Nat /\ before \in Nat /\ before = m - n /\ m \in Nat
    BY <1>6, <1>7
  <2>1. before + i \in 1 .. m
    <3> HIDE DEF n, m, before
    <3> QED BY <2>0
  <2>2. kept[before + i] \in Value
    BY <1>7, <2>1
  <2> QED BY <2>2, NoValueIsNoValue
<1>9. /\ current_value_' = computed(type) /\ kept' = SubSeq(kept, 1, before)
      /\ Append_instruction /\ \E legal : Refuse_unless(legal)
      /\ Goes_on(<< >>) /\ KeepTables
      /\ insert_block' = insert_block /\ uses' = uses /\ stores' = stores /\ outcome' = outcome
  BY <1>8 DEF call, node_at
<1> HIDE DEF before, type
<1>10. kept' \in Seq(Value) /\ Len(kept') = Len(kept) + Effect(ast, todo[1])
  BY <1>7, <1>9, KeptPrefix
<1>11. current_value_' \in Value /\ current_value_' # NoValue
  BY <1>5, <1>9, NewValues
<1>12. NamesInv' /\ RecordsInv' /\ Writes
  BY <1>1, <1>2, <1>9, SameNames, SameRecords, SameTree, Appended
<1> QED BY <1>1, <1>2, <1>9, <1>10, <1>11, <1>12, WorkStep DEF KeepTables

LEMMA binary_opStep == ASSUME GInv, binary_op PROVE GInv'
<1> DEFINE left == kept[Len(kept)]
           type == binary_op_type(node_at(here).op, left)
<1>1. Next_is("binary_op") /\ Tree
  BY DEF binary_op
<1>2. /\ Generating /\ todo # << >> /\ todo[1].do = "binary_op" /\ todo[1].node = here
      /\ current_function_ # NoNode /\ Inside(ast, todo[1]) /\ ~ Ends(todo[1])
      /\ Needs(ast, todo[1]) => current_value_ # NoValue
  BY <1>1, WorkFacts
<1>3. current_value_ # NoValue /\ Effect(ast, todo[1]) = -1
  BY <1>2 DEF Needs, Effect
<1>4. kept \in Seq(Value) /\ Len(kept) \in Nat /\ Len(kept) - 1 \in Nat
  BY <1>2, <1>3, KeptFacts
<1>5. left \in Value /\ left # NoValue
  <2>1. Len(kept) \in 1 .. Len(kept)
    BY <1>4
  <2> QED BY <1>4, <2>1, NoValueIsNoValue
<1>6. type \in LlvmType
  BY <1>5 DEF binary_op_type, Value, LlvmType, IntegerTy
<1>7. /\ kept' = SubSeq(kept, 1, Len(kept) - 1)
      /\ Goes_on(<< >>) /\ KeepTables
      /\ insert_block' = insert_block /\ uses' = uses /\ stores' = stores /\ outcome' = outcome
      /\ \/ current_value_' = constant(type) /\ blocks' = blocks /\ refused' = refused
         \/ current_value_' = computed(type) /\ Append_instruction /\ \E legal : Refuse_unless(legal)
  BY <1>3, <1>5 DEF binary_op
<1> HIDE DEF left, type
<1>8. Len(kept) - 1 \in 0 .. Len(kept) /\ Len(kept) - 1 = Len(kept) + Effect(ast, todo[1])
  BY <1>3, <1>4
<1>9. kept' \in Seq(Value) /\ Len(kept') = Len(kept) + Effect(ast, todo[1])
  BY <1>4, <1>7, <1>8, KeptPrefix
<1>10. current_value_' \in Value /\ current_value_' # NoValue
  BY <1>6, <1>7, NewValues
<1>11. NamesInv' /\ RecordsInv'
  BY <1>1, <1>2, <1>7, SameNames, SameRecords, SameTree
<1>12. Writes
  BY <1>2, <1>7, Appended DEF Writes
<1> QED BY <1>1, <1>2, <1>7, <1>9, <1>10, <1>11, <1>12, WorkStep DEF KeepTables

-------------------------------------------------------------------------------
(* Visits that keep values. *)

\* keep_value, after the operand whose value it keeps.
LEMMA KeepItem ==
  ASSUME GInv, here \in DOMAIN ast.nodes, NEW entry \in Nat, NEW what \in {"keep", "binary_op", "call"},
         what = "binary_op" => node_at(here).kind = "BinaryOp",
         what = "call" => /\ node_at(here).kind = "FunctionCall"
                          /\ entry \in Functions(ast, node_at(here).name)
                          /\ Len(ast.nodes[entry].params) = Len(node_at(here).operands)
  PROVE  /\ item(what, here, entry) \in Item
         /\ Fits(ast, item(what, here, entry)) /\ Inside(ast, item(what, here, entry))
         /\ Awaits(ast, item(what, here, entry)) = {}
         /\ ~ Returns(ast, item(what, here, entry))
         /\ what = "call" => ~ Needs(ast, item(what, here, entry))
         /\ what # "keep" => Yields(ast, item(what, here, entry))
         /\ Effect(ast, item("keep", here, entry)) = 1
         /\ Effect(ast, item("binary_op", here, entry)) = -1
         /\ Effect(ast, item("call", here, entry)) = - Len(ast.nodes[entry].params)
<1> DEFINE i == item(what, here, entry)
<1>1. i.do = what /\ i.node = here /\ i.entry = entry
  BY DEF item
<1>2. here \in Nat
  BY NodeFacts DEF GInv
<1>3. i \in Item
  BY <1>2 DEF Item, item
<1>4. /\ Effect(ast, item("keep", here, entry)) = 1
      /\ Effect(ast, item("binary_op", here, entry)) = -1
      /\ Effect(ast, item("call", here, entry)) = - Len(ast.nodes[entry].params)
  BY DEF Effect, item
<1> HIDE DEF i
<1>5. Fits(ast, i) /\ Inside(ast, i) /\ Awaits(ast, i) = {}
  BY <1>1, <1>3 DEF Fits, Inside, Awaits, node_at
<1>6. ~ Returns(ast, i) /\ (what = "call" => ~ Needs(ast, i)) /\ (what # "keep" => Yields(ast, i))
  BY <1>1 DEF Returns, Needs, Yields
<1> QED BY <1>3, <1>4, <1>5, <1>6 DEF i

LEMMA visit_binary_opStep == ASSUME GInv, visit_binary_op PROVE GInv'
<1> DEFINE node == ast.nodes[here]
           k == Len(kept)
           keep == item("keep", here, NoNode)
           last == item("binary_op", here, NoNode)
           items == << visit(node.operands)[1], keep, visit(node.operands)[2], last >>
           e == [j \in 1 .. 5 |-> IF j \in {3, 4} THEN k + 1 ELSE k]
<1>1. Next_is("visit") /\ node.kind = "BinaryOp" /\ Tree /\ node = node_at(here)
  BY DEF visit_binary_op, Visits, Next_is, node_at
<1>2. /\ Generating /\ todo # << >> /\ todo[1].do = "visit" /\ todo[1].node = here
      /\ current_function_ # NoNode /\ Inside(ast, todo[1])
      /\ ~ Ends(todo[1]) /\ Effect(ast, todo[1]) = 0 /\ here \in DOMAIN ast.nodes
  BY <1>1, VisitingFacts, KindsVisited
<1>3. node.operands \in Seq(Nat) /\ Len(node.operands) = 2
  BY <1>1, <1>2, NodeFacts, KindFacts DEF AstNode, Operands, GInv
<1>4. /\ 1 \in DOMAIN node.operands /\ 2 \in DOMAIN node.operands
      /\ 1 \in 1 .. Len(node.operands) /\ 2 \in 1 .. Len(node.operands)
  BY <1>3
<1>5. /\ node.operands[1] \in DOMAIN ast.nodes /\ ast.nodes[node.operands[1]].kind \in Expression
      /\ node.operands[2] \in DOMAIN ast.nodes /\ ast.nodes[node.operands[2]].kind \in Expression
  BY <1>2, <1>4, NodeFacts DEF GInv
<1>6. /\ visit(node.operands)[1] = item("visit", node.operands[1], NoNode)
      /\ visit(node.operands)[2] = item("visit", node.operands[2], NoNode)
  BY <1>4 DEF visit
<1>7. NoNode \in Nat
  BY DEF NoNode
<1> DEFINE first == item("visit", node.operands[1], NoNode)
           second == item("visit", node.operands[2], NoNode)
<1>8. /\ first \in Item /\ Fits(ast, first) /\ Inside(ast, first) /\ Awaits(ast, first) = {}
      /\ Effect(ast, first) = 0 /\ ~ Needs(ast, first) /\ Yields(ast, first) /\ ~ Returns(ast, first)
  BY <1>5, VisitItem, Kinds DEF GInv
<1>9. /\ second \in Item /\ Fits(ast, second) /\ Inside(ast, second) /\ Awaits(ast, second) = {}
      /\ Effect(ast, second) = 0 /\ ~ Needs(ast, second) /\ Yields(ast, second) /\ ~ Returns(ast, second)
  BY <1>5, VisitItem, Kinds DEF GInv
<1>10. /\ keep \in Item /\ Fits(ast, keep) /\ Inside(ast, keep) /\ Awaits(ast, keep) = {}
       /\ Effect(ast, keep) = 1 /\ ~ Returns(ast, keep)
  BY <1>2, <1>7, KeepItem
<1>11. /\ last \in Item /\ Fits(ast, last) /\ Inside(ast, last) /\ Awaits(ast, last) = {}
       /\ Effect(ast, last) = -1 /\ ~ Returns(ast, last) /\ Yields(ast, last)
  BY <1>1, <1>2, <1>7, KeepItem
<1>12. k \in Nat /\ kept \in Seq(Value)
  BY <1>2, KeptFacts
<1>13. Goes_on(items)
  BY DEF visit_binary_op, node_at
<1>14. items = << first, keep, second, last >>
  BY <1>6
<1> HIDE DEF first, second, keep, last, items
<1>15. /\ items \in Seq(Item) /\ items # << >> /\ Len(items) = 4
       /\ items[1] = first /\ items[2] = keep /\ items[3] = second /\ items[4] = last
  BY <1>8, <1>9, <1>10, <1>11, <1>14
<1>16. \A j \in 1 .. Len(items) : j \in {1, 2, 3, 4}
  BY <1>15
<1>17. \A j \in 1 .. Len(items) : Fits(ast, items[j]) /\ Inside(ast, items[j]) /\ Awaits(ast, items[j]) = {}
  BY <1>8, <1>9, <1>10, <1>11, <1>15, <1>16
<1>18. Chained(ast, items)
  <2>1. \A j \in 1 .. Len(items) - 1 : j \in {1, 2, 3}
    BY <1>15
  <2>2. Follows(ast, items[1], items[1 + 1])
    BY <1>8, <1>15 DEF Follows
  <2>3. Follows(ast, items[2], items[2 + 1])
    BY <1>9, <1>10, <1>15 DEF Follows
  <2>4. Follows(ast, items[3], items[3 + 1])
    BY <1>9, <1>15 DEF Follows
  <2> QED BY <2>1, <2>2, <2>3, <2>4 DEF Chained
<1>19. ~ Needs(ast, items[1]) /\ \A b \in Item : Follows(ast, items[Len(items)], b)
  BY <1>8, <1>11, <1>15 DEF Follows
<1>20. /\ KeepTables /\ KeepBuilder
       /\ UNCHANGED << current_value_, stores, outcome >> /\ kept' = kept /\ uses' = uses
  BY DEF visit_binary_op
<1>21. KeptInv'
  <2>1. Depths(ast, e, items, k)
    <3>1. e \in [1 .. 5 -> Nat] /\ e[1] = k /\ e[2] = k /\ e[3] = k + 1 /\ e[4] = k + 1 /\ e[5] = k
      <4> HIDE DEF k
      <4> QED BY <1>12
    <3> HIDE DEF e, k
    <3>2. /\ e[1 + 1] = e[1] + Effect(ast, items[1]) /\ e[2 + 1] = e[2] + Effect(ast, items[2])
          /\ e[3 + 1] = e[3] + Effect(ast, items[3]) /\ e[4 + 1] = e[4] + Effect(ast, items[4])
      BY <1>8, <1>9, <1>10, <1>11, <1>12, <1>15, <3>1
    <3>3. \A j \in 1 .. Len(items) : e[j + 1] = e[j] + Effect(ast, items[j])
      BY <1>16, <3>2
    <3>4. Len(items) + 1 = 5
      BY <1>15
    <3> QED BY <3>1, <3>3, <3>4 DEF Depths
  <2>2. e[Len(items) + 1] = Len(kept) + Effect(ast, todo[1])
    BY <1>2, <1>12, <1>15
  <2> HIDE DEF e
  <2> QED BY <1>1, <1>2, <1>12, <1>13, <1>15, <1>20, <2>1, <2>2, KeptStep, SameTree
<1>22. uses' \in [DOMAIN ast.nodes -> {NoNode} \cup DOMAIN ast.nodes]
  BY <1>20 DEF GInv, RecordsInv
<1> QED BY <1>1, <1>2, <1>13, <1>15, <1>17, <1>18, <1>19, <1>20, <1>21, <1>22, LeaveItems

\* The arguments of a call are at the odd positions.
LEMMA OddAndEven ==
  ASSUME NEW n \in Nat, NEW m \in Nat, m = 2 * n, NEW j \in 1 .. m
  PROVE  /\ j % 2 = 1 => (j + 1) \div 2 \in 1 .. n /\ j \div 2 = (j - 1) \div 2
         /\ j % 2 # 1 => j \div 2 = (j - 1) \div 2 + 1 /\ (j + 1) % 2 = 1 /\ j # m + 1
         /\ j % 2 = 1 => (j + 1) % 2 # 1 /\ j + 1 \in 1 .. m
         /\ (j - 1) \div 2 \in Nat /\ j \div 2 \in Nat
OBVIOUS

LEMMA CallPositions ==
  ASSUME NEW n \in Nat, NEW m \in Nat, m = 2 * n
  PROVE  /\ \A j \in 1 .. m + 2 : j = m + 2 \/ j \in 1 .. m + 1
         /\ \A j \in 1 .. m : j # m => j + 1 \in 1 .. m
         /\ (1 - 1) \div 2 = 0 /\ ((m + 1) - 1) \div 2 = n
         /\ 1 \in 1 .. m + 1 /\ m + 1 \in 1 .. m + 1
OBVIOUS

LEMMA NextIsOdd == ASSUME NEW j \in Nat, j % 2 # 1 PROVE (j + 1) % 2 = 1
OBVIOUS

\* Every argument, each followed by keep.
Kept_each(args, n, keep) ==
    [i \in 1 .. 2 * n |-> IF i % 2 = 1 THEN args[(i + 1) \div 2] ELSE keep]

KeepsEach(s, T, args, n, keep, last) ==
    /\ s \in Seq(T)
    /\ Len(s) = 2 * n + 1
    /\ s[2 * n + 1] = last
    /\ \A j \in 1 .. 2 * n : s[j] = IF j % 2 = 1 THEN args[(j + 1) \div 2] ELSE keep

LEMMA CallSequence ==
  ASSUME NEW T, NEW n \in Nat, NEW args \in Seq(T), Len(args) = n, NEW keep \in T, NEW last \in T,
         NEW s, s = Kept_each(args, n, keep) \o << last >>
  PROVE  KeepsEach(s, T, args, n, keep, last)
<1> DEFINE m == 2 * n
           k == [i \in 1 .. m |-> IF i % 2 = 1 THEN args[(i + 1) \div 2] ELSE keep]
<1>1. m \in Nat /\ m = 2 * n
  OBVIOUS
<1>2. \A i \in 1 .. m : (IF i % 2 = 1 THEN args[(i + 1) \div 2] ELSE keep) \in T
  <2> TAKE i \in 1 .. m
  <2>1. i % 2 = 1 => (i + 1) \div 2 \in 1 .. n
    BY <1>1, OddAndEven
  <2> QED BY <2>1
<1> HIDE DEF m
<1>3. k \in Seq(T) /\ Len(k) = m
  BY <1>1, <1>2
<1>4. \A i \in 1 .. m : k[i] = IF i % 2 = 1 THEN args[(i + 1) \div 2] ELSE keep
  OBVIOUS
<1>5. s = k \o << last >>
  BY DEF m, Kept_each
<1> HIDE DEF k
<1>6. /\ k \o << last >> \in Seq(T) /\ Len(k \o << last >>) = m + 1 /\ (k \o << last >>)[m + 1] = last
      /\ \A j \in 1 .. m : (k \o << last >>)[j] = k[j]
  BY <1>3, ThenOne
<1> QED BY <1>4, <1>5, <1>6 DEF m, KeepsEach

LEMMA CallItems ==
  ASSUME GInv, todo # << >>, todo[1].do = "visit", Effect(ast, todo[1]) = 0, Tree,
         node_at(here).kind = "FunctionCall", kept' = kept,
         NEW f \in Functions(ast, node_at(here).name),
         Len(ast.nodes[f].params) = Len(node_at(here).operands),
         NEW n \in Nat, n = Len(node_at(here).operands), NEW m \in Nat, m = 2 * n,
         NEW items \in Seq(Item), Goes_on(items), Len(items) = m + 1,
         items[m + 1] = item("call", here, f),
         \A j \in 1 .. m :
           items[j] = IF j % 2 = 1 THEN item("visit", node_at(here).operands[(j + 1) \div 2], NoNode)
                                   ELSE item("keep", here, NoNode)
  PROVE  /\ \A j \in 1 .. Len(items) :
              Fits(ast, items[j]) /\ Inside(ast, items[j]) /\ Awaits(ast, items[j]) = {}
         /\ Chained(ast, items)
         /\ \A b \in Item : Follows(ast, items[Len(items)], b)
         /\ ~ Needs(ast, items[1])
         /\ KeptInv'
<1> DEFINE node == ast.nodes[here]
           k == Len(kept)
           keep == item("keep", here, NoNode)
           last == item("call", here, f)
           e == [j \in 1 .. m + 2 |-> IF j = m + 2 THEN k ELSE k + (j - 1) \div 2]
<1>1. here \in DOMAIN ast.nodes /\ IsAst(ast) /\ node = node_at(here) /\ node.kind = "FunctionCall"
  BY HeadFacts DEF GInv, node_at
<1>2. node.operands \in Seq(Nat) /\ n = Len(node.operands)
  BY <1>1, NodeFacts DEF AstNode
<1>3. n \in Nat /\ m \in Nat /\ m = 2 * n
  OBVIOUS
<1>4. f \in DOMAIN ast.nodes /\ f \in Nat /\ NoNode \in Nat
  BY <1>1, NodeFacts DEF Functions, NoNode
<1>5. /\ Fits(ast, keep) /\ Inside(ast, keep) /\ Awaits(ast, keep) = {}
      /\ Effect(ast, keep) = 1 /\ ~ Returns(ast, keep)
  BY <1>1, <1>4, KeepItem
<1>6. /\ Fits(ast, last) /\ Inside(ast, last) /\ Awaits(ast, last) = {}
      /\ Effect(ast, last) = - n /\ ~ Returns(ast, last) /\ Yields(ast, last) /\ ~ Needs(ast, last)
  BY <1>1, <1>4, KeepItem DEF node_at
<1>7. \A j \in 1 .. m :
        /\ Fits(ast, items[j]) /\ Inside(ast, items[j]) /\ Awaits(ast, items[j]) = {}
        /\ ~ Returns(ast, items[j])
        /\ j % 2 = 1 => Effect(ast, items[j]) = 0 /\ ~ Needs(ast, items[j]) /\ Yields(ast, items[j])
        /\ j % 2 # 1 => Effect(ast, items[j]) = 1
  <2> TAKE j \in 1 .. m
  <2>1. CASE j % 2 = 1
    <3>1. (j + 1) \div 2 \in 1 .. n
      BY <1>3, <2>1, OddAndEven
    <3>2. PICK i \in 1 .. n : i = (j + 1) \div 2
      BY <3>1
    <3>3. items[j] = item("visit", node.operands[i], NoNode)
      BY <1>1, <2>1, <3>2
    <3>4. node.operands[i] \in DOMAIN ast.nodes /\ ast.nodes[node.operands[i]].kind \in Expression
      <4>1. i \in DOMAIN node.operands
        BY <1>2
      <4> QED BY <1>1, <4>1, NodeFacts
    <3>5. /\ Fits(ast, items[j]) /\ Awaits(ast, items[j]) = {} /\ Effect(ast, items[j]) = 0
          /\ ~ Needs(ast, items[j]) /\ Inside(ast, items[j]) /\ Yields(ast, items[j])
          /\ ~ Returns(ast, items[j])
      BY SMTT(30), <1>1, <3>3, <3>4, VisitItem, Kinds
    <3> QED BY <2>1, <3>5
  <2>2. CASE j % 2 # 1
    <3>1. items[j] = keep
      BY <2>2
    <3> QED BY <1>5, <2>2, <3>1
  <2> QED BY <2>1, <2>2
<1> HIDE DEF keep
<1>8. items[m + 1] = last /\ Len(items) = m + 1
  OBVIOUS
<1> HIDE DEF last
<1>9. \A j \in 1 .. Len(items) : j \in 1 .. m \/ j = m + 1
  BY <1>3, <1>8
<1>10. \A j \in 1 .. Len(items) : Fits(ast, items[j]) /\ Inside(ast, items[j]) /\ Awaits(ast, items[j]) = {}
  BY <1>6, <1>7, <1>8, <1>9
<1>11. Chained(ast, items)
  <2> SUFFICES ASSUME NEW j \in 1 .. Len(items) - 1
      PROVE  Follows(ast, items[j], items[j + 1])
    BY DEF Chained
  <2>1. j \in 1 .. m
    BY <1>3, <1>8
  <2>2. ~ Returns(ast, items[j]) /\ (j % 2 = 1 => Yields(ast, items[j]))
    BY <1>7, <2>1
  <2>3. CASE j % 2 = 1
    BY <2>2, <2>3 DEF Follows
  <2>4. CASE j % 2 # 1 /\ j = m
    BY <1>6, <1>8, <2>2, <2>4 DEF Follows
  <2>5. CASE j % 2 # 1 /\ j # m
    <3>0. j + 1 \in 1 .. m
      BY <1>3, <2>1, <2>5, CallPositions
    <3>1. (j + 1) % 2 = 1
      <4>1. j \in Nat
        BY <2>1
      <4> QED BY <2>5, <4>1, NextIsOdd
    <3>2. ~ Needs(ast, items[j + 1])
      BY <1>7, <3>0, <3>1
    <3> QED BY <2>2, <3>2 DEF Follows
  <2> QED BY <2>3, <2>4, <2>5
<1>12. ~ Needs(ast, items[1])
  <2>1. CASE n = 0
    <3>1. m + 1 = 1
      BY <1>3, <2>1
    <3> QED BY <1>6, <1>8, <3>1
  <2>2. CASE n # 0
    <3>1. 1 \in 1 .. m /\ 1 % 2 = 1
      BY <1>3, <2>2
    <3> QED BY <1>7, <3>1
  <2> QED BY <2>1, <2>2
<1>13. \A b \in Item : Follows(ast, items[Len(items)], b)
  BY <1>6, <1>8 DEF Follows
<1>14. k \in Nat /\ kept \in Seq(Value)
  BY KeptFacts
<1> HIDE DEF k
<1>15. Depths(ast, e, items, k)
  <2>1. \A j \in 1 .. m + 1 : (j - 1) \div 2 \in Nat
    BY <1>3
  <2>2. \A j \in 1 .. m + 2 : j = m + 2 \/ j \in 1 .. m + 1
    BY <1>3, CallPositions
  <2>3. e \in [1 .. m + 2 -> Nat]
    <3>1. \A j \in 1 .. m + 2 : (IF j = m + 2 THEN k ELSE k + (j - 1) \div 2) \in Nat
      BY <1>14, <2>1, <2>2
    <3> QED BY <3>1
  <2>4. m + 2 \in 1 .. m + 2 /\ \A j \in 1 .. m + 1 : j \in 1 .. m + 2 /\ j # m + 2
    BY <1>3
  <2>5. e[m + 2] = k /\ \A j \in 1 .. m + 1 : e[j] = k + (j - 1) \div 2
    BY <2>4
  <2> HIDE DEF e
  <2>6. (1 - 1) \div 2 = 0 /\ ((m + 1) - 1) \div 2 = n /\ 1 \in 1 .. m + 1 /\ m + 1 \in 1 .. m + 1
    BY <1>3, CallPositions
  <2>7. e[1] = k /\ e[m + 1] = k + n
    BY SMTT(30), <1>14, <2>5, <2>6
  <2>8. \A j \in 1 .. m : e[j + 1] = e[j] + Effect(ast, items[j])
    <3> TAKE j \in 1 .. m
    <3>1. j \in 1 .. m + 1 /\ j + 1 \in 1 .. m + 1 /\ (j + 1) - 1 = j
      BY <1>3
    <3>2. e[j] = k + (j - 1) \div 2 /\ e[j + 1] = k + j \div 2
      BY <2>5, <3>1
    <3>3. CASE j % 2 = 1
      <4>1. j \div 2 = (j - 1) \div 2 /\ (j - 1) \div 2 \in Nat
        BY <1>3, <3>3, OddAndEven
      <4>2. Effect(ast, items[j]) = 0
        BY <1>7, <3>3
      <4> QED BY <1>14, <3>2, <4>1, <4>2
    <3>4. CASE j % 2 # 1
      <4>1. j \div 2 = (j - 1) \div 2 + 1 /\ (j - 1) \div 2 \in Nat
        BY SMTT(30), <1>3, <3>4, OddAndEven
      <4>2. Effect(ast, items[j]) = 1
        BY <1>7, <3>4
      <4> QED BY <1>14, <3>2, <4>1, <4>2
    <3> QED BY <3>3, <3>4
  <2>9. e[(m + 1) + 1] = e[m + 1] + Effect(ast, items[m + 1])
    BY <1>3, <1>6, <1>8, <1>14, <2>5, <2>7
  <2>10. Len(items) + 1 = m + 2
    BY <1>3, <1>8
  <2>11. \A j \in 1 .. Len(items) : e[j + 1] = e[j] + Effect(ast, items[j])
    BY <1>9, <2>8, <2>9
  <2> QED BY <2>3, <2>7, <2>10, <2>11 DEF Depths
<1>16. e[Len(items) + 1] = Len(kept) + Effect(ast, todo[1])
  <2>1. Len(items) + 1 = m + 2 /\ m + 2 \in 1 .. m + 2
    BY <1>3, <1>8
  <2>2. e[m + 2] = k
    BY <2>1
  <2> QED BY <1>14, <2>1, <2>2 DEF k
<1> HIDE DEF e
<1>17. KeptInv'
  BY <1>14, <1>15, <1>16, KeptStep, SameTree DEF k
<1> QED BY <1>10, <1>11, <1>12, <1>13, <1>17

LEMMA visit_function_callStep == ASSUME GInv, visit_function_call PROVE GInv'
<1> DEFINE f == functions_[node_at(here).name]
           args == visit(node_at(here).operands)
<1>1. Next_is("visit") /\ node_at(here).kind = "FunctionCall" /\ Tree
  BY DEF visit_function_call, Visits, Next_is
<1>2. /\ Generating /\ todo # << >> /\ todo[1].do = "visit" /\ todo[1].node = here
      /\ current_function_ # NoNode /\ Inside(ast, todo[1])
      /\ ~ Ends(todo[1]) /\ Effect(ast, todo[1]) = 0 /\ here \in DOMAIN ast.nodes
  BY <1>1, VisitingFacts, KindsVisited
<1>3. f \in {NoNode} \cup Functions(ast, node_at(here).name)
  <2>1. node_at(here).name \in Symbol
    BY <1>1, <1>2, KindFacts, NamedKinds DEF GInv, node_at, Symbol
  <2> QED BY <1>2, <2>1 DEF GInv, NamesInv
<1>4. CASE Throw("unknown function")
  BY <1>1, <1>2, <1>4, ThrowStep DEF Outcome, Failure
<1>5. CASE Throw("argument count")
  BY <1>1, <1>2, <1>5, ThrowStep DEF Outcome, Failure
<1>6. CASE /\ f # NoNode /\ Len(args) = Len(node_at(f).params)
           /\ Goes_on([i \in 1 .. 2 * Len(args) |->
                         IF i % 2 = 1 THEN args[(i + 1) \div 2] ELSE item("keep", here, NoNode)]
                        \o << item("call", here, f) >>)
           /\ uses' = [uses EXCEPT ![here] = f]
           /\ KeepTables /\ KeepBuilder
           /\ UNCHANGED << current_value_, kept, stores, outcome >>
  <2>1. f \in Functions(ast, node_at(here).name) /\ f \in DOMAIN ast.nodes
    BY <1>3, <1>6 DEF Functions
  <2>2. here \in Nat /\ f \in Nat /\ NoNode \in Nat
    BY <1>2, <2>1, NodeFacts DEF GInv, NoNode
  <2> DEFINE n == Len(node_at(here).operands)
             m == 2 * n
  <2>3. /\ args \in Seq(Item) /\ Len(args) = n /\ n \in Nat
        /\ \A j \in 1 .. n : args[j] = item("visit", node_at(here).operands[j], NoNode)
    <3>1. node_at(here).operands \in Seq(DOMAIN ast.nodes)
      BY <1>2, NodeFacts, SeqOf DEF GInv, AstNode, node_at
    <3> QED BY <3>1, VisitList DEF GInv
  <2>4. Len(ast.nodes[f].params) = Len(node_at(here).operands)
    BY <1>6, <2>3 DEF node_at
  <2> HIDE DEF f, args, n
  <2>5. item("keep", here, NoNode) \in Item /\ item("call", here, f) \in Item
    BY <2>2 DEF item, Item
  <2> DEFINE keep == item("keep", here, NoNode)
             last == item("call", here, f)
             items == Kept_each(args, n, keep) \o << last >>
  <2>6. /\ items \in Seq(Item) /\ Len(items) = m + 1 /\ items[m + 1] = item("call", here, f)
        /\ \A j \in 1 .. m : items[j] = IF j % 2 = 1 THEN args[(j + 1) \div 2] ELSE item("keep", here, NoNode)
    <3>1. keep \in Item /\ last \in Item /\ items = Kept_each(args, n, keep) \o << last >>
      BY <2>5
    <3> HIDE DEF keep, last, items
    <3>2. /\ items \in Seq(Item) /\ Len(items) = 2 * n + 1 /\ items[2 * n + 1] = last
          /\ \A j \in 1 .. 2 * n : items[j] = IF j % 2 = 1 THEN args[(j + 1) \div 2] ELSE keep
      <4>1. n \in Nat /\ args \in Seq(Item) /\ Len(args) = n
        BY <2>3
      <4>2. KeepsEach(items, Item, args, n, keep, last)
        BY <3>1, <4>1, CallSequence
      <4> QED BY <4>2 DEF KeepsEach
    <3> QED BY <3>2 DEF keep, last
  <2>7. Goes_on(items)
    BY <1>6, <2>3 DEF Kept_each
  <2> HIDE DEF items
  <2>8. \A j \in 1 .. m :
          items[j] = IF j % 2 = 1 THEN item("visit", node_at(here).operands[(j + 1) \div 2], NoNode)
                                  ELSE item("keep", here, NoNode)
    <3> TAKE j \in 1 .. m
    <3>1. j % 2 = 1 => (j + 1) \div 2 \in 1 .. n
      BY <2>3, OddAndEven
    <3> QED BY <2>3, <2>6, <3>1
  <2>9. m \in Nat /\ m = 2 * n /\ items # << >>
    BY <2>3, <2>6
  <2> HIDE DEF m
  <2>10. /\ \A j \in 1 .. Len(items) :
              Fits(ast, items[j]) /\ Inside(ast, items[j]) /\ Awaits(ast, items[j]) = {}
         /\ Chained(ast, items)
         /\ \A b \in Item : Follows(ast, items[Len(items)], b)
         /\ ~ Needs(ast, items[1])
         /\ KeptInv'
    <3>1. kept' = kept /\ n = Len(node_at(here).operands)
      BY <1>6 DEF n
    <3>2. items \in Seq(Item) /\ Len(items) = m + 1 /\ items[m + 1] = item("call", here, f) /\ n \in Nat
      BY <2>3, <2>6
    <3> QED BY <1>1, <1>2, <2>1, <2>4, <2>7, <2>8, <2>9, <3>1, <3>2, CallItems, ZenonT(60)
  <2>11. uses' \in [DOMAIN ast.nodes -> {NoNode} \cup DOMAIN ast.nodes]
    BY <1>2, <1>6, <2>1, NewUse
  <2> QED BY <1>1, <1>2, <1>6, <2>6, <2>7, <2>9, <2>10, <2>11, LeaveItems
<1> QED BY <1>4, <1>5, <1>6 DEF visit_function_call

-------------------------------------------------------------------------------
(* Lists of statements, and the blocks they are generated in. *)

\* The items of a list of statements, and of what ends it.
Body(items, last) ==
    /\ items \in Seq(Item) /\ items # << >> /\ items[Len(items)] = last
    /\ \A j \in 1 .. Len(items) : Fits(ast, items[j]) /\ Effect(ast, items[j]) = 0
    /\ \A j \in 1 .. Len(items) - 1 : Inside(ast, items[j]) /\ Awaits(ast, items[j]) = {}
    /\ Chained(ast, items)
    /\ ~ Needs(ast, items[1])

LEMMA BodyItems ==
  ASSUME IsAst(ast), NEW list, list \in Seq(DOMAIN ast.nodes),
         \A j \in DOMAIN list : ast.nodes[list[j]].kind \in Statement,
         ~ LeavesEarly(ast) => ~ ReturnsEarly(ast, list),
         NEW last \in Item, Fits(ast, last), Ends(last), Effect(ast, last) = 0,
         NEW items, items = visit(list) \o << last >>
  PROVE  Body(items, last)
<1> DEFINE n == Len(list)
           s == visit(list)
<1>1. ~ Needs(ast, last)
  BY DEF Ends, Needs
<1>2. /\ s \in Seq(Item) /\ Len(s) = n
      /\ \A j \in 1 .. n : s[j] = item("visit", list[j], NoNode)
  BY VisitList
<1>3. /\ n \in Nat
      /\ \A j \in 1 .. n : list[j] \in DOMAIN ast.nodes /\ ast.nodes[list[j]].kind \in Statement
  OBVIOUS
<1> HIDE DEF s, n
<1>4. /\ items \in Seq(Item) /\ items # << >> /\ Len(items) = n + 1 /\ items[n + 1] = last
      /\ \A j \in 1 .. n : items[j] = item("visit", list[j], NoNode)
  BY <1>2, ThenOne DEF s
<1>5. \A j \in 1 .. n : /\ Fits(ast, items[j]) /\ Effect(ast, items[j]) = 0 /\ Awaits(ast, items[j]) = {}
                        /\ Inside(ast, items[j]) /\ ~ Needs(ast, items[j])
                        /\ \A a : Follows(ast, a, items[j]) <=> (Returns(ast, a) => LeavesEarly(ast))
  <2> TAKE j \in 1 .. n
  <2>1. list[j] \in DOMAIN ast.nodes /\ ast.nodes[list[j]].kind \in Statement
    BY <1>3
  <2> QED BY <1>4, <2>1, VisitItem
<1>6. \A j \in 1 .. Len(items) : j \in 1 .. n \/ j = n + 1
  BY <1>3, <1>4
<1>7. \A j \in 1 .. Len(items) - 1 : j \in 1 .. n
  BY <1>3, <1>4
<1>8. Chained(ast, items)
  <2> SUFFICES ASSUME NEW j \in 1 .. Len(items) - 1
      PROVE  Follows(ast, items[j], items[j + 1])
    BY DEF Chained
  <2>1. j \in 1 .. n
    BY <1>7
  <2>2. CASE j = n
    BY <1>1, <1>4, <2>2 DEF Follows
  <2>3. CASE j # n
    <3>1. j + 1 \in 1 .. n /\ j \in 1 .. n - 1
      BY <1>3, <2>1, <2>3
    <3>2. Returns(ast, items[j]) => LeavesEarly(ast)
      <4>1. Returns(ast, items[j]) => ast.nodes[list[j]].kind = "FunctionReturn"
        <5>0. \A x : item("visit", x, NoNode).do = "visit" /\ item("visit", x, NoNode).node = x
          BY DEF item
        <5>1. items[j].do = "visit" /\ items[j].node = list[j]
          BY <1>4, <2>1, <5>0
        <5> QED BY <5>1 DEF Returns
      <4> QED BY <3>1, <4>1 DEF ReturnsEarly, n
    <3> QED BY <1>5, <3>1, <3>2
  <2> QED BY <2>2, <2>3
<1>9. ~ Needs(ast, items[1])
  <2>1. CASE n = 0
    <3>1. n + 1 = 1
      BY <2>1
    <3> QED BY <1>1, <1>4, <3>1
  <2>2. CASE n # 0
    <3>1. 1 \in 1 .. n
      BY <1>3, <2>2
    <3> QED BY <1>5, <3>1
  <2> QED BY <2>1, <2>2
<1>10. items[Len(items)] = last
  BY <1>4
<1>11. /\ \A j \in 1 .. Len(items) : Fits(ast, items[j]) /\ Effect(ast, items[j]) = 0
       /\ \A j \in 1 .. Len(items) - 1 : Inside(ast, items[j]) /\ Awaits(ast, items[j]) = {}
  BY <1>4, <1>5, <1>6, <1>7
<1> QED BY <1>4, <1>8, <1>9, <1>10, <1>11 DEF Body

LEMMA Lists ==
  ASSUME GInv, NEW n \in DOMAIN ast.nodes
  PROVE  /\ ast.nodes[n].body \in Seq(DOMAIN ast.nodes)
         /\ \A j \in DOMAIN ast.nodes[n].body : ast.nodes[ast.nodes[n].body[j]].kind \in Statement
         /\ ast.nodes[n].orelse \in Seq(DOMAIN ast.nodes)
         /\ \A j \in DOMAIN ast.nodes[n].orelse : ast.nodes[ast.nodes[n].orelse[j]].kind \in Statement
         /\ (~ LeavesEarly(ast) /\ ast.nodes[n].kind \in {"FunctionDeclaration", "If"}) =>
              ~ ReturnsEarly(ast, ast.nodes[n].body)
         /\ (~ LeavesEarly(ast) /\ ast.nodes[n].kind = "If") => ~ ReturnsEarly(ast, ast.nodes[n].orelse)
<1>1. ast.nodes[n].body \in Seq(Nat) /\ ast.nodes[n].orelse \in Seq(Nat)
  BY NodeFacts DEF GInv, AstNode
<1>2. ast.nodes[n].body \in Seq(DOMAIN ast.nodes) /\ ast.nodes[n].orelse \in Seq(DOMAIN ast.nodes)
  BY <1>1, NodeFacts, SeqOf DEF GInv
<1> QED BY <1>2, NodeFacts DEF GInv, LeavesEarly

\* What of a function's items goes on in other blocks.
LEMMA EndsFollow ==
  ASSUME NEW tree, NEW a, NEW b, NEW c, ~ Yields(tree, a), Ends(b), Follows(tree, a, c)
  PROVE  Follows(tree, b, c)
BY DEF Follows, Ends, Yields, Returns

LEMMA MoreBlocks ==
  ASSUME NEW s \in Seq(Block), NEW t \in Seq(Block)
  PROVE  /\ s \o t \in Seq(Block)
         /\ Len(s \o t) = Len(s) + Len(t)
         /\ \A j \in 1 .. Len(s) : (s \o t)[j] = s[j]
         /\ \A j \in 1 .. Len(t) : (s \o t)[Len(s) + j] = t[j]
OBVIOUS

LEMMA NewBlocks ==
  ASSUME NEW entry \in Nat
  PROVE  new_block(entry) \in Block /\ ~ new_block(entry).ended /\ ~ new_block(entry).broken
BY DEF new_block, Block

LEMMA branchStep == ASSUME GInv, branch PROVE GInv'
<1> DEFINE n == Len(blocks)
           other == IF has_else(node_at(here)) THEN n + 3 ELSE n + 2
           new == new_block(blocks[insert_block].entry)
           extra == IF has_else(node_at(here)) THEN << new, new, new >> ELSE << new, new >>
           ended == terminated(blocks[insert_block], {n + 1, other})
           last == item("end_then", here, n + 2)
           items == visit(node_at(here).body) \o << last >>
           awaited == IF has_else(node_at(here)) THEN {n + 2, n + 3} ELSE {n + 2}
<1>1. Next_is("branch") /\ Tree
  BY DEF branch
<1>2. /\ Generating /\ todo # << >> /\ todo[1].do = "branch" /\ todo[1].node = here
      /\ current_function_ # NoNode /\ Inside(ast, todo[1]) /\ ~ Ends(todo[1])
      /\ here \in DOMAIN ast.nodes /\ Fits(ast, todo[1])
      /\ Needs(ast, todo[1]) => current_value_ # NoValue
  BY <1>1, WorkFacts
<1>3. /\ current_value_ # NoValue /\ ~ Yields(ast, todo[1]) /\ Effect(ast, todo[1]) = 0
      /\ node_at(here).kind = "If" /\ ast' = ast /\ Awaits(ast, todo[1]) = {}
  BY <1>1, <1>2, SameTree DEF Needs, Yields, Effect, Fits, node_at, Awaits
<1>4. CASE Throw("invalid condition")
  BY <1>1, <1>2, <1>4, ThrowStep DEF Outcome, Failure
<1>5. CASE /\ blocks' = [blocks EXCEPT ![insert_block] = ended] \o extra
           /\ insert_block' = n + 1
           /\ Goes_on(items)
           /\ KeepTables
           /\ UNCHANGED << current_value_, kept, refused, uses, stores, outcome >>
  <2>1. /\ insert_block \in DOMAIN blocks /\ blocks[insert_block] \in Block
        /\ blocks \in Seq(Block) /\ n \in Nat /\ DOMAIN blocks = 1 .. n
        /\ ~ LeavesEarly(ast) => ~ blocks[insert_block].broken /\ ~ blocks[insert_block].ended
    BY <1>2, OpenBlock DEF GInv, BlocksInv
  <2>2. here \in Nat
    BY <1>2, NodeFacts DEF GInv
  <2>3. /\ last \in Item /\ last.do = "end_then" /\ last.node = here /\ last.entry = n + 2
    BY <2>1, <2>2 DEF Item, item
  <2>4. ended \in Block /\ ended.ended /\ (~ LeavesEarly(ast) => ~ ended.broken)
    <3>1. {n + 1, other} \in SUBSET Nat /\ 0 \in Nat
      BY <2>1
    <3> HIDE DEF other
    <3> QED BY <2>1, <3>1, Instructions
  <2>5. new \in Block /\ ~ new.ended /\ ~ new.broken
    <3>1. blocks[insert_block].entry \in Nat
      BY <2>1 DEF Block
    <3> QED BY <3>1, NewBlocks
  <2> HIDE DEF last, ended, new
  <2>6. /\ Fits(ast, last) /\ Ends(last) /\ Effect(ast, last) = 0 /\ Inside(ast, last)
        /\ Awaits(ast, last) = awaited
    <3>1. awaited = IF has_else(node_at(here)) THEN {n + 2, (n + 2) + 1} ELSE {n + 2}
      BY <2>1
    <3> QED BY <1>2, <1>3, <2>3, <3>1 DEF Fits, Ends, Effect, Inside, Awaits, node_at
  <2>7. Body(items, last)
    BY <1>2, <1>3, <2>3, <2>6, Lists, BodyItems DEF GInv, node_at
  <2> HIDE DEF items
  <2>8. \A j \in 1 .. Len(items) : Inside(ast, items[j])
    BY <2>6, <2>7 DEF Body
  <2>9. /\ current_function_' = current_function_ /\ current_value_' \in Value \cup {NoValue}
        /\ kept' = kept
    BY <1>5 DEF KeepTables, GInv, ValueInv
  <2>10. ItemsInv' /\ RegionInv' /\ ValueInv' /\ KeptInv'
    <3>1. \A b \in Item : Follows(ast, todo[1], b) => Follows(ast, items[Len(items)], b)
      BY <1>3, <2>6, <2>7, EndsFollow DEF Body
    <3> QED BY <1>2, <1>3, <1>5, <2>7, <2>8, <2>9, <3>1, TodoStep, KeptStays DEF Body
  <2>11. /\ extra \in Seq(Block) /\ Len(extra) = (IF has_else(node_at(here)) THEN 3 ELSE 2)
         /\ \A j \in 1 .. Len(extra) : extra[j] = new
    BY <2>5
  <2> HIDE DEF extra
  <2>12. /\ [blocks EXCEPT ![insert_block] = ended] \in Seq(Block)
         /\ Len([blocks EXCEPT ![insert_block] = ended]) = n
         /\ [blocks EXCEPT ![insert_block] = ended][insert_block] = ended
         /\ \A b \in 1 .. n : b # insert_block => [blocks EXCEPT ![insert_block] = ended][b] = blocks[b]
    BY <2>1, <2>4
  <2>13. /\ blocks' \in Seq(Block) /\ Len(blocks') = n + Len(extra) /\ blocks'[insert_block] = ended
         /\ \A b \in 1 .. n : b # insert_block => blocks'[b] = blocks[b]
         /\ \A j \in 1 .. Len(extra) : blocks'[n + j] = new
    <3> DEFINE s == [blocks EXCEPT ![insert_block] = ended]
    <3>1. blocks' = s \o extra /\ s \in Seq(Block) /\ Len(s) = n
      BY <1>5, <2>12
    <3> HIDE DEF s, n
    <3>2. /\ blocks' \in Seq(Block) /\ Len(blocks') = n + Len(extra)
          /\ \A b \in 1 .. n : blocks'[b] = s[b]
          /\ \A j \in 1 .. Len(extra) : blocks'[n + j] = extra[j]
      BY <2>11, <3>1, MoreBlocks
    <3> QED BY <2>1, <2>11, <2>12, <3>2 DEF s, n
  <2>14. /\ DOMAIN blocks' = 1 .. Len(blocks')
         /\ n + 1 \in DOMAIN blocks' /\ awaited \subseteq DOMAIN blocks'
         /\ blocks'[n + 1] = new /\ \A b \in awaited : blocks'[b] = new /\ b # n + 1 /\ b \notin 1 .. n
         /\ \A b \in DOMAIN blocks' : b \in 1 .. n \/ b = n + 1 \/ b \in awaited
    <3>1. DOMAIN blocks' = 1 .. Len(blocks')
      BY <2>13
    <3>2. CASE has_else(node_at(here))
      <4>1. Len(blocks') = n + 3 /\ awaited = {n + 2, n + 3} /\ Len(extra) = 3
        BY <2>11, <2>13, <3>2
      <4>2. blocks'[n + 1] = new /\ blocks'[n + 2] = new /\ blocks'[n + 3] = new
        BY <2>13, <4>1
      <4> QED BY <2>1, <3>1, <4>1, <4>2
    <3>3. CASE ~ has_else(node_at(here))
      <4>1. Len(blocks') = n + 2 /\ awaited = {n + 2} /\ Len(extra) = 2
        BY <2>11, <2>13, <3>3
      <4>2. blocks'[n + 1] = new /\ blocks'[n + 2] = new
        BY <2>13, <4>1
      <4> QED BY <2>1, <3>1, <4>1, <4>2
    <3> QED BY <3>2, <3>3
  <2> HIDE DEF awaited
  <2>15. BlocksInv'
    <3>1. /\ \A b \in Rest : b \in DOMAIN blocks /\ b # insert_block /\ ~ blocks[b].ended
          /\ \A b \in DOMAIN blocks :
               \/ blocks[b].ended
               \/ current_function_ # NoNode /\ b = insert_block
               \/ b \in Rest
      BY <1>2, <1>3, RestFacts
    <3>2. awaited \cap Rest = {}
      BY <2>1, <2>14, <3>1
    <3>3. \A b \in Rest \cup awaited : b \in DOMAIN blocks' /\ b # insert_block' /\ ~ blocks'[b].ended
      <4> TAKE b \in Rest \cup awaited
      <4>1. CASE b \in Rest
        <5>1. b \in 1 .. n /\ b # n + 1 /\ blocks'[b] = blocks[b] /\ b \in DOMAIN blocks'
          <6>1. b \in 1 .. n /\ b # insert_block
            BY <2>1, <3>1, <4>1
          <6>2. b # n + 1 /\ b \in 1 .. n + Len(extra)
            BY <2>1, <2>11, <6>1
          <6> QED BY <2>13, <2>14, <6>1, <6>2
        <5> QED BY <1>5, <3>1, <4>1, <5>1
      <4>2. CASE b \in awaited
        BY <1>5, <2>5, <2>14, <4>2
      <4> QED BY <4>1, <4>2
    <3>4. \A b \in DOMAIN blocks' :
            \/ blocks'[b].ended
            \/ current_function_' # NoNode /\ b = insert_block'
            \/ b \in Rest \cup awaited
      <4> TAKE b \in DOMAIN blocks'
      <4>1. CASE b \in 1 .. n
        BY <1>2, <2>1, <2>4, <2>13, <3>1, <4>1
      <4>2. CASE b = n + 1
        BY <1>2, <1>5, <2>9, <4>2
      <4> QED BY <2>14, <4>1, <4>2
    <3>5. ~ LeavesEarly(ast) =>
            /\ \A b \in DOMAIN blocks' : ~ blocks'[b].broken
            /\ (current_function_' # NoNode /\ blocks'[insert_block'].ended) => Ends(todo'[1])
      <4> HAVE ~ LeavesEarly(ast)
      <4>1. \A b \in DOMAIN blocks : ~ blocks[b].broken
        BY DEF GInv, BlocksInv
      <4>2. \A b \in DOMAIN blocks' : ~ blocks'[b].broken
        BY <2>1, <2>4, <2>5, <2>13, <2>14, <4>1
      <4> QED BY <1>5, <2>5, <2>14, <4>2
    <3>6. insert_block' \in 0 .. Len(blocks') /\ insert_block' # 0
      BY <1>5, <2>1, <2>14
    <3>7. IF items = << >> THEN awaited = {} ELSE awaited = Awaits(ast, items[Len(items)])
      BY <2>6, <2>7 DEF awaited, Body
    <3> QED BY <1>2, <1>3, <1>5, <2>7, <2>13, <3>2, <3>3, <3>4, <3>5, <3>6, <3>7, BlocksStep DEF Body
  <2>16. NamesInv' /\ RecordsInv'
    BY <1>2, <1>3, <1>5, SameNames, SameRecords
  <2> QED BY <1>3, <2>10, <2>15, <2>16 DEF GInv
<1> QED BY <1>3, <1>4, <1>5 DEF branch

\* The current block branches to the one after the if, unless it has ended.
LEMMA Branches ==
  ASSUME GInv, todo # << >>, current_function_ # NoNode, NEW target \in Nat, Branch_to(target)
  PROVE  /\ blocks' \in Seq(Block) /\ Len(blocks') = Len(blocks) /\ DOMAIN blocks' = DOMAIN blocks
         /\ blocks'[insert_block].ended
         /\ \A b \in DOMAIN blocks : b # insert_block => blocks'[b] = blocks[b]
         /\ ~ LeavesEarly(ast) => \A b \in DOMAIN blocks : ~ blocks'[b].broken
<1>1. /\ insert_block \in DOMAIN blocks /\ blocks[insert_block] \in Block /\ blocks \in Seq(Block)
      /\ ~ LeavesEarly(ast) => \A b \in DOMAIN blocks : ~ blocks[b].broken
  BY OpenBlock DEF GInv, BlocksInv
<1>2. CASE blocks[insert_block].ended
  <2>1. blocks' = blocks
    BY <1>2 DEF Branch_to
  <2> QED BY <1>1, <1>2, <2>1
<1>3. CASE ~ blocks[insert_block].ended
  <2> DEFINE b == terminated(blocks[insert_block], {target})
  <2>1. b \in Block /\ b.ended /\ (b.broken => blocks[insert_block].broken)
    <3>1. {target} \in SUBSET Nat /\ 0 \in Nat
      OBVIOUS
    <3> QED BY <1>1, <1>3, <3>1, Instructions
  <2>2. blocks' = [blocks EXCEPT ![insert_block] = b]
    BY <1>3 DEF Branch_to
  <2> HIDE DEF b
  <2> QED BY <1>1, <2>1, <2>2
<1> QED BY <1>2, <1>3

\* The builder goes on in one of the blocks the item awaited.
LEMMA GoesOnIn ==
  ASSUME GInv, todo # << >>, ast' = ast, current_function_ # NoNode, current_function_' = current_function_,
         NEW target \in Nat, Branch_to(target), NEW items \in Seq(Item), Goes_on(items), NEW new,
         \A j \in 1 .. Len(items) - 1 : Awaits(ast, items[j]) = {},
         IF items = << >> THEN new = {} ELSE new = Awaits(ast, items[Len(items)]),
         insert_block' \notin new, Awaits(ast, todo[1]) = new \cup {insert_block'}
  PROVE  BlocksInv'
<1>1. /\ blocks' \in Seq(Block) /\ Len(blocks') = Len(blocks) /\ DOMAIN blocks' = DOMAIN blocks
      /\ blocks'[insert_block].ended
      /\ \A b \in DOMAIN blocks : b # insert_block => blocks'[b] = blocks[b]
      /\ ~ LeavesEarly(ast) => \A b \in DOMAIN blocks : ~ blocks'[b].broken
  BY Branches
<1>2. /\ \A b \in Rest : b \in DOMAIN blocks /\ b # insert_block /\ ~ blocks[b].ended
      /\ Rest \cap Awaits(ast, todo[1]) = {}
      /\ \A b \in DOMAIN blocks :
           \/ blocks[b].ended
           \/ b = insert_block
           \/ b \in Rest \cup Awaits(ast, todo[1])
  BY RestFacts
<1>3. \A b \in Awaits(ast, todo[1]) : b \in DOMAIN blocks /\ b # insert_block /\ ~ blocks[b].ended
  BY HeadFacts DEF GInv, BlocksInv
<1>4. insert_block' \in DOMAIN blocks /\ blocks'[insert_block'] = blocks[insert_block']
      /\ ~ blocks[insert_block'].ended
  BY <1>1, <1>3
<1>5. new \cap Rest = {} /\ insert_block' \notin Rest \cup new
  BY <1>2
<1>6. \A b \in Rest \cup new : b \in DOMAIN blocks' /\ b # insert_block' /\ ~ blocks'[b].ended
  BY <1>1, <1>2, <1>3, <1>5
<1>7. \A b \in DOMAIN blocks' :
        \/ blocks'[b].ended
        \/ current_function_' # NoNode /\ b = insert_block'
        \/ b \in Rest \cup new
  BY <1>1, <1>2
<1>8. insert_block' \in 0 .. Len(blocks') /\ insert_block' # 0
  <2>1. DOMAIN blocks = 1 .. Len(blocks) /\ Len(blocks) \in Nat
    BY DEF GInv, BlocksInv
  <2> QED BY <1>1, <1>4, <2>1
<1>9. ~ LeavesEarly(ast) =>
        /\ \A b \in DOMAIN blocks' : ~ blocks'[b].broken
        /\ (current_function_' # NoNode /\ blocks'[insert_block'].ended) => Ends(todo'[1])
  BY <1>1, <1>4
<1> QED BY <1>1, <1>5, <1>6, <1>7, <1>8, <1>9, BlocksStep

LEMMA GoesOnInIt ==
  ASSUME GInv, todo # << >>, ast' = ast, current_function_ # NoNode, current_function_' = current_function_,
         NEW target \in Nat, Branch_to(target), Goes_on(<< >>), Awaits(ast, todo[1]) = {insert_block'}
  PROVE  BlocksInv'
<1>1. PICK items : items = << >>
  OBVIOUS
<1>2. PICK new : new = {}
  OBVIOUS
<1>3. items \in Seq(Item) /\ Goes_on(items) /\ \A j \in 1 .. Len(items) - 1 : Awaits(ast, items[j]) = {}
  BY <1>1
<1>4. IF items = << >> THEN new = {} ELSE new = Awaits(ast, items[Len(items)])
  BY <1>1, <1>2
<1>5. insert_block' \notin new /\ Awaits(ast, todo[1]) = new \cup {insert_block'}
  BY <1>2
<1> QED BY <1>3, <1>4, <1>5, GoesOnIn

LEMMA end_elseStep == ASSUME GInv, end_else PROVE GInv'
<1>1. Next_is("end_else") /\ Tree
  BY DEF end_else
<1>2. /\ Generating /\ todo # << >> /\ todo[1].do = "end_else" /\ todo[1].entry = entry_here
      /\ current_function_ # NoNode /\ Inside(ast, todo[1]) /\ todo[1] \in Item
  BY <1>1, WorkFacts, HeadFacts
<1>3. /\ ~ Yields(ast, todo[1]) /\ Effect(ast, todo[1]) = 0 /\ ast' = ast
      /\ Awaits(ast, todo[1]) = {entry_here} /\ entry_here \in Nat
  BY <1>1, <1>2, SameTree DEF Yields, Effect, Awaits, Item
<1>4. /\ Branch_to(entry_here) /\ insert_block' = entry_here /\ Goes_on(<< >>) /\ KeepTables
      /\ current_value_' = current_value_ /\ kept' = kept /\ refused' = refused /\ uses' = uses
      /\ stores' = stores /\ outcome' = outcome
  BY DEF end_else
<1>5. current_function_' = current_function_ /\ current_value_' \in Value \cup {NoValue}
  BY <1>4 DEF KeepTables, GInv, ValueInv
<1>6. ItemsInv' /\ RegionInv' /\ ValueInv'
  BY <1>2, <1>3, <1>4, <1>5, DoneStep
<1>7. KeptInv'
  BY <1>2, <1>3, <1>4, KeptFacts, KeptEffect
<1>8. NamesInv' /\ RecordsInv'
  BY <1>2, <1>3, <1>4, SameNames, SameRecords
<1>9. BlocksInv'
  BY <1>2, <1>3, <1>4, <1>5, GoesOnInIt
<1> QED BY <1>3, <1>6, <1>7, <1>8, <1>9 DEF GInv

LEMMA end_thenStep == ASSUME GInv, end_then PROVE GInv'
<1>1. Next_is("end_then") /\ Tree
  BY DEF end_then
<1>2. /\ Generating /\ todo # << >> /\ todo[1].do = "end_then" /\ todo[1].entry = entry_here
      /\ todo[1].node = here /\ here \in DOMAIN ast.nodes /\ Fits(ast, todo[1])
      /\ current_function_ # NoNode /\ Inside(ast, todo[1]) /\ todo[1] \in Item
  BY <1>1, WorkFacts, HeadFacts
<1>3. /\ ~ Yields(ast, todo[1]) /\ Effect(ast, todo[1]) = 0 /\ ast' = ast
      /\ entry_here \in Nat /\ node_at(here).kind = "If" /\ here \in Nat
  BY <1>1, <1>2, SameTree DEF Yields, Effect, Item, Fits, node_at
<1>4. /\ Branch_to(entry_here) /\ KeepTables
      /\ current_value_' = current_value_ /\ kept' = kept /\ refused' = refused /\ uses' = uses
      /\ stores' = stores /\ outcome' = outcome
  BY DEF end_then
<1>5. current_function_' = current_function_ /\ current_value_' \in Value \cup {NoValue}
  BY <1>4 DEF KeepTables, GInv, ValueInv
<1>6. NamesInv' /\ RecordsInv'
  BY <1>2, <1>3, <1>4, SameNames, SameRecords
<1>7. CASE ~ has_else(node_at(here))
  <2>1. insert_block' = entry_here /\ Goes_on(<< >>)
    BY <1>7 DEF end_then
  <2>2. Awaits(ast, todo[1]) = {entry_here}
    BY <1>2, <1>7 DEF Awaits, node_at
  <2>3. ItemsInv' /\ RegionInv' /\ ValueInv'
    BY <1>2, <1>3, <1>5, <2>1, DoneStep
  <2>4. KeptInv'
    BY <1>2, <1>3, <1>4, <2>1, KeptFacts, KeptEffect
  <2>5. BlocksInv'
    BY <1>2, <1>3, <1>4, <1>5, <2>1, <2>2, GoesOnInIt
  <2> QED BY <1>3, <1>6, <2>3, <2>4, <2>5 DEF GInv
<1>8. CASE has_else(node_at(here))
  <2> DEFINE last == item("end_else", here, entry_here)
             items == visit(node_at(here).orelse) \o << last >>
  <2>1. insert_block' = entry_here + 1 /\ Goes_on(items)
    BY <1>8 DEF end_then
  <2>2. Awaits(ast, todo[1]) = {entry_here, entry_here + 1}
    BY <1>2, <1>8 DEF Awaits, node_at
  <2>3. last \in Item /\ last.do = "end_else" /\ last.node = here /\ last.entry = entry_here
    BY <1>3 DEF Item, item
  <2> HIDE DEF last
  <2>4. /\ Fits(ast, last) /\ Ends(last) /\ Effect(ast, last) = 0 /\ Inside(ast, last)
        /\ Awaits(ast, last) = {entry_here}
    BY <1>2, <1>3, <2>3 DEF Fits, Ends, Effect, Inside, Awaits, node_at
  <2>5. Body(items, last)
    BY <1>2, <1>3, <2>3, <2>4, Lists, BodyItems DEF GInv, node_at
  <2> HIDE DEF items
  <2>6. \A j \in 1 .. Len(items) : Inside(ast, items[j])
    BY <2>4, <2>5 DEF Body
  <2>7. \A b \in Item : Follows(ast, todo[1], b) => Follows(ast, items[Len(items)], b)
    BY <1>3, <2>4, <2>5, EndsFollow DEF Body
  <2>8. ItemsInv' /\ RegionInv' /\ ValueInv' /\ KeptInv'
    BY <1>2, <1>3, <1>4, <1>5, <2>1, <2>5, <2>6, <2>7, TodoStep, KeptStays DEF Body
  <2>9. BlocksInv'
    <3>1. IF items = << >> THEN {entry_here} = {} ELSE {entry_here} = Awaits(ast, items[Len(items)])
      BY <2>4, <2>5 DEF Body
    <3>2. entry_here + 1 # entry_here /\ {entry_here, entry_here + 1} = {entry_here} \cup {entry_here + 1}
      BY <1>3
    <3> QED BY <1>2, <1>3, <1>4, <1>5, <2>1, <2>2, <2>5, <3>1, <3>2, GoesOnIn DEF Body
  <2> QED BY <1>3, <1>6, <2>8, <2>9 DEF GInv
<1> QED BY <1>7, <1>8

-------------------------------------------------------------------------------
(* Instructions: constants and functions. *)

LEMMA AtTop ==
  ASSUME GInv, todo # << >>, todo[1].do = "visit", node_at(here).kind \in TopLevel
  PROVE  /\ current_function_ = NoNode
         /\ \A j \in 2 .. Len(todo) : Instruction(ast, todo[j])
         /\ InTop(ast, here)
<1>1. Len(todo) \in Nat \ {0} /\ here = todo[1].node /\ Fits(ast, todo[1])
  BY HeadFacts
<1>2. PICK k \in 0 .. Len(todo) :
        /\ \A j \in k + 1 .. Len(todo) : Instruction(ast, todo[j])
        /\ IF current_function_ = NoNode THEN Defines(k) ELSE Generates(k)
  BY DEF GInv, RegionInv
<1>3. ~ Inside(ast, todo[1]) /\ node_at(here).kind \notin Literal
  BY <1>1, Kinds DEF Inside, node_at
<1>4. current_function_ = NoNode
  <2> SUFFICES ASSUME Generates(k) PROVE FALSE
    BY <1>2
  <2>1. k # 1
    BY DEF Generates, item
  <2>2. 1 \in 1 .. k - 1
    BY <1>1, <2>1 DEF Generates
  <2> QED BY <1>3, <2>2 DEF Generates
<1>5. k = 0
  <2>1. Defines(k) /\ k \in {0, 1, 2}
    BY <1>2, <1>4 DEF Defines
  <2>2. k # 1
    BY <2>1 DEF Defines
  <2>3. k # 2
    BY <1>1, <1>3, <2>1 DEF Defines, node_at
  <2> QED BY <2>1, <2>2, <2>3
<1>6. \A j \in 2 .. Len(todo) : Instruction(ast, todo[j])
  BY <1>1, <1>2, <1>5
<1>7. InTop(ast, here)
  BY <1>1 DEF Fits, node_at
<1> QED BY <1>4, <1>6, <1>7

\* Between two instructions no block is open.
LEMMA NoRest ==
  ASSUME \A j \in 2 .. Len(todo) : Instruction(ast, todo[j])
  PROVE  Rest = {}
<1>1. \A j \in 2 .. Len(todo) : Awaits(ast, todo[j]) = {}
  BY DEF Instruction, Awaits
<1> QED BY <1>1 DEF Rest

LEMMA AfterItems ==
  ASSUME GInv, todo # << >>, \A j \in 2 .. Len(todo) : Instruction(ast, todo[j]),
         NEW items \in Seq(Item), Goes_on(items)
  PROVE  /\ Len(items) \in 0 .. Len(todo')
         /\ \A j \in 1 .. Len(items) : todo'[j] = items[j]
         /\ \A j \in Len(items) + 1 .. Len(todo') : Instruction(ast, todo'[j])
<1> DEFINE n == Len(items)
<1>1. /\ todo' \in Seq(Item)
      /\ Len(todo') = n + Len(todo) - 1
      /\ \A j \in 1 .. n : todo'[j] = items[j]
      /\ \A j \in 2 .. Len(todo) : todo'[n + j - 1] = todo[j]
  BY NewTodo
<1>2. n \in Nat /\ Len(todo) \in Nat \ {0}
  BY HeadFacts
<1>3. \A j \in n + 1 .. Len(todo') : Instruction(ast, todo'[j])
  <2> TAKE j \in n + 1 .. Len(todo')
  <2>1. j - n + 1 \in 2 .. Len(todo) /\ n + (j - n + 1) - 1 = j
    BY <1>1, <1>2
  <2>2. todo'[n + (j - n + 1) - 1] = todo[j - n + 1]
    BY <1>1, <2>1
  <2> QED BY <2>1, <2>2
<1>4. n \in 0 .. Len(todo')
  BY <1>1, <1>2
<1> QED BY <1>1, <1>3, <1>4

LEMMA visit_constant_declarationStep == ASSUME GInv, visit_constant_declaration PROVE GInv'
<1> DEFINE value == node_at(here).operands[1]
           first == item("visit", value, NoNode)
           last == item("define_constant", here, NoNode)
           items == visit(node_at(here).operands) \o << last >>
<1>1. Next_is("visit") /\ node_at(here).kind = "ConstantDeclaration" /\ Tree
  BY DEF visit_constant_declaration, Visits, Next_is
<1>2. /\ Generating /\ todo # << >> /\ todo[1].do = "visit" /\ todo[1].node = here
      /\ here \in DOMAIN ast.nodes /\ ast' = ast
  BY <1>1, HeadFacts, SameTree DEF Next_is
<1>3. current_function_ = NoNode /\ \A j \in 2 .. Len(todo) : Instruction(ast, todo[j])
  BY <1>1, <1>2, AtTop DEF TopLevel
<1>4. /\ Goes_on(items)
      /\ KeepTables /\ KeepBuilder /\ current_value_' = current_value_ /\ kept' = kept
      /\ uses' = uses /\ stores' = stores /\ outcome' = outcome
  BY DEF visit_constant_declaration
<1>5. node_at(here).operands \in Seq(Nat) /\ Len(node_at(here).operands) = 1
  BY <1>1, <1>2, NodeFacts, KindFacts DEF AstNode, Operands, GInv, node_at
<1>6. value \in DOMAIN ast.nodes /\ ast.nodes[value].kind \in Literal
  <2>1. 1 \in DOMAIN node_at(here).operands
    BY <1>5
  <2> QED BY <1>1, <1>2, <2>1, NodeFacts, KindFacts DEF GInv, node_at
<1>7. /\ visit(node_at(here).operands) \in Seq(Item) /\ Len(visit(node_at(here).operands)) = 1
      /\ visit(node_at(here).operands)[1] = first
  <2>1. node_at(here).operands \in Seq(DOMAIN ast.nodes) /\ 1 \in 1 .. 1
    BY <1>2, <1>5, NodeFacts, SeqOf DEF GInv, node_at
  <2> QED BY <1>5, <2>1, VisitList DEF GInv
<1> HIDE DEF value
<1>8. /\ first \in Item /\ Fits(ast, first) /\ Awaits(ast, first) = {} /\ Effect(ast, first) = 0
      /\ ~ Needs(ast, first) /\ ~ Returns(ast, first)
      /\ first.do = "visit" /\ first.node = value
  BY <1>6, VisitItem, Kinds DEF GInv, item
<1>9. last \in Item /\ last.do = "define_constant" /\ last.node = here
  <2>1. here \in Nat /\ NoNode \in Nat
    BY <1>2, NodeFacts DEF GInv, NoNode
  <2> QED BY <2>1 DEF Item, item
<1> HIDE DEF first, last
<1>10. /\ items \in Seq(Item) /\ items # << >> /\ Len(items) = 2 /\ items[1] = first /\ items[2] = last
  <2>1. 1 \in 1 .. 1 /\ 1 + 1 = 2
    OBVIOUS
  <2> QED BY <1>7, <1>9, <2>1, ThenOne
<1> HIDE DEF items
<1>11. /\ Fits(ast, last) /\ Awaits(ast, last) = {} /\ Effect(ast, last) = 0
       /\ ~ Needs(ast, last) /\ ~ Returns(ast, last)
  BY <1>1, <1>2, <1>9 DEF Fits, Awaits, Effect, Needs, Returns, node_at
<1>12. \A j \in 1 .. Len(items) : j = 1 \/ j = 2
  BY <1>10
<1>13. \A j \in 1 .. Len(items) : Fits(ast, items[j]) /\ Awaits(ast, items[j]) = {} /\ Effect(ast, items[j]) = 0
  BY <1>8, <1>10, <1>11, <1>12
<1>14. Chained(ast, items)
  <2>1. Follows(ast, items[1], items[1 + 1])
    BY <1>8, <1>10, <1>11 DEF Follows
  <2>2. \A j \in 1 .. Len(items) - 1 : j = 1
    BY <1>10
  <2> QED BY <2>1, <2>2 DEF Chained
<1>15. ~ Yields(ast, todo[1]) /\ Effect(ast, todo[1]) = 0 /\ ~ Ends(todo[1])
  BY <1>1, <1>2, Kinds DEF Yields, Effect, Ends, node_at, TopLevel, Expression, Literal
<1>16. \A b \in Item : Follows(ast, todo[1], b) => Follows(ast, items[Len(items)], b)
  BY <1>10, <1>11, <1>15 DEF Follows
<1>17. ItemsInv'
  BY <1>2, <1>4, <1>10, <1>13, <1>14, <1>16, ItemsStep
<1>18. RegionInv'
  <2>1. /\ 2 \in 0 .. Len(todo')
        /\ \A j \in 1 .. 2 : todo'[j] = items[j]
        /\ \A j \in 2 + 1 .. Len(todo') : Instruction(ast, todo'[j])
    BY <1>2, <1>3, <1>4, <1>10, AfterItems
  <2>2. todo'[1] = first /\ todo'[2] = last
    BY <1>10, <2>1
  <2>3. Defines(2)'
    BY <1>2, <1>6, <1>8, <1>9, <2>2 DEF Defines, node_at
  <2>4. current_function_' = NoNode
    BY <1>3, <1>4 DEF KeepTables
  <2> QED BY <1>2, <2>1, <2>3, <2>4 DEF RegionInv
<1>19. ValueInv'
  BY <1>2, <1>4, <1>8, <1>10, ValueStep DEF GInv, ValueInv
<1>20. KeptInv'
  BY <1>2, <1>4, <1>10, <1>13, <1>15, KeptStays
<1>21. NamesInv' /\ RecordsInv'
  BY <1>2, <1>4, SameNames, SameRecords, SameBuilder
<1>22. BlocksInv'
  BY <1>2, <1>4, <1>10, <1>13, <1>15, QuietBlocks DEF KeepTables, KeepBuilder
<1> QED BY <1>2, <1>17, <1>18, <1>19, <1>20, <1>21, <1>22 DEF GInv

LEMMA visit_function_declarationStep == ASSUME GInv, visit_function_declaration PROVE GInv'
<1> DEFINE params == node_at(here).params
           entry == Len(blocks) + 1
           owners == {params[i] : i \in DOMAIN params}
           last == item("end_function", here, NoNode)
           items == visit(node_at(here).body) \o << last >>
           new == [new_block(entry) EXCEPT !.makes = owners]
<1>1. Next_is("visit") /\ node_at(here).kind = "FunctionDeclaration" /\ Tree
  BY DEF visit_function_declaration, Visits, Next_is
<1>2. /\ Generating /\ todo # << >> /\ todo[1].do = "visit" /\ todo[1].node = here
      /\ here \in DOMAIN ast.nodes /\ ast' = ast
  BY <1>1, HeadFacts, SameTree DEF Next_is
<1>3. /\ current_function_ = NoNode /\ \A j \in 2 .. Len(todo) : Instruction(ast, todo[j])
      /\ InTop(ast, here)
  BY <1>1, <1>2, AtTop DEF TopLevel
<1>4. /\ blocks' = Append(blocks, new) /\ insert_block' = entry
      /\ prev_named_values' = named_values_ /\ current_function_' = here
      /\ named_values_' = entry_values(owners)
      /\ Goes_on(items)
      /\ current_value_' = current_value_ /\ functions_' = functions_ /\ kept' = kept
      /\ refused' = refused /\ uses' = uses /\ stores' = stores /\ outcome' = outcome
  BY DEF visit_function_declaration
<1>5. owners \subseteq Storage(ast)
  BY <1>2, NodeFacts DEF GInv, Storage, node_at
<1>6. here \in Nat /\ here # NoNode /\ NoNode \in Nat
  BY <1>2, NodeFacts DEF GInv, NoNode
<1>7. last \in Item /\ last.do = "end_function" /\ last.node = here
  BY <1>6 DEF Item, item
<1> HIDE DEF last, owners
<1>8. Fits(ast, last) /\ Awaits(ast, last) = {} /\ Effect(ast, last) = 0 /\ Ends(last)
  BY <1>1, <1>2, <1>3, <1>7 DEF Fits, Awaits, Effect, Ends, node_at
<1>9. Body(items, last)
  BY <1>1, <1>2, <1>7, <1>8, Lists, BodyItems DEF GInv, node_at
<1> HIDE DEF items
<1>10. ~ Yields(ast, todo[1]) /\ Effect(ast, todo[1]) = 0 /\ ~ Ends(todo[1]) /\ Awaits(ast, todo[1]) = {}
  BY <1>1, <1>2, Kinds DEF Yields, Effect, Ends, node_at, TopLevel, Expression, Literal, Awaits
<1>11. ItemsInv'
  <2>1. \A b \in Item : Follows(ast, todo[1], b) => Follows(ast, items[Len(items)], b)
    BY <1>8, <1>9, <1>10, EndsFollow DEF Body
  <2> QED BY <1>2, <1>4, <1>9, <2>1, ItemsStep DEF Body
<1>12. RegionInv'
  <2> DEFINE k == Len(items)
  <2>1. items \in Seq(Item) /\ items # << >> /\ k \in Nat /\ k # 0 /\ k \in 1 .. k
    BY <1>9 DEF Body
  <2>2. /\ k \in 0 .. Len(todo')
        /\ \A j \in 1 .. k : todo'[j] = items[j]
        /\ \A j \in k + 1 .. Len(todo') : Instruction(ast, todo'[j])
    BY <1>2, <1>3, <1>4, <2>1, AfterItems
  <2>3. todo'[k] = last /\ last = item("end_function", here, NoNode)
    BY <1>9, <2>1, <2>2 DEF Body, last
  <2>4. \A j \in 1 .. k - 1 : Inside(ast, todo'[j])
    <3>1. \A j \in 1 .. k - 1 : j \in 1 .. k /\ Inside(ast, items[j])
      BY <1>9, <2>1 DEF Body
    <3> QED BY <2>2, <3>1
  <2> HIDE DEF k
  <2>5. PICK l \in 0 .. Len(todo') : l = k
    BY <2>2
  <2>6. Generates(l)'
    BY <1>2, <1>4, <2>1, <2>3, <2>4, <2>5 DEF Generates, item
  <2> QED BY <1>2, <1>4, <1>6, <2>2, <2>5, <2>6 DEF RegionInv
<1>13. ValueInv'
  BY <1>2, <1>4, <1>9, ValueStep DEF GInv, ValueInv, Body
<1>14. KeptInv'
  BY <1>2, <1>4, <1>9, <1>10, KeptStays DEF Body
<1>15. NamesInv'
  <2>1. named_values_ \in [Name -> {NoNode} \cup Constants(ast)]
    BY <1>3 DEF GInv, NamesInv
  <2>2. entry_values(owners) \in [Name -> {NoNode} \cup Storage(ast)]
    BY <1>5 DEF entry_values
  <2>3. \A x \in Symbol : functions_[x] \in {NoNode} \cup Functions(ast, x)
    BY <1>2 DEF GInv, NamesInv
  <2> QED BY <1>2, <1>4, <1>6, <2>1, <2>2, <2>3 DEF GInv, NamesInv
<1>16. BlocksInv'
  <2>1. Rest = {}
    BY <1>3, NoRest
  <2>2. \A b \in DOMAIN blocks : blocks[b].ended
    BY <1>2, <1>3, <1>10, <2>1, RestFacts
  <2>3. blocks \in Seq(Block) /\ Len(blocks) \in Nat
    BY DEF GInv, BlocksInv
  <2>4. new \in Block /\ ~ new.ended /\ ~ new.broken
    <3>1. owners \in SUBSET Nat /\ entry \in Nat
      BY <1>5, <2>3, StorageFacts
    <3> QED BY <3>1 DEF new_block, Block
  <2> HIDE DEF new
  <2>5. /\ blocks' \in Seq(Block) /\ Len(blocks') = Len(blocks) + 1 /\ blocks'[entry] = new
        /\ \A b \in DOMAIN blocks : blocks'[b] = blocks[b]
        /\ \A b \in DOMAIN blocks' : b \in DOMAIN blocks \/ b = entry
        /\ entry \in 0 .. Len(blocks') /\ entry # 0
    BY <1>4, <2>3, <2>4
  <2> HIDE DEF entry
  <2>6. IF items = << >> THEN {} = {} ELSE {} = Awaits(ast, items[Len(items)])
    BY <1>8, <1>9 DEF Body
  <2>7. \A b \in DOMAIN blocks' :
          \/ blocks'[b].ended
          \/ current_function_' # NoNode /\ b = insert_block'
          \/ b \in Rest \cup {}
    BY <1>4, <1>6, <2>2, <2>5
  <2>8. ~ LeavesEarly(ast) =>
          /\ \A b \in DOMAIN blocks' : ~ blocks'[b].broken
          /\ (current_function_' # NoNode /\ blocks'[insert_block'].ended) => Ends(todo'[1])
    <3>1. ~ LeavesEarly(ast) => \A b \in DOMAIN blocks : ~ blocks[b].broken
      BY DEF GInv, BlocksInv
    <3> QED BY <1>4, <2>4, <2>5, <3>1
  <2>9. \A b \in Rest \cup {} : b \in DOMAIN blocks' /\ b # insert_block' /\ ~ blocks'[b].ended
    BY <2>1
  <2>10. {} \cap Rest = {}
    OBVIOUS
  <2> QED BY <1>2, <1>4, <1>9, <2>5, <2>6, <2>7, <2>8, <2>9, <2>10, BlocksStep DEF Body
<1>17. RecordsInv'
  BY <1>2, <1>4, SameRecords
<1> QED BY <1>2, <1>11, <1>12, <1>13, <1>14, <1>15, <1>16, <1>17 DEF GInv

LEMMA end_functionStep == ASSUME GInv, end_function PROVE GInv'
<1>1. Next_is("end_function") /\ Tree
  BY DEF end_function
<1>2. /\ Generating /\ todo # << >> /\ todo[1].do = "end_function" /\ todo[1].node = here
      /\ here \in DOMAIN ast.nodes /\ ast' = ast /\ Fits(ast, todo[1])
  BY <1>1, HeadFacts, SameTree DEF Next_is
<1>3. current_function_ # NoNode
  BY <1>2, InFunction
<1>4. \A j \in 2 .. Len(todo) : Instruction(ast, todo[j])
  <2>1. PICK k \in 0 .. Len(todo) :
          /\ \A j \in k + 1 .. Len(todo) : Instruction(ast, todo[j])
          /\ Generates(k)
    BY <1>3 DEF GInv, RegionInv
  <2>2. k = 1
    <3>1. ~ (1 \in 1 .. k - 1)
      BY <1>2, <2>1 DEF Generates, Inside
    <3> QED BY <2>1, <3>1 DEF Generates
  <2> QED BY <2>1, <2>2
<1>5. /\ blocks' = default_return /\ named_values_' = prev_named_values
      /\ functions_' = [functions_ EXCEPT ![node_at(here).name] = here]
      /\ current_function_' = NoNode /\ current_value_' = computed("ptr")
      /\ Goes_on(<< >>)
      /\ prev_named_values' = prev_named_values /\ kept' = kept /\ insert_block' = insert_block
      /\ refused' = refused /\ uses' = uses /\ stores' = stores /\ outcome' = outcome
  BY DEF end_function
<1>6. PICK items : items = << >>
  OBVIOUS
<1>7. /\ items \in Seq(Item) /\ Goes_on(items) /\ Len(items) = 0 /\ Chained(ast, items)
      /\ \A j \in 1 .. Len(items) : Fits(ast, items[j])
      /\ \A j \in 1 .. Len(items) - 1 : Awaits(ast, items[j]) = {}
  BY <1>5, <1>6 DEF Chained
<1>8. /\ Effect(ast, todo[1]) = 0 /\ Awaits(ast, todo[1]) = {} /\ ~ Yields(ast, todo[1])
      /\ node_at(here).kind = "FunctionDeclaration" /\ InTop(ast, here)
  BY <1>2 DEF Effect, Awaits, Yields, Fits, node_at, TopLevel
<1>9. ItemsInv'
  BY <1>2, <1>6, <1>7, ItemsStep
<1>10. RegionInv'
  <2>1. \A j \in 0 + 1 .. Len(todo') : Instruction(ast, todo'[j])
    BY <1>2, <1>4, <1>7, AfterItems
  <2>2. Defines(0)' /\ 0 \in 0 .. Len(todo')
    <3>1. todo' \in Seq(Item)
      BY <1>9 DEF ItemsInv
    <3> QED BY <3>1 DEF Defines
  <2> QED BY <1>2, <1>5, <2>1, <2>2 DEF RegionInv
<1>11. ValueInv'
  <2>1. current_value_' \in Value /\ current_value_' # NoValue
    BY <1>5, NewValues DEF LlvmType
  <2> QED BY <1>2, <1>6, <1>7, <2>1, ValueStep
<1>12. KeptInv'
  BY <1>2, <1>5, <1>8, KeptFacts, KeptEffect
<1>13. NamesInv'
  <2>1. node_at(here).name \in Name
    BY <1>2, <1>8, KindFacts, NamedKinds DEF GInv, node_at
  <2>2. here \in Functions(ast, node_at(here).name)
    BY <1>2, <1>8 DEF Functions, is_function, node_at
  <2>3. /\ functions_ \in [Symbol -> {NoNode, Wrapper} \cup DOMAIN ast.nodes]
        /\ \A x \in Symbol : functions_[x] \in {NoNode} \cup Functions(ast, x)
    BY <1>2 DEF GInv, NamesInv
  <2>4. /\ functions_' \in [Symbol -> {NoNode, Wrapper} \cup DOMAIN ast.nodes]
        /\ \A x \in Symbol : functions_'[x] \in {NoNode} \cup Functions(ast, x)
    BY <1>2, <1>5, <2>1, <2>2, <2>3 DEF Symbol
  <2>5. prev_named_values \in [Name -> {NoNode} \cup Constants(ast)]
    BY DEF GInv, NamesInv
  <2> QED BY <1>2, <1>5, <2>4, <2>5 DEF NamesInv
<1>14. BlocksInv'
  <2>1. Rest = {}
    BY <1>4, NoRest
  <2>2. \A b \in DOMAIN blocks : blocks[b].ended \/ b = insert_block
    BY <1>2, <1>8, <2>1, RestFacts
  <2>3. /\ insert_block \in DOMAIN blocks /\ blocks[insert_block] \in Block /\ blocks \in Seq(Block)
        /\ insert_block \in 0 .. Len(blocks)
        /\ ~ LeavesEarly(ast) => \A b \in DOMAIN blocks : ~ blocks[b].broken
    BY <1>2, <1>3, OpenBlock DEF GInv, BlocksInv
  <2>4. /\ blocks' \in Seq(Block) /\ Len(blocks') = Len(blocks) /\ DOMAIN blocks' = DOMAIN blocks
        /\ \A b \in DOMAIN blocks : blocks'[b].ended
        /\ ~ LeavesEarly(ast) => \A b \in DOMAIN blocks : ~ blocks'[b].broken
    <3>1. CASE blocks[insert_block].ended
      BY <1>5, <2>2, <2>3, <3>1 DEF default_return
    <3>2. CASE ~ blocks[insert_block].ended
      <4> DEFINE b == terminated(blocks[insert_block], {})
      <4>1. b \in Block /\ b.ended /\ (b.broken => blocks[insert_block].broken)
        <5>1. {} \in SUBSET Nat /\ 0 \in Nat
          OBVIOUS
        <5> QED BY <2>3, <3>2, <5>1, Instructions
      <4>2. blocks' = [blocks EXCEPT ![insert_block] = b]
        BY <1>5, <3>2 DEF default_return
      <4> HIDE DEF b
      <4> QED BY <2>2, <2>3, <4>1, <4>2
    <3> QED BY <3>1, <3>2
  <2>5. PICK new : new = {}
    OBVIOUS
  <2>6. /\ IF items = << >> THEN new = {} ELSE new = Awaits(ast, items[Len(items)])
        /\ new \cap Rest = {} /\ Rest \cup new = {}
    BY <1>6, <2>1, <2>5
  <2>7. insert_block' \in 0 .. Len(blocks')
    BY <1>5, <2>3, <2>4
  <2> QED BY <1>2, <1>5, <1>7, <2>4, <2>6, <2>7, BlocksStep
<1>15. RecordsInv'
  BY <1>2, <1>5, SameRecords
<1> QED BY <1>2, <1>9, <1>10, <1>11, <1>12, <1>13, <1>14, <1>15 DEF GInv

LEMMA visit_literalStep == ASSUME GInv, visit_literal PROVE GInv'
<1>1. Next_is("visit") /\ node_at(here).kind \in Literal /\ Tree
  BY DEF visit_literal
<1>2. /\ Generating /\ todo # << >> /\ todo[1].do = "visit" /\ todo[1].node = here
      /\ here \in DOMAIN ast.nodes /\ ast' = ast /\ ~ Ends(todo[1]) /\ Effect(ast, todo[1]) = 0
  BY <1>1, HeadFacts, SameTree DEF Next_is, Ends, Effect
<1>3. /\ current_value_' = literal_value(here)
      /\ Goes_on(<< >>)
      /\ kept' = kept /\ uses' = uses /\ stores' = stores /\ outcome' = outcome
      /\ KeepTables /\ KeepBuilder
  BY DEF visit_literal
<1>4. /\ current_value_' \in Value /\ current_value_' # NoValue /\ current_value_'.constant
      /\ current_function_' = current_function_
  BY <1>1, <1>3, LiteralValues, NoValueIsNoValue DEF KeepTables
<1>5. PICK items : items = << >>
  OBVIOUS
<1>6. /\ items \in Seq(Item) /\ Goes_on(items) /\ Len(items) = 0 /\ Chained(ast, items)
      /\ \A j \in 1 .. Len(items) : Fits(ast, items[j]) /\ Inside(ast, items[j]) /\ Awaits(ast, items[j]) = {}
  BY <1>3, <1>5 DEF Chained
<1>7. ItemsInv'
  BY <1>2, <1>5, <1>6, ItemsStep
<1>8. ValueInv'
  BY <1>2, <1>4, <1>5, <1>6, ValueStep
<1>9. KeptInv'
  BY <1>2, <1>3, KeptFacts, KeptEffect
<1>10. NamesInv' /\ RecordsInv'
  BY <1>2, <1>3, SameNames, SameRecords, SameBuilder
<1>11. BlocksInv'
  BY <1>2, <1>3, <1>4, <1>6, QuietBlocks, SameBuilder
<1>12. RegionInv'
  <2>1. CASE current_function_ # NoNode
    <3>1. Inside(ast, todo[1])
      BY <1>1, <1>2, Kinds DEF Inside, node_at
    <3> QED BY <1>2, <1>4, <1>6, <2>1, <3>1, RegionStep
  <2>2. CASE current_function_ = NoNode
    <3>1. PICK k \in 0 .. Len(todo) :
            /\ \A j \in k + 1 .. Len(todo) : Instruction(ast, todo[j])
            /\ Defines(k)
      BY <2>2 DEF GInv, RegionInv
    <3>2. Len(todo) \in Nat \ {0}
      BY <1>2, HeadFacts
    <3>3. k = 2
      <4>1. k \in {0, 1, 2} /\ k # 1
        BY <1>2, <3>1 DEF Defines
      <4>2. k # 0
        <5>1. ~ Instruction(ast, todo[1])
          BY <1>1, <1>2, Kinds DEF Instruction, node_at
        <5> QED BY <3>1, <3>2, <5>1
      <4> QED BY <4>1, <4>2
    <3>4. /\ Len(todo') = Len(todo) - 1
          /\ \A j \in 1 .. Len(todo) - 1 : todo'[j] = todo[j + 1]
      BY <1>2, <1>3, Popped
    <3>5. 1 \in 1 .. Len(todo) - 1 /\ 1 + 1 = 2 /\ todo'[1] = todo[2] /\ 1 \in 0 .. Len(todo')
      BY <3>1, <3>2, <3>3, <3>4
    <3>6. Defines(1)'
      BY <1>4, <3>1, <3>3, <3>5 DEF Defines
    <3>7. \A j \in 1 + 1 .. Len(todo') : Instruction(ast, todo'[j])
      <4> TAKE j \in 1 + 1 .. Len(todo')
      <4>1. j \in 1 .. Len(todo) - 1 /\ j + 1 \in 2 + 1 .. Len(todo)
        BY <3>2, <3>4
      <4> QED BY <3>1, <3>3, <3>4, <4>1
    <3> QED BY <1>2, <1>4, <2>2, <3>5, <3>6, <3>7 DEF RegionInv
  <2> QED BY <2>1, <2>2
<1> QED BY <1>2, <1>7, <1>8, <1>9, <1>10, <1>11, <1>12 DEF GInv

LEMMA define_constantStep == ASSUME GInv, define_constant PROVE GInv'
<1>1. Next_is("define_constant") /\ Tree
  BY DEF define_constant
<1>2. /\ Generating /\ todo # << >> /\ todo[1].do = "define_constant" /\ todo[1].node = here
      /\ here \in DOMAIN ast.nodes /\ ast' = ast /\ ~ Ends(todo[1]) /\ Effect(ast, todo[1]) = 0
      /\ ~ Yields(ast, todo[1]) /\ Fits(ast, todo[1]) /\ Len(todo) \in Nat \ {0}
  BY <1>1, HeadFacts, SameTree DEF Next_is, Ends, Effect, Yields
<1>3. PICK k \in 0 .. Len(todo) :
        /\ \A j \in k + 1 .. Len(todo) : Instruction(ast, todo[j])
        /\ IF current_function_ = NoNode THEN Defines(k) ELSE Generates(k)
  BY DEF GInv, RegionInv
<1>4. current_function_ = NoNode
  <2> SUFFICES ASSUME Generates(k) PROVE FALSE
    BY <1>3
  <2>1. k # 1
    BY <1>2 DEF Generates, item
  <2>2. 1 \in 1 .. k - 1
    BY <1>2, <2>1 DEF Generates
  <2> QED BY <1>2, <2>2 DEF Generates, Inside
<1>5. k = 1 /\ current_value_.constant
  <2>1. Defines(k) /\ k \in {0, 1, 2}
    BY <1>3, <1>4 DEF Defines
  <2>2. k # 0
    <3>1. ~ Instruction(ast, todo[1])
      BY <1>2 DEF Instruction
    <3> QED BY <1>2, <1>3, <3>1
  <2> QED BY <1>2, <2>1, <2>2 DEF Defines
<1>6. /\ named_values_' = [named_values_ EXCEPT ![node_at(here).name] = here]
      /\ Goes_on(<< >>)
      /\ prev_named_values' = prev_named_values /\ functions_' = functions_
      /\ current_function_' = current_function_ /\ current_value_' = current_value_ /\ kept' = kept
      /\ uses' = uses /\ stores' = stores /\ outcome' = outcome /\ KeepBuilder
  BY <1>5, NoValueIsNoValue DEF define_constant
<1>7. PICK items : items = << >>
  OBVIOUS
<1>8. /\ items \in Seq(Item) /\ Goes_on(items) /\ Len(items) = 0 /\ Chained(ast, items)
      /\ \A j \in 1 .. Len(items) : Fits(ast, items[j]) /\ Awaits(ast, items[j]) = {}
  BY <1>6, <1>7 DEF Chained
<1>9. ItemsInv'
  BY <1>2, <1>7, <1>8, ItemsStep
<1>10. ValueInv'
  BY <1>2, <1>6, <1>7, <1>8, ValueStep DEF GInv, ValueInv
<1>11. KeptInv'
  BY <1>2, <1>6, KeptFacts, KeptEffect
<1>12. RecordsInv'
  BY <1>2, <1>6, SameRecords, SameBuilder
<1>13. NamesInv'
  <2>1. node_at(here).name \in Name /\ here \in Constants(ast)
    BY <1>2, KindFacts, NamedKinds DEF GInv, node_at, Fits, Constants
  <2>2. named_values_ \in [Name -> {NoNode} \cup Constants(ast)]
    BY <1>4 DEF GInv, NamesInv
  <2>3. named_values_' \in [Name -> {NoNode} \cup Constants(ast)]
    BY <1>6, <2>1, <2>2
  <2>4. /\ functions_ \in [Symbol -> {NoNode, Wrapper} \cup DOMAIN ast.nodes]
        /\ \A x \in Symbol : functions_[x] \in {NoNode} \cup Functions(ast, x)
        /\ prev_named_values \in [Name -> {NoNode} \cup Constants(ast)]
    BY <1>2 DEF GInv, NamesInv
  <2> QED BY <1>2, <1>4, <1>6, <2>3, <2>4 DEF NamesInv
<1>14. BlocksInv'
  BY <1>2, <1>6, <1>8, QuietBlocks, SameBuilder
<1>15. RegionInv'
  <2>1. \A j \in 2 .. Len(todo) : Instruction(ast, todo[j])
    BY <1>3, <1>5
  <2>2. \A j \in 0 + 1 .. Len(todo') : Instruction(ast, todo'[j])
    BY <1>2, <1>8, <2>1, AfterItems
  <2>3. Defines(0)' /\ 0 \in 0 .. Len(todo')
    <3>1. todo' \in Seq(Item)
      BY <1>9 DEF ItemsInv
    <3> QED BY <3>1 DEF Defines
  <2> QED BY <1>2, <1>4, <1>6, <2>2, <2>3 DEF RegionInv
<1> QED BY <1>2, <1>9, <1>10, <1>11, <1>12, <1>13, <1>14, <1>15 DEF GInv

\* Nothing is left to do: no function is being generated and no block is open.
LEMMA Finished ==
  ASSUME GInv, todo = << >>
  PROVE  /\ current_function_ = NoNode
         /\ blocks \in Seq(Block) /\ \A b \in DOMAIN blocks : blocks[b].ended
         /\ ~ LeavesEarly(ast) => \A b \in DOMAIN blocks : ~ blocks[b].broken
<1>1. Len(todo) = 0 /\ DOMAIN todo = {} /\ \A k \in 0 .. Len(todo) : k = 0
  OBVIOUS
<1>2. current_function_ = NoNode
  BY <1>1 DEF GInv, RegionInv, Generates
<1> QED BY <1>1, <1>2 DEF GInv, BlocksInv

LEMMA generateStep == ASSUME GInv, generate PROVE GInv'
<1>1. /\ outcome = "idle" /\ outcome' = "running" /\ todo' = visit(ast.top)
      /\ current_value_' = current_value_ /\ kept' = kept /\ uses' = uses /\ stores' = stores
      /\ KeepTables /\ KeepBuilder /\ ast' = ast
  BY SameTree DEF generate
<1>2. todo = << >> /\ \A x \in Symbol : functions_[x] = NoNode
  BY <1>1 DEF GInv, RecordsInv
<1>3. current_function_ = NoNode /\ \A b \in DOMAIN blocks : blocks[b].ended
  BY <1>2, Finished
<1>4. /\ todo' \in Seq(Item) /\ Len(todo') = Len(ast.top) /\ Len(todo') \in Nat
      /\ \A j \in 1 .. Len(todo') :
           /\ ast.top[j] \in DOMAIN ast.nodes /\ ast.nodes[ast.top[j]].kind \in TopLevel
           /\ InTop(ast, ast.top[j]) /\ todo'[j] = item("visit", ast.top[j], NoNode)
  <2>1. ast.top \in Seq(Nat)
    <3>1. ast.nodes \in Seq(AstNode)
      BY DEF GInv, IsAst
    <3>2. ast.top \in Seq({n \in 1 .. Len(ast.nodes) : ast.nodes[n].kind \in TopLevel})
      BY DEF GInv, IsAst
    <3> QED BY <3>1, <3>2, SeqOf
  <2>2. \A j \in DOMAIN ast.top :
          ast.top[j] \in DOMAIN ast.nodes /\ ast.nodes[ast.top[j]].kind \in TopLevel
    BY TopFacts DEF GInv
  <2>3. ast.top \in Seq(DOMAIN ast.nodes)
    BY <2>1, <2>2, SeqOf
  <2>4. /\ todo' \in Seq(Item) /\ Len(todo') = Len(ast.top)
        /\ \A j \in 1 .. Len(ast.top) : todo'[j] = item("visit", ast.top[j], NoNode)
    BY <1>1, <2>3, VisitList DEF GInv
  <2>5. DOMAIN ast.top = 1 .. Len(ast.top) /\ Len(ast.top) \in Nat
    BY <2>1
  <2> QED BY <2>2, <2>4, <2>5 DEF InTop
<1>5. \A j \in 1 .. Len(todo') :
        /\ Fits(ast, todo'[j]) /\ Awaits(ast, todo'[j]) = {} /\ Effect(ast, todo'[j]) = 0
        /\ ~ Needs(ast, todo'[j]) /\ ~ Returns(ast, todo'[j]) /\ Instruction(ast, todo'[j])
  <2> TAKE j \in 1 .. Len(todo')
  <2> DEFINE n == ast.top[j]
  <2>1. n \in DOMAIN ast.nodes /\ ast.nodes[n].kind \in TopLevel /\ InTop(ast, n)
        /\ todo'[j] = item("visit", n, NoNode)
    BY <1>4
  <2> HIDE DEF n
  <2>2. Fits(ast, todo'[j]) /\ Awaits(ast, todo'[j]) = {} /\ Effect(ast, todo'[j]) = 0 /\ ~ Needs(ast, todo'[j])
    BY <2>1, VisitItem DEF GInv
  <2>3. todo'[j].do = "visit" /\ todo'[j].node = n
    BY <2>1 DEF item
  <2>4. ~ Returns(ast, todo'[j]) /\ Instruction(ast, todo'[j])
    BY <2>1, <2>3 DEF Returns, Instruction, TopLevel
  <2> QED BY <2>2, <2>4
<1>6. ItemsInv'
  <2>1. \A j \in 1 .. Len(todo') - 1 : Follows(ast, todo'[j], todo'[j + 1])
    <3> TAKE j \in 1 .. Len(todo') - 1
    <3>1. j \in 1 .. Len(todo') /\ j + 1 \in 1 .. Len(todo')
      BY <1>4
    <3> QED BY <1>5, <3>1 DEF Follows
  <2>2. \A j \in DOMAIN todo' : Fits(ast, todo'[j])
    BY <1>4, <1>5
  <2> QED BY <1>1, <1>4, <2>1, <2>2 DEF ItemsInv, Chained
<1>7. RegionInv'
  <2>1. Defines(0)' /\ 0 \in 0 .. Len(todo')
    BY <1>4 DEF Defines
  <2>2. \A j \in 0 + 1 .. Len(todo') : Instruction(ast, todo'[j])
    BY <1>5
  <2>3. current_function_' = NoNode
    BY <1>1, <1>3 DEF KeepTables
  <2> QED BY <1>1, <2>1, <2>2, <2>3 DEF RegionInv
<1>8. ValueInv'
  <2>1. todo' # << >> => ~ Needs(ast, todo'[1])
    BY <1>4, <1>5
  <2> QED BY <1>1, <2>1 DEF GInv, ValueInv
<1>9. KeptInv'
  <2>1. kept \in Seq(Value) /\ Len(kept) \in Nat
    BY DEF GInv, KeptInv
  <2> DEFINE k == Len(kept)
             m == Len(todo')
             d == [j \in 1 .. m + 1 |-> k]
  <2>2. k \in Nat /\ m \in Nat
    BY <1>4, <2>1
  <2> HIDE DEF k, m
  <2>3. /\ d \in [1 .. m + 1 -> Nat] /\ d[1] = k
        /\ \A j \in 1 .. m : d[j] = k /\ d[j + 1] = k
    BY <2>2
  <2>4. \A j \in 1 .. m : d[j + 1] = d[j] + Effect(ast, todo'[j])
    BY <1>5, <2>2, <2>3 DEF m
  <2> HIDE DEF d
  <2>5. Depths(ast, d, todo', k)
    BY <2>3, <2>4 DEF Depths, m
  <2>6. kept' = kept /\ ast' = ast
    BY <1>1
  <2> QED BY <2>1, <2>5, <2>6 DEF KeptInv, k
<1>10. NamesInv'
  BY <1>1, <1>2 DEF GInv, NamesInv, KeepTables
<1>11. BlocksInv'
  <2>1. /\ blocks' = blocks /\ insert_block' = insert_block
        /\ current_function_' = NoNode
    BY <1>1, <1>3 DEF KeepBuilder, KeepTables
  <2>2. DOMAIN todo' = 1 .. Len(todo')
    BY <1>4
  <2>3. \A j \in DOMAIN todo' : Awaits(ast, todo'[j]) = {}
    BY <1>5, <2>2
  <2> QED BY <1>1, <1>3, <2>1, <2>3 DEF GInv, BlocksInv
<1>12. RecordsInv'
  BY <1>1 DEF GInv, RecordsInv, KeepBuilder, Outcome
<1> QED BY <1>1, <1>6, <1>7, <1>8, <1>9, <1>10, <1>11, <1>12 DEF GInv

LEMMA create_main_wrapperStep == ASSUME GInv, create_main_wrapper PROVE GInv'
<1> DEFINE n == Len(blocks) + 1
           new == terminated(new_block(n), {})
<1>1. /\ Generating /\ todo = << >> /\ functions_' = [functions_ EXCEPT !["main"] = Wrapper]
      /\ blocks' = Append(blocks, new) /\ insert_block' = n
      /\ todo' = todo /\ named_values_' = named_values_ /\ prev_named_values' = prev_named_values
      /\ current_function_' = current_function_ /\ current_value_' = current_value_ /\ kept' = kept
      /\ refused' = refused /\ uses' = uses /\ stores' = stores /\ outcome' = outcome /\ ast' = ast
  BY SameTree DEF create_main_wrapper
<1>2. /\ current_function_ = NoNode
      /\ blocks \in Seq(Block) /\ \A b \in DOMAIN blocks : blocks[b].ended
      /\ ~ LeavesEarly(ast) => \A b \in DOMAIN blocks : ~ blocks[b].broken
  BY <1>1, Finished
<1>3. new \in Block /\ new.ended /\ ~ new.broken /\ n \in Nat
  <2>1. n \in Nat /\ 0 \in Nat /\ {} \in SUBSET Nat
    BY <1>2
  <2>2. new_block(n) \in Block /\ ~ new_block(n).ended /\ ~ new_block(n).broken
    BY <2>1, NewBlocks
  <2> QED BY <2>1, <2>2, Instructions
<1> HIDE DEF new
<1>4. /\ blocks' \in Seq(Block) /\ n \in 0 .. Len(blocks')
      /\ \A b \in DOMAIN blocks' : blocks'[b] = new \/ (b \in DOMAIN blocks /\ blocks'[b] = blocks[b])
  <2>1. n = Len(blocks) + 1 /\ blocks \in Seq(Block) /\ new \in Block /\ blocks' = Append(blocks, new)
    BY <1>1, <1>2, <1>3
  <2> HIDE DEF n
  <2>2. /\ blocks' \in Seq(Block) /\ Len(blocks') = n /\ DOMAIN blocks' = 1 .. n
        /\ DOMAIN blocks = 1 .. n - 1 /\ n \in Nat
    BY <2>1
  <2>3. \A b \in 1 .. n : blocks'[b] = IF b = n THEN new ELSE blocks[b]
    BY <2>1
  <2>4. \A b \in 1 .. n : b # n => b \in 1 .. n - 1
    BY <2>2
  <2>5. \A b \in 1 .. n : blocks'[b] = new \/ (b \in DOMAIN blocks /\ blocks'[b] = blocks[b])
    <3> TAKE b \in 1 .. n
    <3>1. CASE b = n
      BY <2>3, <3>1, SMT
    <3>2. CASE b # n
      <4>1. b \in DOMAIN blocks
        BY <2>2, <2>4, <3>2, Zenon
      <4>2. blocks'[b] = blocks[b]
        BY <2>3, <3>2, Zenon
      <4> QED BY <4>1, <4>2
    <3> QED BY <3>1, <3>2
  <2>6. n \in 0 .. Len(blocks')
    BY <2>2
  <2> QED BY <2>2, <2>5, <2>6, Zenon
<1>5. BlocksInv'
  BY <1>1, <1>2, <1>3, <1>4 DEF BlocksInv
<1>6. ItemsInv' /\ ValueInv' /\ KeptInv' /\ IsAst(ast)'
  BY <1>1 DEF GInv, ItemsInv, ValueInv, KeptInv
<1>7. RegionInv'
  BY <1>1 DEF GInv, RegionInv, Defines, Generates, node_at
<1>8. NamesInv'
  BY <1>1 DEF GInv, NamesInv
<1>9. RecordsInv'
  BY <1>1 DEF GInv, RecordsInv, Generating
<1> QED BY <1>5, <1>6, <1>7, <1>8, <1>9 DEF GInv

LEMMA SameState ==
  ASSUME GInv, todo = << >> \/ outcome' = outcome, outcome' \in {outcome, "verified", "verification failed"},
         UNCHANGED << ast, todo, current_value_, kept, named_values_, prev_named_values, functions_,
                      current_function_, blocks, insert_block, refused, uses, stores >>
  PROVE  GInv'
<1>1. /\ ast' = ast /\ todo' = todo /\ current_value_' = current_value_ /\ kept' = kept
      /\ named_values_' = named_values_ /\ prev_named_values' = prev_named_values
      /\ functions_' = functions_ /\ current_function_' = current_function_ /\ blocks' = blocks
      /\ insert_block' = insert_block /\ refused' = refused /\ uses' = uses /\ stores' = stores
  OBVIOUS
<1>2. IsAst(ast)' /\ ItemsInv' /\ ValueInv' /\ KeptInv' /\ NamesInv'
  BY <1>1 DEF GInv, ItemsInv, ValueInv, KeptInv, NamesInv
<1>3. RegionInv'
  <2>1. RegionInv
    BY DEF GInv
  <2>2. /\ ast' = ast /\ todo' = todo /\ current_value_' = current_value_
        /\ current_function_' = current_function_
    BY <1>1
  <2>3. \A k : (Defines(k)' <=> Defines(k)) /\ (Generates(k)' <=> Generates(k))
    BY <2>2, Zenon DEF Defines, Generates, node_at
  <2> QED BY <2>1, <2>2, <2>3, Zenon DEF RegionInv
<1>4. BlocksInv'
  BY <1>1 DEF GInv, BlocksInv
<1>5. RecordsInv'
  BY <1>1 DEF GInv, RecordsInv, Outcome, Failure
<1> QED BY <1>2, <1>3, <1>4, <1>5 DEF GInv

LEMMA verify_moduleStep == ASSUME GInv, verify_module PROVE GInv'
<1>1. /\ todo = << >> /\ outcome' \in {outcome, "verified", "verification failed"}
      /\ UNCHANGED << ast, todo, current_value_, kept, named_values_, prev_named_values, functions_,
                      current_function_, blocks, insert_block, refused, uses, stores >>
  BY DEF verify_module, Tree, KeepTables, KeepBuilder
<1> QED BY <1>1, SameState

-------------------------------------------------------------------------------

LEMMA Inductive == GInv /\ [Next]_vars => GInv'
<1> SUFFICES ASSUME GInv, [Next]_vars
    PROVE  GInv'
  OBVIOUS
<1>1. CASE UNCHANGED vars
  BY <1>1, SameState DEF vars
<1>2. CASE Next
  BY <1>2, generateStep, visit_literalStep, keep_valueStep, visit_binary_opStep, binary_opStep,
     visit_unary_opStep, unary_opStep, visit_variable_declarationStep, bind_variableStep,
     visit_variable_assignmentStep, store_valueStep, visit_variable_lookupStep,
     visit_function_declarationStep, end_functionStep, visit_function_callStep, callStep,
     visit_function_returnStep, returnStep, visit_ifStep, branchStep, end_thenStep, end_elseStep,
     visit_constant_declarationStep, define_constantStep, create_main_wrapperStep, verify_moduleStep
     DEF Next
<1> QED BY <1>1, <1>2

LEMMA TreeStays == Next => UNCHANGED << ast, result_type >>
BY DEF Next, Tree, generate, visit_literal, keep_value, visit_binary_op, binary_op, visit_unary_op,
       unary_op, visit_variable_declaration, bind_variable, visit_variable_assignment, store_value,
       visit_variable_lookup, visit_function_declaration, end_function, visit_function_call, call,
       visit_function_return, return, visit_if, branch, end_then, end_else,
       visit_constant_declaration, define_constant, create_main_wrapper, verify_module

LEMMA Initial == IsAst(ast) /\ Init => GInv
<1> SUFFICES ASSUME IsAst(ast), Init
    PROVE  GInv
  OBVIOUS
<1>1. /\ todo = << >> /\ current_value_ = NoValue /\ kept = << >> /\ blocks = << >> /\ insert_block = 0
      /\ named_values_ = [x \in Name |-> NoNode] /\ prev_named_values = [x \in Name |-> NoNode]
      /\ functions_ = [x \in Symbol |-> NoNode] /\ current_function_ = NoNode /\ refused = {}
      /\ uses = [n \in DOMAIN ast.nodes |-> NoNode] /\ stores = {} /\ outcome = "idle"
  BY DEF Init
<1>2. ItemsInv
  BY <1>1 DEF ItemsInv, Chained
<1>3. RegionInv
  BY <1>1 DEF RegionInv, Defines
<1>4. ValueInv
  BY <1>1 DEF ValueInv
<1>5. KeptInv
  <2> DEFINE d == [j \in 1 .. 1 |-> 0]
  <2>1. d \in [1 .. Len(<< >>) + 1 -> Nat] /\ d[1] = 0 /\ Len(<< >>) = 0
    OBVIOUS
  <2> HIDE DEF d
  <2>2. Depths(ast, d, << >>, 0)
    BY <2>1 DEF Depths
  <2> QED BY <1>1, <2>2 DEF KeptInv
<1>6. NamesInv
  BY <1>1 DEF NamesInv
<1>7. BlocksInv
  BY <1>1 DEF BlocksInv
<1>8. RecordsInv
  BY <1>1 DEF RecordsInv, Outcome
<1> QED BY <1>2, <1>3, <1>4, <1>5, <1>6, <1>7, <1>8 DEF GInv

\* The generator's own types follow from the invariant.
LEMMA WellTyped == GInv => TypeOK
<1> SUFFICES ASSUME GInv
    PROVE  TypeOK
  OBVIOUS
<1>1. /\ todo \in Seq(Item)
      /\ current_value_ \in Value \cup {NoValue}
      /\ current_function_ \in {NoNode} \cup DOMAIN ast.nodes
      /\ blocks \in Seq(Block)
      /\ insert_block \in 0 .. Len(blocks)
      /\ refused \subseteq DOMAIN ast.nodes
      /\ uses \in [DOMAIN ast.nodes -> {NoNode} \cup DOMAIN ast.nodes]
      /\ stores \subseteq (DOMAIN ast.nodes) \X LlvmType \X LlvmType
      /\ outcome \in Outcome
  BY DEF GInv, ItemsInv, ValueInv, NamesInv, BlocksInv, RecordsInv
<1>2. kept \in Seq(Value \cup {NoValue})
  BY DEF GInv, KeptInv
<1>3. /\ Constants(ast) \subseteq DOMAIN ast.nodes
      /\ Storage(ast) \subseteq DOMAIN ast.nodes
      /\ \A x : Functions(ast, x) \subseteq DOMAIN ast.nodes
  BY DEF Constants, Storage, Functions
<1>4. /\ named_values_ \in [Name -> {NoNode} \cup DOMAIN ast.nodes]
      /\ prev_named_values \in [Name -> {NoNode} \cup DOMAIN ast.nodes]
  BY <1>3 DEF GInv, NamesInv
<1>5. functions_ \in [Symbol -> {NoNode, Wrapper} \cup DOMAIN ast.nodes]
  BY DEF GInv, NamesInv
<1> QED BY <1>1, <1>2, <1>4, <1>5 DEF TypeOK

\* When verifyModule has been asked, every block ends in a terminator, and one
\* that has another has it from a list with a statement after a return.
LEMMA BlocksEnd ==
  ASSUME GInv, outcome \in {"verified", "verification failed"}
  PROVE  /\ blocks \in Seq(Block)
         /\ \A b \in DOMAIN blocks : blocks[b].ended
         /\ (\E b \in DOMAIN blocks : blocks[b].broken) => LeavesEarly(ast)
<1>1. todo = << >>
  BY DEF GInv, RecordsInv
<1> QED BY <1>1, Finished

(***************************************************************************)
(* For any tree: the generator keeps its types, never evaluates an         *)
(* instruction that lacks a value, never lacks a constant, and never reads *)
(* a global constant as a local variable's storage.                        *)
(***************************************************************************)
THEOREM Invariance == IsAst(ast) /\ Init /\ [][Next]_vars => []GInv
BY Initial, Inductive, PTL

-------------------------------------------------------------------------------
(***************************************************************************)
(* On a tree that was checked the generator has a number wherever it needs *)
(* one.  So it never branches on anything else, and never passes a         *)
(* function the wrong number of arguments.                                 *)
(***************************************************************************)

NumberTypes == IntegerTy \cup FloatingPointTy

\* It is there for the value of the last expression, which has to be a number.
NeedsNumber(i) == i.do \in {"keep", "binary_op", "unary_op", "branch"}

\* It leaves a number behind.
YieldsNumber(tree, i) ==
    \/ i.do \in {"binary_op", "unary_op"}
    \/ i.do = "call" /\ tree.nodes[i.entry].type # UNDEF
    \/ i.do = "visit" /\ tree.nodes[i.node].kind \in Expression /\ HasNumber(tree, i.node)

Unchecked == {"argument count", "invalid condition"}

NumbersInv(seen) ==
    /\ \A j \in DOMAIN todo : todo[j].node \in seen
    /\ \A j \in 1 .. Len(todo) - 1 : NeedsNumber(todo[j + 1]) => YieldsNumber(ast, todo[j])
    /\ (todo # << >> /\ NeedsNumber(todo[1])) => current_value_.type \in NumberTypes
    /\ \A i \in DOMAIN kept : kept[i].type \in NumberTypes
    /\ outcome \notin Unchecked

(* How what is left to do changes. *)

LEMMA NumbersStep ==
  ASSUME GInv, todo # << >>, NEW seen, NumbersInv(seen), ast' = ast,
         NEW items \in Seq(Item), Goes_on(items),
         \A j \in 1 .. Len(items) : items[j].node \in seen,
         \A j \in 1 .. Len(items) - 1 : NeedsNumber(items[j + 1]) => YieldsNumber(ast, items[j]),
         items # << >> =>
           /\ ~ NeedsNumber(items[1])
           /\ YieldsNumber(ast, todo[1]) => YieldsNumber(ast, items[Len(items)]),
         items = << >> => (YieldsNumber(ast, todo[1]) => current_value_'.type \in NumberTypes),
         \A i \in DOMAIN kept' : kept'[i].type \in NumberTypes,
         outcome' \notin Unchecked
  PROVE  NumbersInv(seen)'
<1> DEFINE n == Len(items)
<1>1. /\ todo' \in Seq(Item)
      /\ Len(todo') = n + Len(todo) - 1
      /\ \A j \in 1 .. n : todo'[j] = items[j]
      /\ \A j \in 2 .. Len(todo) : todo'[n + j - 1] = todo[j]
  BY NewTodo
<1>2. n \in Nat /\ Len(todo) \in Nat \ {0} /\ DOMAIN todo' = 1 .. Len(todo') /\ DOMAIN todo = 1 .. Len(todo)
  BY <1>1, HeadFacts DEF GInv, ItemsInv
<1>3. /\ \A j \in DOMAIN todo : todo[j].node \in seen
      /\ \A j \in 1 .. Len(todo) - 1 : NeedsNumber(todo[j + 1]) => YieldsNumber(ast, todo[j])
  BY DEF NumbersInv
<1>4. \A j \in DOMAIN todo' : todo'[j].node \in seen
  <2> TAKE j \in DOMAIN todo'
  <2>1. CASE j \in 1 .. n
    BY <1>1, <2>1
  <2>2. CASE j \notin 1 .. n
    <3>1. j - n + 1 \in 2 .. Len(todo) /\ n + (j - n + 1) - 1 = j
      BY SMTT(30), <1>1, <1>2, <2>2, NewPositions
    <3>2. todo'[n + (j - n + 1) - 1] = todo[j - n + 1]
      BY <1>1, <3>1
    <3> QED BY <1>2, <1>3, <3>1, <3>2
  <2> QED BY <2>1, <2>2
<1>5. \A j \in 1 .. Len(todo') - 1 : NeedsNumber(todo'[j + 1]) => YieldsNumber(ast, todo'[j])
  <2> TAKE j \in 1 .. Len(todo') - 1
  <2>1. CASE j + 1 \in 1 .. n
    <3>1. j \in 1 .. Len(items) - 1 /\ j \in 1 .. n
      BY <1>2, <2>1
    <3>2. todo'[j] = items[j] /\ todo'[j + 1] = items[j + 1]
      BY <1>1, <2>1, <3>1
    <3> QED BY <3>1, <3>2
  <2>2. CASE j = n
    <3>1. 2 \in 2 .. Len(todo) /\ n + 2 - 1 = j + 1 /\ n # 0 /\ 1 \in 1 .. Len(todo) - 1
      BY <1>1, <1>2, <2>2
    <3>2. todo'[j + 1] = todo[2] /\ (NeedsNumber(todo[2]) => YieldsNumber(ast, todo[1]))
      BY <1>1, <1>2, <1>3, <3>1
    <3>3. todo'[j] = items[n] /\ items # << >>
      BY <1>1, <1>2, <2>2, <3>1
    <3> QED BY <3>2, <3>3
  <2>3. CASE j > n
    <3>0. j \in Nat /\ j <= n + Len(todo) - 2
      BY <1>1, <1>2
    <3>1. /\ j - n + 1 \in 2 .. Len(todo) /\ n + (j - n + 1) - 1 = j
          /\ j - n + 2 \in 2 .. Len(todo) /\ n + (j - n + 2) - 1 = j + 1
          /\ j - n + 1 \in 1 .. Len(todo) - 1 /\ (j - n + 1) + 1 = j - n + 2
      <4>1. n \in Nat /\ Len(todo) \in Nat
        BY <1>2
      <4> HIDE DEF n
      <4> QED BY <2>3, <3>0, <4>1
    <3>2. todo'[j] = todo[j - n + 1] /\ todo'[j + 1] = todo[j - n + 2]
      BY <1>1, <3>1
    <3>3. NeedsNumber(todo[(j - n + 1) + 1]) => YieldsNumber(ast, todo[j - n + 1])
      BY <1>3, <3>1
    <3> QED BY <3>1, <3>2, <3>3
  <2> QED BY <1>1, <1>2, <2>1, <2>2, <2>3
<1>6. (todo' # << >> /\ NeedsNumber(todo'[1])) => current_value_'.type \in NumberTypes
  <2>1. CASE items # << >>
    <3>1. todo'[1] = items[1]
      BY <1>1, <2>1
    <3> QED BY <2>1, <3>1
  <2>2. CASE items = << >>
    <3>1. SUFFICES ASSUME todo' # << >>, NeedsNumber(todo'[1])
          PROVE  current_value_'.type \in NumberTypes
      OBVIOUS
    <3>2. n = 0 /\ 2 \in 2 .. Len(todo) /\ 1 \in 1 .. Len(todo) - 1
      BY <1>1, <1>2, <2>2, <3>1
    <3>3. todo'[1] = todo[2]
      BY <1>1, <3>2
    <3>4. NeedsNumber(todo[2]) => YieldsNumber(ast, todo[1])
      BY <1>3, <3>2
    <3> QED BY <2>2, <3>1, <3>3, <3>4
  <2> QED BY <2>1, <2>2
<1> QED BY <1>4, <1>5, <1>6 DEF NumbersInv

LEMMA NumbersDone ==
  ASSUME GInv, todo # << >>, NEW seen, NumbersInv(seen), ast' = ast, Goes_on(<< >>),
         YieldsNumber(ast, todo[1]) => current_value_'.type \in NumberTypes,
         \A i \in DOMAIN kept' : kept'[i].type \in NumberTypes,
         outcome' = outcome
  PROVE  NumbersInv(seen)'
<1>1. << >> \in Seq(Item) /\ Len(<< >>) = 0 /\ 1 .. 0 = {} /\ 1 .. 0 - 1 = {}
  OBVIOUS
<1>2. outcome' \notin Unchecked
  BY DEF NumbersInv
<1> QED BY <1>1, <1>2, NumbersStep

LEMMA ItemFields ==
  ASSUME NEW what, NEW n, NEW entry
  PROVE  item(what, n, entry).do = what /\ item(what, n, entry).node = n /\ item(what, n, entry).entry = entry
BY DEF item

\* A list of nodes, and something after it that needs at most the value of
\* the only one.
LEMMA NumbersList ==
  ASSUME GInv, todo # << >>, NEW seen, NumbersInv(seen), ast' = ast,
         NEW list \in Seq(DOMAIN ast.nodes), \A i \in DOMAIN list : list[i] \in seen,
         NEW last \in Item, last.node \in seen,
         NEW items, items = visit(list) \o << last >>, Goes_on(items),
         NeedsNumber(last) =>
           Len(list) = 1 /\ ast.nodes[list[1]].kind \in Expression /\ HasNumber(ast, list[1]),
         YieldsNumber(ast, todo[1]) => YieldsNumber(ast, last),
         kept' = kept, outcome' = outcome
  PROVE  NumbersInv(seen)'
<1> DEFINE n == Len(list)
           s == visit(list)
<1>1. /\ s \in Seq(Item) /\ Len(s) = n /\ n \in Nat
      /\ \A j \in 1 .. n : list[j] \in DOMAIN ast.nodes /\ s[j] = item("visit", list[j], NoNode)
  BY VisitList DEF GInv
<1> HIDE DEF s, n
<1>2. /\ s \o << last >> \in Seq(Item)
      /\ s \o << last >> # << >>
      /\ Len(s \o << last >>) = Len(s) + 1
      /\ (s \o << last >>)[Len(s) + 1] = last
      /\ \A j \in 1 .. Len(s) : (s \o << last >>)[j] = s[j]
  BY <1>1, ThenOne
<1>3. items = s \o << last >>
  BY DEF s
<1>4. /\ items \in Seq(Item) /\ items # << >> /\ Len(items) = n + 1 /\ items[n + 1] = last
      /\ \A j \in 1 .. n : items[j] = item("visit", list[j], NoNode)
  BY <1>1, <1>2, <1>3
<1>5. \A j \in 1 .. n : /\ items[j].do = "visit" /\ items[j].node = list[j] /\ list[j] \in seen
                        /\ ~ NeedsNumber(items[j])
  <2> TAKE j \in 1 .. n
  <2>1. items[j] = item("visit", list[j], NoNode)
    BY <1>4
  <2>2. items[j].do = "visit" /\ items[j].node = list[j]
    <3>1. PICK i : i = items[j]
      OBVIOUS
    <3>2. PICK m : m = list[j]
      OBVIOUS
    <3>3. i = item("visit", m, NoNode)
      BY <2>1, <3>1, <3>2
    <3>4. i.do = "visit" /\ i.node = m
      BY <3>3, ItemFields
    <3> QED BY <3>1, <3>2, <3>4
  <2>3. j \in DOMAIN list
    BY DEF n
  <2> QED BY <2>2, <2>3 DEF NeedsNumber
<1>6. \A j \in 1 .. Len(items) : j \in 1 .. n \/ j = n + 1
  BY <1>1, <1>4
<1>7. \A j \in 1 .. Len(items) : items[j].node \in seen
  BY <1>4, <1>5, <1>6
<1>8. \A j \in 1 .. Len(items) - 1 : NeedsNumber(items[j + 1]) => YieldsNumber(ast, items[j])
  <2> TAKE j \in 1 .. Len(items) - 1
  <2>1. j \in 1 .. n /\ (j + 1 \in 1 .. n \/ j = n)
    BY <1>1, <1>4
  <2>2. CASE j + 1 \in 1 .. n
    BY <1>5, <2>2
  <2>3. CASE j = n
    <3>1. SUFFICES ASSUME NeedsNumber(last)
          PROVE  YieldsNumber(ast, items[j])
      BY <1>4, <2>3
    <3>2. j = 1 /\ ast.nodes[list[1]].kind \in Expression /\ HasNumber(ast, list[1])
      BY <2>3, <3>1 DEF n
    <3> QED BY <1>5, <2>1, <3>2 DEF YieldsNumber
  <2> QED BY <2>1, <2>2, <2>3
<1>9. ~ NeedsNumber(items[1])
  <2>1. CASE n = 0
    BY <1>4, <2>1 DEF n
  <2>2. CASE n # 0
    <3>1. 1 \in 1 .. n
      BY <1>1, <2>2
    <3> QED BY <1>5, <3>1
  <2> QED BY <2>1, <2>2
<1>10. /\ \A i \in DOMAIN kept' : kept'[i].type \in NumberTypes
       /\ outcome' \notin Unchecked
  BY DEF NumbersInv
<1> QED BY <1>4, <1>7, <1>8, <1>9, <1>10, NumbersStep

LEMMA NumbersThrow ==
  ASSUME GInv, NEW seen, NumbersInv(seen), ast' = ast, NEW reason, Throw(reason), reason \notin Unchecked
  PROVE  NumbersInv(seen)'
<1>1. todo' = todo /\ current_value_' = current_value_ /\ kept' = kept /\ outcome' = reason
  BY DEF Throw
<1> QED BY <1>1 DEF NumbersInv

(* What the checks of the tree say of the node at hand. *)

LEMMA CheckedHead ==
  ASSUME GInv, todo # << >>, NEW seen, Checked(ast, seen), NumbersInv(seen)
  PROVE  /\ here \in seen /\ here \in DOMAIN ast.nodes /\ here \in Nat /\ NoNode \in Nat
         /\ node_at(here) = ast.nodes[here] /\ todo[1].node = here
         /\ node_at(here).operands \in Seq(DOMAIN ast.nodes)
         /\ node_at(here).body \in Seq(DOMAIN ast.nodes)
         /\ node_at(here).orelse \in Seq(DOMAIN ast.nodes)
         /\ \A i \in DOMAIN node_at(here).operands :
              node_at(here).operands[i] \in seen /\ node_at(node_at(here).operands[i]).kind \in Expression
         /\ node_at(here).kind \in {"FunctionDeclaration", "If"} =>
              \A i \in DOMAIN node_at(here).body : node_at(here).body[i] \in seen
         /\ node_at(here).kind = "If" =>
              \A i \in DOMAIN node_at(here).orelse : node_at(here).orelse[i] \in seen
         /\ node_at(here).kind = "FunctionCall" =>
              \E f \in Functions(ast, node_at(here).name) :
                Len(ast.nodes[f].params) = Len(node_at(here).operands)
         /\ node_at(here).kind \in Calculates =>
              \A i \in DOMAIN node_at(here).operands : HasNumber(ast, node_at(here).operands[i])
<1>1. here \in DOMAIN ast.nodes /\ todo[1].node = here /\ 1 \in DOMAIN todo
  BY HeadFacts
<1>2. here \in seen
  BY <1>1 DEF NumbersInv
<1>3. node_at(here) = ast.nodes[here]
  BY DEF node_at
<1>4. DOMAIN ast.nodes \subseteq Nat /\ NoNode \in Nat
  BY <1>1, NodeFacts DEF GInv, NoNode
<1>5. /\ ast.nodes[here].operands \in Seq(DOMAIN ast.nodes)
      /\ ast.nodes[here].body \in Seq(DOMAIN ast.nodes)
      /\ ast.nodes[here].orelse \in Seq(DOMAIN ast.nodes)
  <2>1. /\ ast.nodes[here].operands \in Seq(Nat) /\ ast.nodes[here].body \in Seq(Nat)
        /\ ast.nodes[here].orelse \in Seq(Nat)
    BY <1>1, NodeFacts DEF GInv, AstNode
  <2> QED BY <1>1, <2>1, NodeFacts, SeqOf DEF GInv
<1>6. \A i \in DOMAIN ast.nodes[here].operands : ast.nodes[ast.nodes[here].operands[i]].kind \in Expression
  BY <1>1, NodeFacts DEF GInv
<1>7. /\ \A i \in DOMAIN ast.nodes[here].operands : ast.nodes[here].operands[i] \in seen
      /\ ast.nodes[here].kind \in {"FunctionDeclaration", "If"} =>
           \A i \in DOMAIN ast.nodes[here].body : ast.nodes[here].body[i] \in seen
      /\ ast.nodes[here].kind = "If" =>
           \A i \in DOMAIN ast.nodes[here].orelse : ast.nodes[here].orelse[i] \in seen
  BY <1>2 DEF Checked, Closed
<1>8. /\ ast.nodes[here].kind = "FunctionCall" =>
           \E f \in Functions(ast, ast.nodes[here].name) :
             Len(ast.nodes[f].params) = Len(ast.nodes[here].operands)
      /\ ast.nodes[here].kind \in Calculates =>
           \A i \in DOMAIN ast.nodes[here].operands : HasNumber(ast, ast.nodes[here].operands[i])
  BY <1>2 DEF Checked
<1> QED BY <1>1, <1>2, <1>3, <1>4, <1>5, <1>6, <1>7, <1>8 DEF node_at

\* Only one function has the name.
LEMMA TheFunction ==
  ASSUME NEW seen, Checked(ast, seen), NEW x \in Name, NEW f \in Functions(ast, x), NEW g \in Functions(ast, x)
  PROVE  f = g
BY DEF Checked

LEMMA AnItem ==
  ASSUME NEW n \in Nat, NEW entry \in Nat, NEW what,
         what \in {"visit", "keep", "binary_op", "unary_op", "bind", "store", "call", "return",
                   "branch", "end_then", "end_else", "end_function", "define_constant"}
  PROVE  /\ item(what, n, entry) \in Item
         /\ item(what, n, entry).do = what
         /\ item(what, n, entry).node = n
         /\ item(what, n, entry).entry = entry
BY DEF item, Item

(* One lemma per step. *)

LEMMA LiteralNumbers ==
  ASSUME GInv, NEW seen, Checked(ast, seen), NumbersInv(seen), visit_literal
  PROVE  NumbersInv(seen)'
<1>1. /\ Next_is("visit") /\ node_at(here).kind \in Literal /\ Goes_on(<< >>) /\ Tree
      /\ current_value_' = literal_value(here) /\ kept' = kept /\ outcome' = outcome
  BY DEF visit_literal
<1>2. literal_value(here).type \in NumberTypes
  BY <1>1, LiteralValues DEF NumberTypes
<1>3. todo # << >> /\ \A i \in DOMAIN kept' : kept'[i].type \in NumberTypes
  BY <1>1 DEF NumbersInv, Next_is
<1> QED BY <1>1, <1>2, <1>3, NumbersDone, SameTree

LEMMA KeepNumbers ==
  ASSUME GInv, NEW seen, Checked(ast, seen), NumbersInv(seen), keep_value
  PROVE  NumbersInv(seen)'
<1>1. /\ Next_is("keep") /\ Goes_on(<< >>) /\ Tree
      /\ kept' = Append(kept, current_value_) /\ current_value_' = current_value_ /\ outcome' = outcome
  BY DEF keep_value
<1>2. todo # << >> /\ todo[1].do = "keep" /\ current_value_ # NoValue
  BY <1>1, WorkFacts DEF Needs
<1>3. current_value_.type \in NumberTypes
  BY <1>2 DEF NumbersInv, NeedsNumber
<1>4. kept \in Seq(Value)
  BY <1>2, KeptFacts
<1>5. \A i \in DOMAIN kept' : kept'[i].type \in NumberTypes
  <2>1. current_value_ \in Value
    BY <1>2 DEF GInv, ValueInv
  <2>2. \A i \in DOMAIN kept' : (i \in DOMAIN kept /\ kept'[i] = kept[i]) \/ kept'[i] = current_value_
    BY <1>1, <1>4, <2>1
  <2> QED BY <1>3, <2>2 DEF NumbersInv
<1>6. ~ YieldsNumber(ast, todo[1])
  BY <1>2 DEF YieldsNumber
<1> QED BY <1>1, <1>2, <1>5, <1>6, NumbersDone, SameTree

LEMMA binary_opNumbers ==
  ASSUME GInv, NEW seen, Checked(ast, seen), NumbersInv(seen), binary_op
  PROVE  NumbersInv(seen)'
<1> DEFINE left == kept[Len(kept)]
           type == binary_op_type(node_at(here).op, left)
<1>1. Next_is("binary_op") /\ Tree
  BY DEF binary_op
<1>2. /\ todo # << >> /\ todo[1].do = "binary_op" /\ current_value_ # NoValue
  BY <1>1, WorkFacts DEF Needs
<1>3. Effect(ast, todo[1]) = -1
  BY <1>2 DEF Effect
<1>4. kept \in Seq(Value) /\ Len(kept) \in Nat /\ Len(kept) - 1 \in Nat
  BY <1>2, <1>3, KeptFacts
<1>5. Len(kept) \in DOMAIN kept /\ left \in Value /\ left # NoValue
  <2>1. Len(kept) \in 1 .. Len(kept)
    BY <1>4
  <2> QED BY <1>4, <2>1, NoValueIsNoValue
<1>6. type \in NumberTypes
  <2>1. left.type \in NumberTypes
    BY <1>5 DEF NumbersInv
  <2> HIDE DEF left
  <2> QED BY <2>1 DEF binary_op_type, NumberTypes, IntegerTy
<1>7. /\ kept' = SubSeq(kept, 1, Len(kept) - 1)
      /\ Goes_on(<< >>) /\ outcome' = outcome
      /\ current_value_' = constant(type) \/ current_value_' = computed(type)
  BY <1>2, <1>5 DEF binary_op
<1> HIDE DEF left, type
<1>8. current_value_'.type \in NumberTypes
  BY <1>6, <1>7 DEF constant, computed
<1>9. \A i \in DOMAIN kept' : kept'[i].type \in NumberTypes
  <2>1. \A i \in DOMAIN kept' : i \in DOMAIN kept /\ kept'[i] = kept[i]
    BY <1>4, <1>7
  <2> QED BY <2>1 DEF NumbersInv
<1> QED BY <1>1, <1>2, <1>7, <1>8, <1>9, NumbersDone, SameTree

LEMMA unary_opNumbers ==
  ASSUME GInv, NEW seen, Checked(ast, seen), NumbersInv(seen), unary_op
  PROVE  NumbersInv(seen)'
<1>1. Next_is("unary_op") /\ Tree
  BY DEF unary_op
<1>2. todo # << >> /\ todo[1].do = "unary_op" /\ current_value_ # NoValue
  BY <1>1, WorkFacts DEF Needs
<1>3. Goes_on(<< >>) /\ current_value_' = current_value_ /\ kept' = kept /\ outcome' = outcome
  BY <1>2 DEF unary_op
<1>4. current_value_.type \in NumberTypes /\ \A i \in DOMAIN kept' : kept'[i].type \in NumberTypes
  BY <1>2, <1>3 DEF NumbersInv, NeedsNumber
<1> QED BY <1>1, <1>2, <1>3, <1>4, NumbersDone, SameTree

\* What is done last to a variable, a function or a constant leaves no number.
LEMMA NumbersWork ==
  ASSUME GInv, NEW seen, NumbersInv(seen),
         NEW what \in {"bind", "store", "return", "end_then", "end_else", "end_function", "define_constant"},
         Next_is(what), Tree, Goes_on(<< >>), kept' = kept, outcome' = outcome
  PROVE  NumbersInv(seen)'
<1>1. todo # << >> /\ todo[1].do = what
  BY HeadFacts DEF Next_is
<1>2. ~ YieldsNumber(ast, todo[1])
  BY <1>1 DEF YieldsNumber
<1>3. \A i \in DOMAIN kept' : kept'[i].type \in NumberTypes
  BY DEF NumbersInv
<1> QED BY <1>1, <1>2, <1>3, NumbersDone, SameTree

LEMMA BindNumbers ==
  ASSUME GInv, NEW seen, Checked(ast, seen), NumbersInv(seen), bind_variable
  PROVE  NumbersInv(seen)'
<1>1. Next_is("bind") /\ Tree
  BY DEF bind_variable
<1>2. CASE Throw("no value")
  BY <1>1, <1>2, NumbersThrow, SameTree DEF Unchecked
<1>3. CASE ~ Throw("no value")
  <2>1. Goes_on(<< >>) /\ kept' = kept /\ outcome' = outcome
    BY <1>3 DEF bind_variable
  <2> QED BY <1>1, <2>1, NumbersWork
<1> QED BY <1>2, <1>3

LEMMA StoreNumbers ==
  ASSUME GInv, NEW seen, Checked(ast, seen), NumbersInv(seen), store_value
  PROVE  NumbersInv(seen)'
<1>1. Next_is("store") /\ Tree
  BY DEF store_value
<1>2. CASE Throw("no value")
  BY <1>1, <1>2, NumbersThrow, SameTree DEF Unchecked
<1>3. CASE ~ Throw("no value")
  <2>1. Goes_on(<< >>) /\ kept' = kept /\ outcome' = outcome
    BY <1>3 DEF store_value
  <2> QED BY <1>1, <2>1, NumbersWork
<1> QED BY <1>2, <1>3

LEMMA ReturnNumbers ==
  ASSUME GInv, NEW seen, Checked(ast, seen), NumbersInv(seen), return
  PROVE  NumbersInv(seen)'
<1>1. Next_is("return") /\ Tree
  BY DEF return
<1>2. CASE Throw("no value")
  BY <1>1, <1>2, NumbersThrow, SameTree DEF Unchecked
<1>3. CASE ~ Throw("no value")
  <2>1. Goes_on(<< >>) /\ kept' = kept /\ outcome' = outcome
    BY <1>3 DEF return
  <2> QED BY <1>1, <2>1, NumbersWork
<1> QED BY <1>2, <1>3

LEMMA ConstantNumbers ==
  ASSUME GInv, NEW seen, Checked(ast, seen), NumbersInv(seen), define_constant
  PROVE  NumbersInv(seen)'
<1>1. Next_is("define_constant") /\ Tree
  BY DEF define_constant
<1>2. CASE Throw("no value") \/ Throw("not a constant")
  BY <1>1, <1>2, NumbersThrow, SameTree DEF Unchecked
<1>3. CASE ~ (Throw("no value") \/ Throw("not a constant"))
  <2>1. Goes_on(<< >>) /\ kept' = kept /\ outcome' = outcome
    BY <1>3 DEF define_constant
  <2> QED BY <1>1, <2>1, NumbersWork
<1> QED BY <1>2, <1>3

LEMMA EndNumbers ==
  ASSUME GInv, NEW seen, Checked(ast, seen), NumbersInv(seen), end_else \/ end_function
  PROVE  NumbersInv(seen)'
<1>1. /\ Next_is("end_else") \/ Next_is("end_function")
      /\ Tree /\ Goes_on(<< >>) /\ kept' = kept /\ outcome' = outcome
  BY DEF end_else, end_function
<1> QED BY <1>1, NumbersWork

LEMMA LookupNumbers ==
  ASSUME GInv, NEW seen, Checked(ast, seen), NumbersInv(seen), visit_variable_lookup
  PROVE  NumbersInv(seen)'
<1> DEFINE d == named_values_[node_at(here).name]
<1>1. Next_is("visit") /\ node_at(here).kind = "VariableLookup" /\ Tree
  BY DEF visit_variable_lookup, Visits, Next_is
<1>2. CASE Throw("unknown variable") \/ Throw("undefined behaviour")
  BY <1>1, <1>2, NumbersThrow, SameTree DEF Unchecked
<1>3. CASE ~ (Throw("unknown variable") \/ Throw("undefined behaviour"))
  <2>1. /\ d # NoNode /\ Goes_on(<< >>) /\ kept' = kept /\ outcome' = outcome
        /\ current_value_' = computed(allocated_type(d))
    BY <1>3 DEF visit_variable_lookup
  <2>2. todo # << >> /\ current_function_ # NoNode /\ here \in DOMAIN ast.nodes
    BY <1>1, VisitingFacts, KindsVisited
  <2>3. d \in Storage(ast)
    <3>1. node_at(here).name \in Name
      BY <1>1, <2>2, KindFacts, NamedKinds DEF GInv, node_at
    <3> QED BY <2>1, <2>2, <3>1 DEF GInv, NamesInv
  <2>4. ast.nodes[d].type \in RefType
    BY <2>3, KindFacts DEF GInv, Storage, DeclaredTypes
  <2>5. current_value_'.type \in NumberTypes
    BY <2>1, <2>4, NamedTypes DEF NumberTypes, computed, allocated_type, node_at
  <2>6. \A i \in DOMAIN kept' : kept'[i].type \in NumberTypes
    BY <2>1 DEF NumbersInv
  <2> QED BY <1>1, <2>1, <2>2, <2>5, <2>6, NumbersDone, SameTree
<1> QED BY <1>2, <1>3

LEMMA CallNumbers ==
  ASSUME GInv, NEW seen, Checked(ast, seen), NumbersInv(seen), call
  PROVE  NumbersInv(seen)'
<1> DEFINE f == ast.nodes[entry_here]
           type == primitive_to_llvm_type(f.type)
<1>1. Next_is("call") /\ Tree
  BY DEF call
<1>2. /\ todo # << >> /\ todo[1].do = "call" /\ todo[1].entry = entry_here /\ Fits(ast, todo[1])
  BY <1>1, WorkFacts
<1>3. entry_here \in DOMAIN ast.nodes /\ f.kind = "FunctionDeclaration"
  BY <1>2 DEF Fits, Functions, is_function
<1>4. f.type \in RefType \cup {UNDEF}
  BY <1>3, KindFacts DEF GInv, DeclaredTypes
<1>5. CASE Throw("no value")
  BY <1>1, <1>5, NumbersThrow, SameTree DEF Unchecked
<1>6. CASE ~ Throw("no value")
  <2>1. /\ current_value_' = computed(type) /\ kept' = SubSeq(kept, 1, Len(kept) - Len(f.params))
        /\ Goes_on(<< >>) /\ outcome' = outcome
    BY <1>6 DEF call, node_at
  <2>2. YieldsNumber(ast, todo[1]) => current_value_'.type \in NumberTypes
    <3>1. YieldsNumber(ast, todo[1]) => f.type # UNDEF
      BY <1>2 DEF YieldsNumber
    <3> QED BY <1>4, <2>1, <3>1, NamedTypes DEF NumberTypes, computed
  <2>3. \A i \in DOMAIN kept' : kept'[i].type \in NumberTypes
    <3>1. Len(f.params) \in Nat
      BY <1>3, NodeFacts DEF GInv, AstNode
    <3>2. kept \in Seq(Value) /\ Len(kept) \in Nat
      BY <1>2, KeptFacts
    <3>3. \A i \in DOMAIN kept' : i \in DOMAIN kept /\ kept'[i] = kept[i]
      BY <2>1, <3>1, <3>2
    <3> QED BY <3>3 DEF NumbersInv
  <2> QED BY <1>1, <1>2, <2>1, <2>2, <2>3, NumbersDone, SameTree
<1> QED BY <1>5, <1>6

\* Visitors that evaluate at most one operand and do something with it.
LEMMA OperandNumbers ==
  ASSUME GInv, NEW seen, Checked(ast, seen), NumbersInv(seen), Next_is("visit"), Tree,
         NEW kind \in DOMAIN After \cup {"ConstantDeclaration"}, node_at(here).kind = kind,
         NEW what \in {"unary_op", "bind", "store", "return", "branch", "define_constant"},
         what = "unary_op" <=> kind = "UnaryOp", what = "branch" <=> kind = "If",
         NEW entry \in Nat,
         Goes_on(visit(node_at(here).operands) \o << item(what, here, entry) >>),
         kept' = kept, outcome' = outcome
  PROVE  NumbersInv(seen)'
<1> DEFINE list == node_at(here).operands
           last == item(what, here, entry)
<1>1. todo # << >> /\ todo[1].do = "visit"
  BY HeadFacts DEF Next_is
<1>2. /\ here \in seen /\ here \in Nat /\ here \in DOMAIN ast.nodes /\ todo[1].node = here
      /\ node_at(here) = ast.nodes[here]
      /\ list \in Seq(DOMAIN ast.nodes) /\ \A i \in DOMAIN list : list[i] \in seen
      /\ \A i \in DOMAIN list : node_at(list[i]).kind \in Expression
      /\ kind \in Calculates => \A i \in DOMAIN list : HasNumber(ast, list[i])
  BY <1>1, CheckedHead
<1>3. last \in Item /\ last.node = here /\ last.do = what
  BY <1>2, AnItem
<1>4. NeedsNumber(last) =>
        Len(list) = 1 /\ ast.nodes[list[1]].kind \in Expression /\ HasNumber(ast, list[1])
  <2>1. SUFFICES ASSUME NeedsNumber(last)
        PROVE  Len(list) = 1 /\ ast.nodes[list[1]].kind \in Expression /\ HasNumber(ast, list[1])
    OBVIOUS
  <2>2. kind \in {"UnaryOp", "If"}
    BY <1>3, <2>1 DEF NeedsNumber
  <2>3. Len(list) = 1
    BY <1>2, <2>2, KindFacts DEF GInv, Operands
  <2>4. 1 \in DOMAIN list
    BY <1>2, <2>3
  <2> QED BY <1>2, <2>2, <2>3, <2>4 DEF Calculates, node_at
<1>5. YieldsNumber(ast, todo[1]) => YieldsNumber(ast, last)
  <2>1. kind \in Expression => kind = "UnaryOp"
    BY Kinds DEF After, Expression, Literal
  <2> QED BY <1>1, <1>2, <1>3, <2>1 DEF YieldsNumber
<1> HIDE DEF last
<1>6. PICK items : items = visit(list) \o << last >>
  OBVIOUS
<1>7. Goes_on(items)
  BY <1>6 DEF last
<1> HIDE DEF list
<1> QED BY <1>1, <1>2, <1>3, <1>4, <1>5, <1>6, <1>7, NumbersList, SameTree

LEMMA OperandVisits ==
  ASSUME GInv, NEW seen, Checked(ast, seen), NumbersInv(seen),
         \/ visit_unary_op
         \/ visit_variable_declaration
         \/ visit_function_return
         \/ visit_if
         \/ visit_constant_declaration
  PROVE  NumbersInv(seen)'
<1>1. NoNode \in Nat /\ DOMAIN After = {"UnaryOp", "VariableDeclaration", "VariableAssignment", "FunctionReturn", "If"}
  BY KindsVisited DEF NoNode
<1>2. /\ Next_is("visit") /\ Tree /\ kept' = kept /\ outcome' = outcome
      /\ \/ /\ node_at(here).kind = "UnaryOp"
            /\ Goes_on(visit(node_at(here).operands) \o << item("unary_op", here, NoNode) >>)
         \/ /\ node_at(here).kind = "VariableDeclaration"
            /\ Goes_on(visit(node_at(here).operands) \o << item("bind", here, NoNode) >>)
         \/ /\ node_at(here).kind = "FunctionReturn"
            /\ Goes_on(visit(node_at(here).operands) \o << item("return", here, NoNode) >>)
         \/ /\ node_at(here).kind = "If"
            /\ Goes_on(visit(node_at(here).operands) \o << item("branch", here, NoNode) >>)
         \/ /\ node_at(here).kind = "ConstantDeclaration"
            /\ Goes_on(visit(node_at(here).operands) \o << item("define_constant", here, NoNode) >>)
  BY DEF visit_unary_op, visit_variable_declaration, visit_function_return, visit_if,
         visit_constant_declaration, Visits, Next_is
<1> QED BY <1>1, <1>2, OperandNumbers

LEMMA AssignmentNumbers ==
  ASSUME GInv, NEW seen, Checked(ast, seen), NumbersInv(seen), visit_variable_assignment
  PROVE  NumbersInv(seen)'
<1> DEFINE d == named_values_[node_at(here).name]
<1>1. Next_is("visit") /\ node_at(here).kind = "VariableAssignment" /\ Tree
  BY DEF visit_variable_assignment, Visits, Next_is
<1>2. CASE Throw("unknown variable")
  BY <1>1, <1>2, NumbersThrow, SameTree DEF Unchecked
<1>3. CASE ~ Throw("unknown variable")
  <2>1. /\ d # NoNode /\ kept' = kept /\ outcome' = outcome
        /\ Goes_on(visit(node_at(here).operands) \o << item("store", here, d) >>)
    BY <1>3 DEF visit_variable_assignment
  <2>2. todo # << >> /\ current_function_ # NoNode /\ here \in DOMAIN ast.nodes
    BY <1>1, VisitingFacts, KindsVisited
  <2>3. d \in Storage(ast)
    <3>1. node_at(here).name \in Name
      BY <1>1, <2>2, KindFacts, NamedKinds DEF GInv, node_at
    <3> QED BY <2>1, <2>2, <3>1 DEF GInv, NamesInv
  <2>4. d \in Nat
    BY <2>3, StorageFacts
  <2> HIDE DEF d
  <2> QED BY <1>1, <2>1, <2>4, OperandNumbers, KindsVisited
<1> QED BY <1>2, <1>3

LEMMA BinaryNumbers ==
  ASSUME GInv, NEW seen, Checked(ast, seen), NumbersInv(seen), visit_binary_op
  PROVE  NumbersInv(seen)'
<1> DEFINE list == node_at(here).operands
           left == item("visit", list[1], NoNode)
           right == item("visit", list[2], NoNode)
           keep == item("keep", here, NoNode)
           last == item("binary_op", here, NoNode)
           items == << left, keep, right, last >>
<1>1. /\ Next_is("visit") /\ node_at(here).kind = "BinaryOp" /\ Tree /\ kept' = kept /\ outcome' = outcome
      /\ Goes_on(<< visit(list)[1], keep, visit(list)[2], last >>)
  BY DEF visit_binary_op, Visits, Next_is
<1>2. todo # << >>
  BY <1>1 DEF Next_is
<1>3. /\ here \in seen /\ here \in Nat /\ here \in DOMAIN ast.nodes /\ NoNode \in Nat
      /\ node_at(here) = ast.nodes[here]
      /\ list \in Seq(DOMAIN ast.nodes)
      /\ \A i \in DOMAIN list : list[i] \in seen /\ node_at(list[i]).kind \in Expression
      /\ \A i \in DOMAIN list : HasNumber(ast, list[i])
  BY <1>1, <1>2, CheckedHead DEF Calculates
<1>4. Len(list) = 2
  BY <1>1, <1>3, KindFacts DEF GInv, Operands
<1>5. 1 \in DOMAIN list /\ 2 \in DOMAIN list
  BY <1>3, <1>4
<1>6. visit(list)[1] = left /\ visit(list)[2] = right
  BY <1>5 DEF visit
<1>7. DOMAIN ast.nodes \subseteq Nat
  BY <1>3, NodeFacts DEF GInv
<1>8. /\ left \in Item /\ left.do = "visit" /\ left.node = list[1]
      /\ right \in Item /\ right.do = "visit" /\ right.node = list[2]
      /\ keep \in Item /\ keep.do = "keep" /\ keep.node = here
      /\ last \in Item /\ last.do = "binary_op" /\ last.node = here
  <2>1. list[1] \in Nat /\ list[2] \in Nat
    BY <1>3, <1>5, <1>7
  <2> QED BY SMTT(30), <1>3, <2>1, AnItem
<1>9. YieldsNumber(ast, left) /\ YieldsNumber(ast, right) /\ YieldsNumber(ast, last)
  BY <1>3, <1>5, <1>8 DEF YieldsNumber, node_at
<1>10. ~ NeedsNumber(left) /\ ~ NeedsNumber(right)
  BY <1>8 DEF NeedsNumber
<1>11. left.node \in seen /\ right.node \in seen /\ keep.node \in seen /\ last.node \in seen
  BY <1>3, <1>5, <1>8
<1> HIDE DEF left, right, keep, last
<1>12. /\ items \in Seq(Item) /\ items # << >> /\ Len(items) = 4
       /\ items[1] = left /\ items[2] = keep /\ items[3] = right /\ items[4] = last
  BY <1>8
<1>13. Goes_on(items)
  BY <1>1, <1>6
<1> HIDE DEF items
<1>14. \A j \in 1 .. Len(items) : items[j].node \in seen
  BY <1>11, <1>12
<1>15. \A j \in 1 .. Len(items) - 1 : NeedsNumber(items[j + 1]) => YieldsNumber(ast, items[j])
  <2> TAKE j \in 1 .. Len(items) - 1
  <2>1. j = 1 \/ j = 2 \/ j = 3
    BY <1>12
  <2> QED BY <1>9, <1>10, <1>12, <2>1
<1>16. /\ \A i \in DOMAIN kept' : kept'[i].type \in NumberTypes
       /\ outcome' \notin Unchecked
  BY <1>1 DEF NumbersInv
<1> QED BY <1>1, <1>2, <1>9, <1>10, <1>12, <1>13, <1>14, <1>15, <1>16, NumbersStep, SameTree

\* The arguments of a call, each with keep after it, and the call.
LEMMA ArgumentNumbers ==
  ASSUME GInv, todo # << >>, NEW seen, Checked(ast, seen), NumbersInv(seen), ast' = ast,
         todo[1].do = "visit", node_at(here).kind = "FunctionCall",
         NEW f \in Functions(ast, node_at(here).name),
         NEW items, KeepsEach(items, Item, visit(node_at(here).operands), Len(node_at(here).operands),
                              item("keep", here, NoNode), item("call", here, f)),
         Goes_on(items), kept' = kept, outcome' = outcome
  PROVE  NumbersInv(seen)'
<1> DEFINE list == node_at(here).operands
           n == Len(list)
           m == 2 * n
           keep == item("keep", here, NoNode)
           last == item("call", here, f)
<1>1. /\ here \in seen /\ here \in Nat /\ here \in DOMAIN ast.nodes /\ NoNode \in Nat
      /\ node_at(here) = ast.nodes[here] /\ todo[1].node = here
      /\ list \in Seq(DOMAIN ast.nodes)
      /\ \A i \in DOMAIN list : list[i] \in seen /\ node_at(list[i]).kind \in Expression
      /\ \A i \in DOMAIN list : HasNumber(ast, list[i])
  BY CheckedHead DEF Calculates
<1>2. f \in Nat
  BY <1>1, NodeFacts DEF GInv, Functions
<1>3. /\ keep.do = "keep" /\ keep.node = here
      /\ last.do = "call" /\ last.node = here /\ last.entry = f
  BY <1>1, <1>2, AnItem
<1>4. /\ items \in Seq(Item) /\ Len(items) = m + 1 /\ items[m + 1] = last
      /\ \A j \in 1 .. m : items[j] = IF j % 2 = 1 THEN visit(list)[(j + 1) \div 2] ELSE keep
  BY DEF KeepsEach
<1>5. n \in Nat /\ m \in Nat /\ m = 2 * n
  BY <1>1
<1>6. DOMAIN list = 1 .. n
  BY <1>1
<1> HIDE DEF list, n, m, keep, last
<1>7. \A j \in 1 .. m : j % 2 = 1 =>
        items[j].node \in seen /\ ~ NeedsNumber(items[j]) /\ YieldsNumber(ast, items[j])
  <2> SUFFICES ASSUME NEW j \in 1 .. m, j % 2 = 1
      PROVE  items[j].node \in seen /\ ~ NeedsNumber(items[j]) /\ YieldsNumber(ast, items[j])
    OBVIOUS
  <2>1. (j + 1) \div 2 \in 1 .. n
    BY <1>5, OddAndEven
  <2>2. PICK i \in DOMAIN list : i = (j + 1) \div 2
    BY <1>6, <2>1
  <2>3. items[j] = item("visit", list[i], NoNode)
    BY <1>4, <2>2 DEF visit
  <2>4. items[j].do = "visit" /\ items[j].node = list[i]
    BY <2>3 DEF item
  <2> QED BY <1>1, <2>4 DEF NeedsNumber, YieldsNumber, node_at
<1>8. \A j \in 1 .. m : j % 2 # 1 => items[j] = keep
  BY <1>4
<1>9. \A j \in 1 .. Len(items) : j \in 1 .. m \/ j = m + 1
  BY <1>4, <1>5
<1>10. \A j \in 1 .. Len(items) : items[j].node \in seen
  BY <1>1, <1>3, <1>4, <1>7, <1>8, <1>9
<1>11. ~ NeedsNumber(last)
  BY <1>3 DEF NeedsNumber
<1>12. \A j \in 1 .. Len(items) - 1 : NeedsNumber(items[j + 1]) => YieldsNumber(ast, items[j])
  <2> TAKE j \in 1 .. Len(items) - 1
  <2>1. j \in 1 .. m /\ j \in Nat
    BY <1>4, <1>5
  <2>2. CASE j % 2 = 1
    BY <1>7, <2>1, <2>2
  <2>3. CASE j % 2 # 1 /\ j = m
    BY <1>4, <1>11, <2>3
  <2>4. CASE j % 2 # 1 /\ j # m
    <3>1. j + 1 \in 1 .. m
      BY <1>5, <2>1, <2>4, CallPositions
    <3>2. (j + 1) % 2 = 1
      BY <2>1, <2>4, NextIsOdd
    <3> QED BY <1>7, <3>1, <3>2
  <2> QED BY <2>2, <2>3, <2>4
<1>13. ~ NeedsNumber(items[1])
  <2>1. CASE n = 0
    <3>1. m + 1 = 1
      BY <1>5, <2>1
    <3> QED BY <1>4, <1>11, <3>1
  <2>2. CASE n # 0
    <3>1. 1 \in 1 .. m /\ 1 % 2 = 1
      BY <1>5, <2>2
    <3> QED BY <1>7, <3>1
  <2> QED BY <2>1, <2>2
<1>14. YieldsNumber(ast, todo[1]) => YieldsNumber(ast, items[Len(items)])
  <2>1. SUFFICES ASSUME YieldsNumber(ast, todo[1])
        PROVE  YieldsNumber(ast, last)
    BY <1>4
  <2>2. PICK g \in Functions(ast, node_at(here).name) : ast.nodes[g].type # UNDEF
    BY <1>1, <2>1 DEF YieldsNumber, HasNumber
  <2>3. node_at(here).name \in Name
    BY <1>1, KindFacts, NamedKinds DEF GInv
  <2>4. f = g
    BY <2>2, <2>3, TheFunction
  <2> QED BY <1>3, <2>2, <2>4 DEF YieldsNumber
<1>15. /\ \A i \in DOMAIN kept' : kept'[i].type \in NumberTypes
       /\ outcome' \notin Unchecked
  BY DEF NumbersInv
<1>16. items # << >>
  BY <1>4, <1>5
<1> QED BY <1>4, <1>10, <1>12, <1>13, <1>14, <1>15, <1>16, NumbersStep

LEMMA VisitCallNumbers ==
  ASSUME GInv, NEW seen, Checked(ast, seen), NumbersInv(seen), visit_function_call
  PROVE  NumbersInv(seen)'
<1> DEFINE f == functions_[node_at(here).name]
           args == visit(node_at(here).operands)
           n == Len(node_at(here).operands)
           keep == item("keep", here, NoNode)
           last == item("call", here, f)
<1>1. Next_is("visit") /\ node_at(here).kind = "FunctionCall" /\ Tree
  BY DEF visit_function_call, Visits, Next_is
<1>2. /\ todo # << >> /\ todo[1].do = "visit" /\ here \in DOMAIN ast.nodes
  BY <1>1, VisitingFacts, KindsVisited
<1>3. node_at(here).name \in Name
  BY <1>1, <1>2, KindFacts, NamedKinds DEF GInv, node_at
<1>4. f \in {NoNode} \cup Functions(ast, node_at(here).name)
  BY <1>2, <1>3 DEF GInv, NamesInv, Symbol
<1>5. /\ here \in Nat /\ NoNode \in Nat
      /\ node_at(here).operands \in Seq(DOMAIN ast.nodes)
      /\ \E g \in Functions(ast, node_at(here).name) : Len(ast.nodes[g].params) = n
  BY <1>1, <1>2, CheckedHead
<1>6. args \in Seq(Item) /\ Len(args) = n /\ n \in Nat
  BY <1>5, VisitList DEF GInv
<1>7. CASE f = NoNode
  <2>1. Throw("unknown function")
    BY <1>7 DEF visit_function_call
  <2> QED BY <1>1, <1>7, <2>1, NumbersThrow, SameTree DEF Unchecked
<1>8. CASE f # NoNode
  <2>1. f \in Functions(ast, node_at(here).name)
    BY <1>4, <1>8
  <2>2. Len(args) = Len(node_at(f).params)
    BY <1>3, <1>5, <1>6, <2>1, TheFunction DEF node_at
  <2>3. /\ Goes_on(Kept_each(args, Len(args), keep) \o << last >>)
        /\ kept' = kept /\ outcome' = outcome
    BY <1>8, <2>2 DEF visit_function_call, Kept_each
  <2>4. f \in Nat
    BY <1>2, <2>1, NodeFacts DEF GInv, Functions
  <2>5. keep \in Item /\ last \in Item
    BY <1>5, <2>4, AnItem
  <2> HIDE DEF f, args, n, keep, last
  <2>6. PICK items : items = Kept_each(args, n, keep) \o << last >>
    OBVIOUS
  <2>7. Goes_on(items)
    BY <1>6, <2>3, <2>6
  <2>8. KeepsEach(items, Item, args, n, keep, last)
    BY <1>6, <2>5, <2>6, CallSequence
  <2> QED BY <1>1, <1>2, <2>1, <2>3, <2>7, <2>8, ArgumentNumbers, SameTree DEF args, n, keep, last
<1> QED BY <1>7, <1>8

\* A list of statements, and what ends it.
LEMMA BodyNumbers ==
  ASSUME GInv, todo # << >>, NEW seen, NumbersInv(seen), ast' = ast,
         NEW list \in Seq(DOMAIN ast.nodes), \A i \in DOMAIN list : list[i] \in seen,
         NEW what \in {"end_then", "end_else", "end_function"}, NEW entry \in Nat,
         here \in seen, here \in Nat,
         Goes_on(visit(list) \o << item(what, here, entry) >>),
         ~ YieldsNumber(ast, todo[1]), kept' = kept, outcome' = outcome
  PROVE  NumbersInv(seen)'
<1> DEFINE last == item(what, here, entry)
<1>1. last \in Item /\ last.node = here /\ last.do = what
  BY AnItem
<1>2. ~ NeedsNumber(last)
  BY <1>1 DEF NeedsNumber
<1> HIDE DEF last
<1>3. PICK items : items = visit(list) \o << last >>
  OBVIOUS
<1>4. Goes_on(items)
  BY <1>3 DEF last
<1> QED BY <1>1, <1>2, <1>3, <1>4, NumbersList

LEMMA FunctionNumbers ==
  ASSUME GInv, NEW seen, Checked(ast, seen), NumbersInv(seen), visit_function_declaration
  PROVE  NumbersInv(seen)'
<1>1. /\ Next_is("visit") /\ node_at(here).kind = "FunctionDeclaration" /\ Tree
      /\ Goes_on(visit(node_at(here).body) \o << item("end_function", here, NoNode) >>)
      /\ kept' = kept /\ outcome' = outcome
  BY DEF visit_function_declaration, Visits, Next_is
<1>2. todo # << >> /\ todo[1].do = "visit"
  BY <1>1, HeadFacts DEF Next_is
<1>3. /\ here \in seen /\ here \in Nat /\ NoNode \in Nat /\ todo[1].node = here
      /\ node_at(here) = ast.nodes[here] /\ node_at(here).body \in Seq(DOMAIN ast.nodes)
      /\ \A i \in DOMAIN node_at(here).body : node_at(here).body[i] \in seen
  BY <1>1, <1>2, CheckedHead
<1>4. ~ YieldsNumber(ast, todo[1])
  BY <1>1, <1>2, <1>3 DEF YieldsNumber, Expression, Literal
<1> QED BY <1>1, <1>2, <1>3, <1>4, BodyNumbers, SameTree

LEMMA BranchNumbers ==
  ASSUME GInv, NEW seen, Checked(ast, seen), NumbersInv(seen), branch
  PROVE  NumbersInv(seen)'
<1>1. Next_is("branch") /\ Tree
  BY DEF branch
<1>2. todo # << >> /\ todo[1].do = "branch" /\ Fits(ast, todo[1]) /\ todo[1].node = here
  BY <1>1, WorkFacts
<1>3. current_value_.type \in IntegerTy \cup FloatingPointTy
  BY <1>2 DEF NumbersInv, NeedsNumber, NumberTypes
<1>4. CASE Throw("no value")
  BY <1>1, <1>4, NumbersThrow, SameTree DEF Unchecked
<1>5. CASE ~ Throw("no value")
  <2>1. /\ Goes_on(visit(node_at(here).body) \o << item("end_then", here, Len(blocks) + 2) >>)
        /\ kept' = kept /\ outcome' = outcome
    BY <1>3, <1>5 DEF branch
  <2>2. /\ here \in seen /\ here \in Nat
        /\ node_at(here) = ast.nodes[here] /\ node_at(here).body \in Seq(DOMAIN ast.nodes)
        /\ node_at(here).kind = "If" => \A i \in DOMAIN node_at(here).body : node_at(here).body[i] \in seen
    BY <1>2, CheckedHead
  <2>3. node_at(here).kind = "If"
    BY <1>2, <2>2 DEF Fits
  <2>4. Len(blocks) + 2 \in Nat
    BY DEF GInv, BlocksInv
  <2>5. ~ YieldsNumber(ast, todo[1])
    BY <1>2 DEF YieldsNumber
  <2> QED BY <1>1, <1>2, <2>1, <2>2, <2>3, <2>4, <2>5, BodyNumbers, SameTree
<1> QED BY <1>4, <1>5

LEMMA ThenNumbers ==
  ASSUME GInv, NEW seen, Checked(ast, seen), NumbersInv(seen), end_then
  PROVE  NumbersInv(seen)'
<1>1. Next_is("end_then") /\ Tree /\ kept' = kept /\ outcome' = outcome
  BY DEF end_then
<1>2. /\ todo # << >> /\ todo[1].do = "end_then" /\ Fits(ast, todo[1]) /\ todo[1].node = here
      /\ todo[1].entry = entry_here
  BY <1>1, WorkFacts
<1>3. CASE Goes_on(visit(node_at(here).orelse) \o << item("end_else", here, entry_here) >>)
  <2>1. /\ here \in seen /\ here \in Nat
        /\ node_at(here) = ast.nodes[here] /\ node_at(here).orelse \in Seq(DOMAIN ast.nodes)
        /\ node_at(here).kind = "If" => \A i \in DOMAIN node_at(here).orelse : node_at(here).orelse[i] \in seen
    BY <1>2, CheckedHead
  <2>2. node_at(here).kind = "If" /\ entry_here \in Nat
    BY <1>2, <2>1 DEF Fits, Item
  <2>3. ~ YieldsNumber(ast, todo[1])
    BY <1>2 DEF YieldsNumber
  <2> QED BY <1>1, <1>2, <1>3, <2>1, <2>2, <2>3, BodyNumbers, SameTree
<1>4. CASE Goes_on(<< >>)
  BY <1>1, <1>4, NumbersWork
<1> QED BY <1>3, <1>4 DEF end_then

LEMMA StartNumbers ==
  ASSUME GInv, NEW seen, Checked(ast, seen), NumbersInv(seen), generate
  PROVE  NumbersInv(seen)'
<1>1. /\ todo' = visit(ast.top) /\ kept' = kept /\ outcome' = "running" /\ ast' = ast
  BY DEF generate, Tree
<1>2. \A j \in DOMAIN todo' : todo'[j].do = "visit" /\ todo'[j].node = ast.top[j] /\ j \in DOMAIN ast.top
  BY <1>1 DEF visit, item
<1>3. \A j \in DOMAIN ast.top : ast.top[j] \in seen
  BY DEF Checked, Closed
<1>4. DOMAIN todo' = 1 .. Len(todo') /\ Len(todo') \in Nat
  <2>1. ast.top \in Seq(DOMAIN ast.nodes)
    BY TopFacts, SeqOf DEF GInv, IsAst
  <2>2. visit(ast.top) \in Seq(Item)
    BY <2>1, VisitList DEF GInv
  <2> QED BY <1>1, <2>2
<1>5. \A j \in DOMAIN todo' : ~ NeedsNumber(todo'[j])
  BY <1>2 DEF NeedsNumber
<1>6. \A j \in 1 .. Len(todo') - 1 : j + 1 \in DOMAIN todo'
  BY <1>4
<1>7. todo' # << >> => 1 \in DOMAIN todo'
  BY <1>1, <1>4
<1>8. \A i \in DOMAIN kept' : kept'[i].type \in NumberTypes
  BY <1>1 DEF NumbersInv
<1> QED BY <1>1, <1>2, <1>3, <1>5, <1>6, <1>7, <1>8 DEF NumbersInv, Unchecked

LEMMA FinishNumbers ==
  ASSUME GInv, NEW seen, Checked(ast, seen), NumbersInv(seen), create_main_wrapper \/ verify_module
  PROVE  NumbersInv(seen)'
<1>1. /\ todo' = todo /\ kept' = kept /\ ast' = ast /\ current_value_' = current_value_
      /\ outcome' \in {outcome, "verified", "verification failed"}
  BY DEF create_main_wrapper, verify_module, Tree
<1> QED BY <1>1 DEF NumbersInv, Unchecked


\* Before generate nothing is to be done, and nothing is kept.
LEMMA NumbersIdle ==
  ASSUME NEW seen, todo = << >>, kept = << >>, outcome = "idle"
  PROVE  NumbersInv(seen)
BY DEF NumbersInv, Unchecked

(***************************************************************************)
(* Whatever step the generator makes on a tree whose nodes, as far as it   *)
(* visits them, were checked: it has numbers where it needs them.          *)
(***************************************************************************)
LEMMA NumbersStay ==
  ASSUME GInv, NEW seen, Checked(ast, seen), NumbersInv(seen), [Next]_vars
  PROVE  NumbersInv(seen)'
<1>1. CASE UNCHANGED vars
  BY <1>1 DEF vars, NumbersInv
<1>2. CASE Next
  BY <1>2, StartNumbers, LiteralNumbers, KeepNumbers, BinaryNumbers, binary_opNumbers, unary_opNumbers,
     OperandVisits, BindNumbers, AssignmentNumbers, StoreNumbers, LookupNumbers, FunctionNumbers,
     EndNumbers, VisitCallNumbers, CallNumbers, ReturnNumbers, BranchNumbers, ThenNumbers,
     ConstantNumbers, FinishNumbers DEF Next
<1> QED BY <1>1, <1>2

(***************************************************************************)
(* A generator that is given a tree some set of whose nodes was checked    *)
(* never finds a call with the wrong number of arguments, nor a condition  *)
(* that is not a number.                                                   *)
(***************************************************************************)
THEOREM NeverUnchecked ==
  IsAst(ast) /\ (\E seen : Checked(ast, seen)) /\ Init /\ [][Next]_vars => [](outcome \notin Unchecked)
<1> DEFINE Inv == GInv /\ \E seen : Checked(ast, seen) /\ NumbersInv(seen)
<1>1. IsAst(ast) /\ (\E seen : Checked(ast, seen)) /\ Init => Inv
  BY Initial, NumbersIdle DEF Init
<1>2. Inv /\ [Next]_vars => Inv'
  <2> SUFFICES ASSUME Inv, [Next]_vars
      PROVE  Inv'
    OBVIOUS
  <2>1. PICK seen : Checked(ast, seen) /\ NumbersInv(seen)
    OBVIOUS
  <2>2. NumbersInv(seen)'
    BY <2>1, NumbersStay
  <2>3. ast' = ast
    BY TreeStays DEF vars
  <2>4. Checked(ast, seen)'
    BY <2>1, <2>3
  <2>5. GInv'
    BY Inductive
  <2> QED BY <2>2, <2>4, <2>5
<1>3. Inv => outcome \notin Unchecked
  BY DEF NumbersInv
<1> HIDE DEF Inv
<1> QED BY <1>1, <1>2, <1>3, PTL

-------------------------------------------------------------------------------
(***************************************************************************)
(* What the generator finds for a name.  What is left to do covers the     *)
(* nodes behind those that are done, one behind the other: an item begins  *)
(* behind node a and ends with node z.                                     *)
(***************************************************************************)

Covers(tree, i, a, z) ==
    LET first == FirstOf(tree)
        node == tree.nodes[i.node]
    IN  CASE i.do = "visit"    -> first[i.node] = a + 1 /\ z = i.node
          [] i.do = "keep"     -> z = a
          [] i.do = "branch"   -> /\ a < i.node /\ z = i.node
                                  /\ Spans(first, node.body \o node.orelse, a, i.node - 1)
          [] i.do = "end_then" -> /\ a < i.node /\ z = i.node
                                  /\ Spans(first, node.orelse, a, i.node - 1)
          [] OTHER             -> i.node = a + 1 /\ z = i.node

\* Item j of s begins behind node b[j].
Tiled(tree, b, s) ==
    /\ b \in [1 .. Len(s) + 1 -> Nat]
    /\ \A j \in 1 .. Len(s) : Covers(tree, s[j], b[j], b[j + 1])

\* The storage of x in the function f, in the nodes up to c.
UpTo(tree, f, x, c) ==
    {d \in Storage(tree) : tree.nodes[d].name = x /\ Under(tree, d, f) /\ d <= c}

Latest(S, d) == IF S = {} THEN d = NoNode ELSE d \in S /\ \A e \in S : e <= d

\* A name has the latest storage of the function it is in that is done, and a
\* function no name finds is not done.
Binds(c) ==
    current_function_ # NoNode =>
      /\ FirstOf(ast)[current_function_] <= c + 1
      /\ \A x \in Name : Latest(UpTo(ast, current_function_, x, c), named_values_[x])

Finds(c) == \A x \in Symbol : functions_[x] = NoNode => \A f \in Functions(ast, x) : c < f

NamingInv == \E b : Tiled(ast, b, todo) /\ Binds(b[1]) /\ Finds(b[1])

-------------------------------------------------------------------------------

LEMMA CoversGrow ==
  ASSUME NEW tree, IsAst(tree), NEW i, i.node \in DOMAIN tree.nodes, NEW a \in Nat, NEW z \in Nat,
         Covers(tree, i, a, z)
  PROVE  a <= z
<1>1. FirstOf(tree)[i.node] \in 1 .. i.node /\ i.node \in Nat
  BY TreeFacts
<1>2. \/ FirstOf(tree)[i.node] = a + 1 /\ z = i.node
      \/ z = a
      \/ a < i.node /\ z = i.node
      \/ i.node = a + 1 /\ z = i.node
  BY DEF Covers
<1> QED BY <1>1, <1>2

LEMMA TiledStep ==
  ASSUME GInv, todo # << >>, ast' = ast, NEW items \in Seq(Item), Goes_on(items),
         NEW b, Tiled(ast, b, todo), NEW e, Tiled(ast, e, items), e[Len(items) + 1] = b[2]
  PROVE  \E d : Tiled(ast, d, todo)' /\ d[1] = e[1]
<1> DEFINE n == Len(items)
<1>1. /\ todo' \in Seq(Item)
      /\ Len(todo') = n + Len(todo) - 1
      /\ \A j \in 1 .. n : todo'[j] = items[j]
      /\ \A j \in 2 .. Len(todo) : todo'[n + j - 1] = todo[j]
  BY NewTodo
<1>2. n \in Nat /\ Len(todo) \in Nat \ {0}
  BY HeadFacts
<1> DEFINE f == [j \in 1 .. Len(todo') + 1 |-> IF j \in 1 .. n + 1 THEN e[j] ELSE b[j - n + 1]]
<1>4. /\ e \in [1 .. n + 1 -> Nat]
      /\ \A j \in 1 .. n : Covers(ast, items[j], e[j], e[j + 1])
      /\ b \in [1 .. Len(todo) + 1 -> Nat]
      /\ \A j \in 1 .. Len(todo) : Covers(ast, todo[j], b[j], b[j + 1])
  BY DEF Tiled
<1>6. f \in [1 .. Len(todo') + 1 -> Nat]
  <2>1. \A j \in 1 .. Len(todo') + 1 : j \notin 1 .. n + 1 => j - n + 1 \in 1 .. Len(todo) + 1
    BY <1>1, <1>2
  <2> QED BY <1>4, <2>1
<1>7. f[1] = e[1]
  BY <1>1, <1>2, <1>4
<1>8. \A j \in 1 .. Len(todo') : Covers(ast, todo'[j], f[j], f[j + 1])
  <2> TAKE j \in 1 .. Len(todo')
  <2>0. j \in 1 .. Len(todo') + 1 /\ j + 1 \in 1 .. Len(todo') + 1
    BY <1>1, <1>2
  <2>1. CASE j \in 1 .. n
    <3>1. f[j] = e[j] /\ f[j + 1] = e[j + 1]
      BY <1>2, <2>0, <2>1
    <3> QED BY <1>1, <1>4, <2>1, <3>1
  <2>2. CASE j \notin 1 .. n
    <3>0. j \in Nat /\ j > n /\ j <= n + Len(todo) - 1
      BY <1>1, <1>2, <2>2
    <3>1. /\ j - n + 1 \in 2 .. Len(todo) /\ n + (j - n + 1) - 1 = j
          /\ j - n + 1 \in 1 .. Len(todo) /\ (j - n + 1) + 1 = (j + 1) - n + 1
          /\ j + 1 \notin 1 .. n + 1
      <4> HIDE DEF n
      <4> QED BY <1>2, <3>0
    <3>2. todo'[n + (j - n + 1) - 1] = todo[j - n + 1]
      BY <1>1, <3>1
    <3>3. f[j] = b[j - n + 1]
      <4>1. CASE j = n + 1
        BY <1>2, <2>0, <4>1
      <4>2. CASE j # n + 1
        BY <1>2, <2>0, <2>2, <4>2
      <4> QED BY <4>1, <4>2
    <3>4. f[j + 1] = b[(j + 1) - n + 1]
      BY <2>0, <3>1
    <3>5. Covers(ast, todo[j - n + 1], b[j - n + 1], b[(j - n + 1) + 1])
      BY <1>4, <3>1
    <3> HIDE DEF f
    <3> QED BY <3>1, <3>2, <3>3, <3>4, <3>5
  <2> QED BY <2>1, <2>2
<1> HIDE DEF f
<1>9. Tiled(ast, f, todo')
  BY <1>6, <1>8 DEF Tiled
<1> QED BY <1>7, <1>9

\* Where the first item begins and ends, and that the function it is in is not
\* done.
LEMMA HeadTile ==
  ASSUME GInv, todo # << >>, NEW b, Tiled(ast, b, todo)
  PROVE  /\ b[1] \in Nat /\ b[2] \in Nat
         /\ Covers(ast, todo[1], b[1], b[2])
<1>1. Len(todo) \in Nat \ {0}
  BY HeadFacts
<1> QED BY <1>1 DEF Tiled

LEMMA BeforeItsEnd ==
  ASSUME GInv, todo # << >>, NEW b, Tiled(ast, b, todo), current_function_ # NoNode,
         todo[1].do # "end_function"
  PROVE  b[2] < current_function_ /\ current_function_ \in DOMAIN ast.nodes
<1>1. Len(todo) \in Nat \ {0}
  BY HeadFacts
<1>2. PICK k \in 0 .. Len(todo) : Generates(k)
  BY DEF GInv, RegionInv
<1>3. k \in 2 .. Len(todo) /\ todo[k] = item("end_function", current_function_, NoNode)
  <2>1. k # 0 /\ todo[k] = item("end_function", current_function_, NoNode)
    BY <1>2 DEF Generates
  <2>2. k # 1
    BY <2>1 DEF item
  <2> QED BY <1>1, <2>1, <2>2
<1>4. todo[k].do = "end_function" /\ todo[k].node = current_function_
  BY <1>3 DEF item
<1>5. \A j \in DOMAIN todo : todo[j].node \in DOMAIN ast.nodes
  BY DEF GInv, ItemsInv, Fits
<1>6. b \in [1 .. Len(todo) + 1 -> Nat] /\ \A j \in 1 .. Len(todo) : Covers(ast, todo[j], b[j], b[j + 1])
  BY DEF Tiled
<1>7. DOMAIN todo = 1 .. Len(todo)
  BY DEF GInv, ItemsInv
<1>8. \A j \in 1 .. Len(todo) : b[j] <= b[j + 1]
  <2> TAKE j \in 1 .. Len(todo)
  <2>1. b[j] \in Nat /\ b[j + 1] \in Nat
    BY <1>1, <1>6
  <2> QED BY <1>5, <1>6, <1>7, <2>1, CoversGrow DEF GInv
<1>9. b[2] <= b[k]
  <2>1. 2 \in 1 .. Len(todo) + 1 /\ k \in 1 .. Len(todo) + 1 /\ 2 <= k /\ Len(todo) \in Nat
    BY <1>1, <1>3
  <2> QED BY <1>6, <1>8, <2>1, Monotone
<1>10. current_function_ = b[k] + 1
  <2>1. Covers(ast, todo[k], b[k], b[k + 1])
    BY <1>3, <1>6
  <2> QED BY <1>4, <2>1 DEF Covers
<1>11. b[2] \in Nat /\ b[k] \in Nat
  BY <1>1, <1>3, <1>6
<1>12. current_function_ \in DOMAIN ast.nodes
  BY <1>3, <1>4, <1>5, <1>7
<1> QED BY <1>9, <1>10, <1>11, <1>12

-------------------------------------------------------------------------------
(* The items that take the place of a visit. *)

LEMMA ListTiled ==
  ASSUME NEW tree, NEW N, NEW list, NEW a, NEW b, Tiles(FirstOf(tree), N, list, a, b)
  PROVE  \E e : Tiled(tree, e, visit(list)) /\ e[1] = a /\ e[Len(visit(list)) + 1] = b
                /\ Len(visit(list)) = Len(list)
<1> DEFINE n == Len(list)
           e == [j \in 1 .. n + 1 |-> IF j = 1 THEN a ELSE list[j - 1]]
<1>1. n \in Nat /\ DOMAIN list = 1 .. n /\ \A k \in 1 .. n : list[k] \in Nat
  <2>1. \A k \in 1 .. Len(list) : list[k] \in 1 .. N
    BY Places
  <2> QED BY <2>1, Places
<1>2. /\ a \in Nat /\ b \in Nat
      /\ list = << >> => a = b
      /\ list # << >> => FirstOf(tree)[list[1]] = a + 1 /\ list[n] = b
      /\ \A i \in 1 .. n - 1 : FirstOf(tree)[list[i + 1]] = list[i] + 1
  BY DEF Tiles, Spans
<1>3. Len(visit(list)) = n /\ \A j \in 1 .. n : visit(list)[j].do = "visit" /\ visit(list)[j].node = list[j]
  BY <1>1 DEF visit, item
<1>4. list = << >> <=> n = 0
  <2>1. list \in Seq(1 .. N)
    BY DEF Tiles
  <2> QED BY <2>1
<1> HIDE DEF n
<1>5. e \in [1 .. n + 1 -> Nat]
  <2>1. \A j \in 1 .. n + 1 : j # 1 => j - 1 \in 1 .. n
    BY <1>1
  <2> QED BY <1>1, <1>2, <2>1
<1>6. e[1] = a /\ \A j \in 1 .. n : e[j + 1] = list[j]
  <2>1. 1 \in 1 .. n + 1 /\ \A j \in 1 .. n : j + 1 \in 1 .. n + 1 /\ j + 1 # 1 /\ (j + 1) - 1 = j
    BY <1>1
  <2> QED BY <2>1
<1>7. \A j \in 1 .. n : e[j] = FirstOf(tree)[list[j]] - 1 /\ e[j] + 1 = FirstOf(tree)[list[j]]
  <2> TAKE j \in 1 .. n
  <2>1. CASE j = 1
    <3>1. n # 0
      BY <1>1
    <3> QED BY <1>2, <1>4, <1>6, <2>1, <3>1
  <2>2. CASE j # 1
    <3>1. j - 1 \in 1 .. n - 1 /\ (j - 1) + 1 = j /\ j - 1 \in 1 .. n
      BY <1>1, <2>2
    <3>2. e[j] = list[j - 1] /\ FirstOf(tree)[list[j]] = list[j - 1] + 1 /\ list[j - 1] \in Nat
      BY <1>1, <1>2, <1>6, <3>1
    <3> HIDE DEF e
    <3> QED BY <3>2
  <2> QED BY <2>1, <2>2
<1> HIDE DEF e
<1>8. \A j \in 1 .. n : Covers(tree, visit(list)[j], e[j], e[j + 1])
  BY <1>3, <1>6, <1>7 DEF Covers
<1>9. e[n + 1] = b
  <2>1. CASE n = 0
    BY <1>2, <1>4, <1>6, <2>1
  <2>2. CASE n # 0
    <3>1. n \in 1 .. n
      BY <1>1, <2>2
    <3> QED BY <1>2, <1>4, <1>6, <2>2, <3>1
  <2> QED BY <2>1, <2>2
<1>10. Tiled(tree, e, visit(list))
  BY <1>3, <1>5, <1>8 DEF Tiled
<1> QED BY <1>3, <1>6, <1>9, <1>10 DEF n

Extended(items, s, last) ==
    /\ Len(items) = Len(s) + 1
    /\ items[Len(s) + 1] = last
    /\ \A j \in 1 .. Len(s) : items[j] = s[j]

LEMMA ThenTiled ==
  ASSUME NEW tree, NEW s \in Seq(Item), NEW last \in Item, NEW e, Tiled(tree, e, s), NEW z \in Nat,
         Covers(tree, last, e[Len(s) + 1], z),
         NEW items, Extended(items, s, last)
  PROVE  \E f : Tiled(tree, f, items) /\ f[1] = e[1] /\ f[Len(items) + 1] = z
<1> DEFINE n == Len(s)
           f == [j \in 1 .. n + 2 |-> IF j = n + 2 THEN z ELSE e[j]]
<1>1. /\ n \in Nat /\ Len(items) = n + 1 /\ items[n + 1] = last
      /\ \A j \in 1 .. n : items[j] = s[j]
  BY DEF Extended
<1>2. /\ e \in [1 .. n + 1 -> Nat]
      /\ \A j \in 1 .. n : Covers(tree, s[j], e[j], e[j + 1])
      /\ Covers(tree, last, e[n + 1], z)
  BY DEF Tiled
<1> HIDE DEF n
<1>3. f \in [1 .. n + 2 -> Nat]
  <2>1. \A j \in 1 .. n + 2 : j # n + 2 => j \in 1 .. n + 1
    BY <1>1
  <2> QED BY <1>2, <2>1
<1>4. f[n + 2] = z /\ \A j \in 1 .. n + 1 : f[j] = e[j]
  <2>1. n + 2 \in 1 .. n + 2 /\ \A j \in 1 .. n + 1 : j # n + 2 /\ j \in 1 .. n + 2
    BY <1>1
  <2> QED BY <2>1
<1> HIDE DEF f
<1>5. \A j \in 1 .. n + 1 : Covers(tree, items[j], f[j], f[j + 1])
  <2> TAKE j \in 1 .. n + 1
  <2>1. CASE j = n + 1
    <3>1. (n + 1) + 1 = n + 2 /\ n + 1 \in 1 .. n + 1
      BY <1>1
    <3> QED BY <1>1, <1>2, <1>4, <2>1, <3>1
  <2>2. CASE j # n + 1
    <3>1. j \in 1 .. n /\ j + 1 \in 1 .. n + 1
      BY <1>1, <2>2
    <3> QED BY <1>1, <1>2, <1>4, <3>1
  <2> QED BY <2>1, <2>2
<1>6. (n + 1) + 1 = n + 2 /\ 1 \in 1 .. n + 1
  BY <1>1
<1>7. Tiled(tree, f, items)
  BY <1>1, <1>3, <1>5, <1>6 DEF Tiled
<1> QED BY <1>1, <1>4, <1>6, <1>7

-------------------------------------------------------------------------------
(* How the tables keep up with what is done. *)

LEMMA NamingStep ==
  ASSUME GInv, todo # << >>, ast' = ast, NEW items \in Seq(Item), Goes_on(items),
         NEW b, Tiled(ast, b, todo), NEW e, Tiled(ast, e, items), e[Len(items) + 1] = b[2],
         NEW c, c = e[1], Binds(c)', Finds(c)'
  PROVE  NamingInv'
<1>1. PICK d : Tiled(ast, d, todo)' /\ d[1] = e[1]
  BY TiledStep
<1> QED BY <1>1 DEF NamingInv

LEMMA DoneNaming ==
  ASSUME GInv, todo # << >>, ast' = ast, Goes_on(<< >>), NEW b, Tiled(ast, b, todo),
         NEW c, c = b[2], Binds(c)', Finds(c)'
  PROVE  NamingInv'
<1> DEFINE e == [j \in 1 .. 1 |-> c]
<1>1. c \in Nat
  BY HeadTile
<1>2. PICK items \in Seq(Item) : items = << >>
  <2>1. << >> \in Seq(Item)
    OBVIOUS
  <2> QED BY <2>1
<1>3. Len(items) = 0 /\ Goes_on(items)
  BY <1>2
<1>4. e \in [1 .. 0 + 1 -> Nat] /\ e[1] = c /\ e[0 + 1] = c
  BY <1>1
<1> HIDE DEF e
<1>5. Tiled(ast, e, items)
  BY <1>3, <1>4 DEF Tiled
<1>6. e[Len(items) + 1] = b[2]
  BY <1>3, <1>4
<1> QED BY <1>3, <1>4, <1>5, <1>6, NamingStep

\* Nodes that declare nothing change nothing.
LEMMA AdvanceTo ==
  ASSUME GInv, ast' = ast, KeepTables, NEW a \in Nat, NEW z \in Nat, a <= z, Binds(a), Finds(a),
         \A n \in DOMAIN ast.nodes :
           a < n /\ n <= z => ast.nodes[n].kind \notin {"VariableDeclaration", "Argument", "FunctionDeclaration"}
  PROVE  Binds(z)' /\ Finds(z)'
<1>1. DOMAIN ast.nodes \subseteq Nat
  BY TreeFacts DEF GInv
<1>2. /\ current_function_' = current_function_ /\ named_values_' = named_values_
      /\ functions_' = functions_
  BY DEF KeepTables
<1>3. ASSUME NEW f, NEW x PROVE UpTo(ast, f, x, z) = UpTo(ast, f, x, a)
  <2>1. \A d \in Storage(ast) : d \in Nat /\ (d <= z <=> d <= a)
    BY <1>1 DEF Storage
  <2> QED BY <2>1 DEF UpTo
<1>4. current_function_ # NoNode => FirstOf(ast)[current_function_] <= z + 1
  <2> SUFFICES ASSUME current_function_ # NoNode PROVE FirstOf(ast)[current_function_] <= z + 1
    OBVIOUS
  <2>1. current_function_ \in DOMAIN ast.nodes
    BY DEF GInv, NamesInv
  <2>2. FirstOf(ast)[current_function_] \in Nat
    BY <1>1, <2>1, TreeFacts DEF GInv
  <2>3. FirstOf(ast)[current_function_] <= a + 1
    BY DEF Binds
  <2> QED BY <2>2, <2>3
<1>5. Binds(z)'
  BY <1>2, <1>3, <1>4 DEF Binds
<1>6. \A x \in Symbol : \A f \in Functions(ast, x) : a < f => z < f
  <2>1. \A x \in Symbol : \A f \in Functions(ast, x) :
          f \in DOMAIN ast.nodes /\ ast.nodes[f].kind = "FunctionDeclaration"
    BY DEF Functions, is_function
  <2> QED BY <1>1, <2>1
<1>7. Finds(z)'
  BY <1>2, <1>6 DEF Finds
<1> QED BY <1>5, <1>7

\* What ends with node a begins and ends there.
TakesItsPlace(items) ==
    \A a, z \in Nat : Covers(ast, todo[1], a, z) =>
      \E e : Tiled(ast, e, items) /\ e[1] = a /\ e[Len(items) + 1] = z

LEMMA ReplaceNaming ==
  ASSUME GInv, todo # << >>, NamingInv, ast' = ast, KeepTables, NEW items \in Seq(Item), Goes_on(items),
         \A a, z \in Nat : Covers(ast, todo[1], a, z) =>
           \E e : Tiled(ast, e, items) /\ e[1] = a /\ e[Len(items) + 1] = z
  PROVE  NamingInv'
<1>1. PICK b : Tiled(ast, b, todo) /\ Binds(b[1]) /\ Finds(b[1])
  BY DEF NamingInv
<1>2. b[1] \in Nat /\ b[2] \in Nat /\ Covers(ast, todo[1], b[1], b[2])
  BY <1>1, HeadTile
<1>3. PICK e : Tiled(ast, e, items) /\ e[1] = b[1] /\ e[Len(items) + 1] = b[2]
  BY <1>2
<1>4. PICK c : c = b[1]
  OBVIOUS
<1>5. Binds(c)' /\ Finds(c)'
  BY <1>1, <1>4 DEF Binds, Finds, KeepTables
<1> QED BY <1>1, <1>3, <1>4, <1>5, NamingStep

\* An item that is done without a declaration.
LEMMA QuietDone ==
  ASSUME GInv, todo # << >>, NamingInv, ast' = ast, KeepTables, Goes_on(<< >>),
         \/ todo[1].do = "visit" /\ node_at(here).kind \in Literal \cup {"VariableLookup"}
         \/ todo[1].do \notin {"visit", "bind", "end_function", "branch", "end_then"}
         \/ todo[1].do = "end_then" /\ ~ has_else(node_at(here))
  PROVE  NamingInv'
<1>1. PICK b : Tiled(ast, b, todo) /\ Binds(b[1]) /\ Finds(b[1])
  BY DEF NamingInv
<1>2. b[1] \in Nat /\ b[2] \in Nat /\ Covers(ast, todo[1], b[1], b[2])
  BY <1>1, HeadTile
<1>3. here = todo[1].node /\ here \in DOMAIN ast.nodes /\ Fits(ast, todo[1]) /\ todo[1] \in Item
  BY HeadFacts
<1>4. PICK a \in Nat, z \in Nat : a = b[1] /\ z = b[2]
  BY <1>2
<1>5. a <= z
  BY <1>2, <1>3, <1>4, CoversGrow DEF GInv
<1>6. z = a \/ (here = a + 1 /\ z = here)
  <2>1. CASE todo[1].do = "visit" /\ node_at(here).kind \in Literal \cup {"VariableLookup"}
    <3>1. FirstOf(ast)[here] = here
      BY <1>3, <2>1, Leaf DEF node_at, GInv
    <3> QED BY <1>2, <1>3, <1>4, <2>1, <3>1 DEF Covers
  <2>2. CASE todo[1].do \notin {"visit", "bind", "end_function", "branch", "end_then"}
    BY <1>2, <1>3, <1>4, <2>2 DEF Covers
  <2>3. CASE todo[1].do = "end_then" /\ ~ has_else(node_at(here))
    <3>1. Spans(FirstOf(ast), << >>, a, here - 1) /\ z = here
      BY <1>2, <1>3, <1>4, <2>3 DEF Covers, has_else, node_at
    <3>2. a = here - 1 /\ here \in Nat
      BY <1>3, <3>1, TreeFacts DEF Spans, GInv
    <3> QED BY <3>1, <3>2
  <2> QED BY <2>1, <2>2, <2>3
<1>7. todo[1].do # "keep" =>
        ast.nodes[here].kind \notin {"VariableDeclaration", "Argument", "FunctionDeclaration"}
  BY <1>3 DEF Fits, node_at, Literal, Item
<1>8. todo[1].do = "keep" => z = a
  BY <1>2, <1>4 DEF Covers
<1>9. DOMAIN ast.nodes \subseteq Nat
  BY TreeFacts DEF GInv
<1>10. \A n \in DOMAIN ast.nodes :
         a < n /\ n <= z => ast.nodes[n].kind \notin {"VariableDeclaration", "Argument", "FunctionDeclaration"}
  <2> SUFFICES ASSUME NEW n \in DOMAIN ast.nodes, a < n, n <= z
      PROVE  ast.nodes[n].kind \notin {"VariableDeclaration", "Argument", "FunctionDeclaration"}
    OBVIOUS
  <2>1. n \in Nat /\ z # a
    BY <1>9
  <2>2. n = here
    BY <1>6, <2>1
  <2> QED BY <1>7, <1>8, <2>1, <2>2
<1>11. Binds(a) /\ Finds(a)
  BY <1>1, <1>4
<1>12. Binds(z)' /\ Finds(z)'
  BY <1>5, <1>10, <1>11, AdvanceTo DEF GInv
<1> QED BY <1>1, <1>4, <1>12, DoneNaming

LEMMA SameNaming ==
  ASSUME NamingInv, todo' = todo, ast' = ast, KeepTables
  PROVE  NamingInv'
BY DEF NamingInv, Binds, Finds, KeepTables

\* A visit that goes on with its operands, and then with itself.
LEMMA OperandTiles ==
  ASSUME GInv, todo # << >>, todo[1].do = "visit",
         NEW what, NEW entry, item(what, here, entry) \in Item,
         \/ /\ what \notin {"visit", "keep", "branch", "end_then"}
            /\ node_at(here).kind \notin {"FunctionDeclaration", "If"}
         \/ what = "branch" /\ node_at(here).kind = "If",
         Goes_on(visit(node_at(here).operands) \o << item(what, here, entry) >>)
  PROVE  \E items \in Seq(Item) :
           /\ Goes_on(items) /\ TakesItsPlace(items)
           /\ Extended(items, visit(node_at(here).operands), item(what, here, entry))
<1> DEFINE last == item(what, here, entry)
           node == ast.nodes[here]
           N == Len(ast.nodes)
<1>1. here = todo[1].node /\ here \in DOMAIN ast.nodes /\ IsAst(ast) /\ node = node_at(here)
  BY HeadFacts DEF GInv, node_at
<1>2. /\ here \in Nat /\ here # 0 /\ FirstOf(ast)[here] \in 1 .. here
      /\ Tiles(FirstOf(ast), N, Children(node), FirstOf(ast)[here] - 1, here - 1)
  BY <1>1, TreeFacts, ChildrenFacts
<1>3. last.do = what /\ last.node = here
  BY DEF item
<1>4. visit(node.operands) \in Seq(Item)
  BY <1>1, NodeShape, VisitList, TreeFacts
<1> HIDE DEF last
<1>5. PICK items, s : s = visit(node.operands) /\ items = s \o << last >>
  OBVIOUS
<1>6. items \in Seq(Item) /\ Goes_on(items)
  BY <1>1, <1>4, <1>5, ThenOne DEF last
<1>7. PICK m \in Nat : /\ Tiles(FirstOf(ast), N, node.operands, FirstOf(ast)[here] - 1, m)
                       /\ Covers(ast, last, m, here)
  <2>1. CASE /\ what \notin {"visit", "keep", "branch", "end_then"}
             /\ node_at(here).kind \notin {"FunctionDeclaration", "If"}
    <3>1. Tiles(FirstOf(ast), N, node.operands, FirstOf(ast)[here] - 1, here - 1)
      BY <1>1, <1>2, <2>1, NodeShape
    <3>2. here - 1 \in Nat /\ here = (here - 1) + 1
      BY <1>2
    <3>3. Covers(ast, last, here - 1, here)
      BY <1>3, <2>1, <3>2 DEF Covers
    <3> QED BY <3>1, <3>2, <3>3
  <2>2. CASE what = "branch" /\ node_at(here).kind = "If"
    <3> DEFINE rest == node.body \o node.orelse
    <3>1. /\ node.operands \in Seq(1 .. N) /\ rest \in Seq(1 .. N)
          /\ Tiles(FirstOf(ast), N, node.operands \o rest, FirstOf(ast)[here] - 1, here - 1)
      <4>1. node.body \in Seq(1 .. N) /\ node.orelse \in Seq(1 .. N) /\ node.operands \in Seq(1 .. N)
        BY <1>1, NodeShape
      <4>2. rest \in Seq(1 .. N)
        BY <4>1, Joins
      <4> QED BY <1>1, <1>2, <2>2, <4>1, <4>2, NodeShape
    <3> HIDE DEF rest
    <3>2. PICK m \in FirstOf(ast)[here] - 1 .. here - 1 :
            /\ Tiles(FirstOf(ast), N, node.operands, FirstOf(ast)[here] - 1, m)
            /\ Tiles(FirstOf(ast), N, rest, m, here - 1)
      BY <3>1, SplitTiles
    <3>3. m \in Nat /\ m < here
      BY <1>2, <3>2
    <3>4. Covers(ast, last, m, here)
      BY <1>3, <2>2, <3>2, <3>3 DEF Covers, Tiles, rest
    <3> QED BY <3>2, <3>3, <3>4
  <2> QED BY <2>1, <2>2
<1>8. ASSUME NEW a \in Nat, NEW z \in Nat, Covers(ast, todo[1], a, z)
      PROVE  \E e : Tiled(ast, e, items) /\ e[1] = a /\ e[Len(items) + 1] = z
  <2>1. FirstOf(ast)[here] = a + 1 /\ z = here
    BY <1>1, <1>8 DEF Covers
  <2>2. FirstOf(ast)[here] - 1 = a
    BY <2>1
  <2>3. PICK e : /\ Tiled(ast, e, visit(node.operands)) /\ e[1] = a
                 /\ e[Len(visit(node.operands)) + 1] = m
    BY <1>7, <2>2, ListTiled
  <2>4. last \in Item
    BY DEF last
  <2>5. Covers(ast, last, e[Len(visit(node.operands)) + 1], z)
    BY <1>7, <2>1, <2>3
  <2>6. \E f : Tiled(ast, f, items) /\ f[1] = e[1] /\ f[Len(items) + 1] = z
    <3>1. s \in Seq(Item) /\ Tiled(ast, e, s) /\ Covers(ast, last, e[Len(s) + 1], z) /\ items = s \o << last >>
      BY <1>4, <1>5, <2>3, <2>5
    <3>2. Extended(items, s, last)
      BY <2>4, <3>1, ThenOne DEF Extended
    <3>3. PICK l \in Item : l = last
      BY <2>4
    <3>4. s \in Seq(Item) /\ Tiled(ast, e, s) /\ Covers(ast, l, e[Len(s) + 1], z) /\ Extended(items, s, l)
      BY <3>1, <3>2, <3>3
    <3>5. z \in Nat
      OBVIOUS
    <3> QED BY <3>4, <3>5, ThenTiled
  <2> QED BY <2>3, <2>6
<1>9. Extended(items, visit(node_at(here).operands), item(what, here, entry))
  <2>1. s \in Seq(Item) /\ last \in Item
    BY <1>4, <1>5 DEF last
  <2>2. Extended(s \o << last >>, s, last)
    BY <2>1, ThenOne DEF Extended
  <2> QED BY <1>1, <1>5, <2>2 DEF last
<1> QED BY <1>6, <1>8, <1>9 DEF TakesItsPlace

LEMMA OperandNaming ==
  ASSUME GInv, todo # << >>, NamingInv, ast' = ast, KeepTables, todo[1].do = "visit",
         NEW what, NEW entry, item(what, here, entry) \in Item,
         \/ /\ what \notin {"visit", "keep", "branch", "end_then"}
            /\ node_at(here).kind \notin {"FunctionDeclaration", "If"}
         \/ what = "branch" /\ node_at(here).kind = "If",
         Goes_on(visit(node_at(here).operands) \o << item(what, here, entry) >>)
  PROVE  NamingInv'
<1>1. PICK items \in Seq(Item) : Goes_on(items) /\ TakesItsPlace(items)
  BY OperandTiles
<1> QED BY <1>1, ReplaceNaming DEF TakesItsPlace

LEMMA ListThenTiled ==
  ASSUME IsAst(ast), NEW list, NEW last \in Item, NEW items, Extended(items, visit(list), last),
         NEW a \in Nat, NEW m \in Nat, NEW z \in Nat,
         Tiles(FirstOf(ast), Len(ast.nodes), list, a, m), Covers(ast, last, m, z)
  PROVE  \E e : Tiled(ast, e, items) /\ e[1] = a /\ e[Len(items) + 1] = z
<1>1. PICK s : s = visit(list)
  OBVIOUS
<1>2. PICK e : Tiled(ast, e, s) /\ e[1] = a /\ e[Len(s) + 1] = m
  BY <1>1, ListTiled
<1>3. s \in Seq(Item)
  <2>1. list \in Seq(1 .. Len(ast.nodes)) /\ 1 .. Len(ast.nodes) \subseteq DOMAIN ast.nodes
    BY TreeFacts DEF Tiles
  <2> QED BY <1>1, <2>1, VisitList
<1>5. Extended(items, s, last)
  BY <1>1
<1>6. Covers(ast, last, e[Len(s) + 1], z)
  BY <1>2
<1>7. \E f : Tiled(ast, f, items) /\ f[1] = e[1] /\ f[Len(items) + 1] = z
  BY <1>2, <1>3, <1>5, <1>6, ThenTiled
<1> QED BY <1>2, <1>7

\* The block of an if, and what ends it.
LEMMA BlockTiles ==
  ASSUME GInv, todo # << >>,
         NEW list, NEW what, NEW entry, item(what, here, entry) \in Item,
         \/ todo[1].do = "branch" /\ what = "end_then" /\ list = node_at(here).body
         \/ todo[1].do = "end_then" /\ what = "end_else" /\ list = node_at(here).orelse,
         Goes_on(visit(list) \o << item(what, here, entry) >>)
  PROVE  \E items \in Seq(Item) :
           /\ Goes_on(items) /\ TakesItsPlace(items)
           /\ Extended(items, visit(list), item(what, here, entry))
<1> DEFINE node == ast.nodes[here]
           N == Len(ast.nodes)
<1>1. here = todo[1].node /\ here \in DOMAIN ast.nodes /\ IsAst(ast) /\ node = node_at(here)
  BY HeadFacts DEF GInv, node_at
<1>2. /\ here \in Nat /\ here # 0 /\ N \in Nat
      /\ \A n \in 1 .. N : FirstOf(ast)[n] \in 1 .. n
  BY <1>1, TreeFacts
<1>3. node.body \in Seq(1 .. N) /\ node.orelse \in Seq(1 .. N)
  BY <1>1, NodeShape
<1>4. PICK last \in Item : last = item(what, here, entry)
  OBVIOUS
<1>5. last.do = what /\ last.node = here
  BY <1>4 DEF item
<1>6. PICK items : items = visit(list) \o << last >>
  OBVIOUS
<1>7. items \in Seq(Item) /\ Goes_on(items) /\ Extended(items, visit(list), last)
  <2>1. list \in Seq(1 .. N) /\ 1 .. N \subseteq DOMAIN ast.nodes
    BY <1>1, <1>3, TreeFacts
  <2>2. visit(list) \in Seq(Item)
    BY <1>1, <2>1, VisitList
  <2> QED BY <1>4, <1>6, <2>2, ThenOne DEF Extended
<1>8. ASSUME NEW a \in Nat, NEW z \in Nat, Covers(ast, todo[1], a, z)
      PROVE  \E e : Tiled(ast, e, items) /\ e[1] = a /\ e[Len(items) + 1] = z
  <2>1. PICK m \in Nat : Tiles(FirstOf(ast), N, list, a, m) /\ Covers(ast, last, m, z)
    <3>1. CASE todo[1].do = "branch" /\ what = "end_then" /\ list = node_at(here).body
      <4>1. /\ a < here /\ z = here
            /\ Spans(FirstOf(ast), node.body \o node.orelse, a, here - 1)
        BY <1>1, <1>8, <3>1 DEF Covers
      <4>2. here - 1 \in Nat /\ node.body \o node.orelse \in Seq(1 .. N)
        BY <1>2, <1>3, Joins
      <4>3. Tiles(FirstOf(ast), N, node.body \o node.orelse, a, here - 1)
        BY <1>2, <4>1, <4>2 DEF Tiles
      <4> HIDE DEF node, N
      <4>4. PICK m \in a .. here - 1 : /\ Tiles(FirstOf(ast), N, node.body, a, m)
                                       /\ Tiles(FirstOf(ast), N, node.orelse, m, here - 1)
        BY <1>3, <4>3, SplitTiles
      <4>5. m \in Nat /\ m < here
        BY <1>2, <4>4
      <4>6. Covers(ast, last, m, z)
        BY <1>5, <3>1, <4>1, <4>4, <4>5 DEF Covers, Tiles, node
      <4> QED BY <1>1, <3>1, <4>4, <4>5, <4>6
    <3>2. CASE todo[1].do = "end_then" /\ what = "end_else" /\ list = node_at(here).orelse
      <4>1. a < here /\ z = here /\ Spans(FirstOf(ast), node.orelse, a, here - 1)
        BY <1>1, <1>8, <3>2 DEF Covers
      <4>2. here - 1 \in Nat /\ here = (here - 1) + 1
        BY <1>2
      <4>3. Tiles(FirstOf(ast), N, node.orelse, a, here - 1)
        BY <1>2, <1>3, <4>1, <4>2 DEF Tiles
      <4>4. Covers(ast, last, here - 1, z)
        BY <1>5, <3>2, <4>1, <4>2 DEF Covers
      <4> QED BY <1>1, <3>2, <4>2, <4>3, <4>4
    <3> QED BY <3>1, <3>2
  <2> QED BY <1>1, <1>7, <2>1, ListThenTiled
<1> QED BY <1>4, <1>7, <1>8 DEF TakesItsPlace

LEMMA BlockNaming ==
  ASSUME GInv, todo # << >>, NamingInv, ast' = ast, KeepTables,
         NEW list, NEW what, NEW entry, item(what, here, entry) \in Item,
         \/ todo[1].do = "branch" /\ what = "end_then" /\ list = node_at(here).body
         \/ todo[1].do = "end_then" /\ what = "end_else" /\ list = node_at(here).orelse,
         Goes_on(visit(list) \o << item(what, here, entry) >>)
  PROVE  NamingInv'
<1>1. PICK items \in Seq(Item) : Goes_on(items) /\ TakesItsPlace(items)
  BY BlockTiles
<1> QED BY <1>1, ReplaceNaming DEF TakesItsPlace

-------------------------------------------------------------------------------
(* What gives names their meaning. *)

LEMMA BindNaming ==
  ASSUME GInv, NamingInv, bind_variable, Goes_on(<< >>)
  PROVE  NamingInv'
<1>1. /\ Next_is("bind") /\ ast' = ast /\ Goes_on(<< >>)
      /\ named_values_' = [named_values_ EXCEPT ![node_at(here).name] = here]
      /\ functions_' = functions_ /\ current_function_' = current_function_
  <2>1. /\ Next_is("bind") /\ ast' = ast
        /\ functions_' = functions_ /\ current_function_' = current_function_
    BY DEF bind_variable, Tree, Throw
  <2>2. todo' # todo
    <3>1. Len(todo) \in Nat \ {0} /\ todo \in Seq(Item)
      BY <2>1, HeadFacts DEF Next_is, GInv, ItemsInv
    <3>2. Len(todo') = Len(todo) - 1
      BY <3>1 DEF Goes_on
    <3> QED BY <3>1, <3>2
  <2>3. ~ (todo' = todo)
    BY <2>2
  <2>4. named_values_' = [named_values_ EXCEPT ![node_at(here).name] = here]
    BY <2>3 DEF bind_variable, Throw
  <2> QED BY <2>1, <2>4
<1>2. /\ todo # << >> /\ todo[1].do = "bind" /\ here = todo[1].node /\ here \in DOMAIN ast.nodes
      /\ Fits(ast, todo[1])
  BY <1>1, HeadFacts DEF Next_is
<1>3. PICK b : Tiled(ast, b, todo) /\ Binds(b[1]) /\ Finds(b[1])
  BY DEF NamingInv
<1>4. PICK a \in Nat, z \in Nat : a = b[1] /\ z = b[2]
  BY <1>2, <1>3, HeadTile
<1>5. here = a + 1 /\ z = here
  BY <1>2, <1>3, <1>4, HeadTile DEF Covers
<1>6. current_function_ # NoNode
  BY <1>2, InFunction
<1>7. z < current_function_ /\ current_function_ \in DOMAIN ast.nodes
  BY <1>2, <1>3, <1>4, <1>6, BeforeItsEnd
<1>8. /\ FirstOf(ast)[current_function_] <= a + 1
      /\ \A x \in Name : Latest(UpTo(ast, current_function_, x, a), named_values_[x])
  BY <1>3, <1>4, <1>6 DEF Binds
<1>9. DOMAIN ast.nodes \subseteq Nat /\ here \in Nat /\ FirstOf(ast)[current_function_] \in Nat
      /\ current_function_ \in Nat
  BY <1>2, <1>7, TreeFacts DEF GInv
<1>10. ast.nodes[here].kind = "VariableDeclaration" /\ ast.nodes[here].name = node_at(here).name
  BY <1>2 DEF Fits, node_at
<1>11. Under(ast, here, current_function_)
  BY <1>2, <1>5, <1>7, <1>8, <1>9 DEF Under
<1>12. \A x : UpTo(ast, current_function_, x, z)
              = UpTo(ast, current_function_, x, a) \cup (IF x = node_at(here).name THEN {here} ELSE {})
  <2> TAKE x
  <2>1. \A d \in Storage(ast) : d \in Nat /\ (d <= z <=> d <= a \/ d = here)
    BY <1>5, <1>9 DEF Storage
  <2>2. here \in Storage(ast)
    BY <1>2, <1>10 DEF Storage
  <2> QED BY <1>5, <1>10, <1>11, <2>1, <2>2 DEF UpTo
<1>13. named_values_ \in [Name -> {NoNode} \cup Storage(ast)]
  BY <1>6 DEF GInv, NamesInv
<1>14. ASSUME NEW x \in Name
       PROVE  Latest(UpTo(ast, current_function_, x, z), named_values_'[x])
  <2>1. CASE x = node_at(here).name
    <3>1. named_values_'[x] = here
      BY <1>1, <1>13, <2>1
    <3>2. \A d \in UpTo(ast, current_function_, x, a) : d <= here
      BY <1>5, <1>9 DEF UpTo, Storage
    <3>3. UpTo(ast, current_function_, x, z) = UpTo(ast, current_function_, x, a) \cup {here}
      BY <1>12, <2>1
    <3>4. here <= here
      BY <1>2, <1>9
    <3> QED BY <3>1, <3>2, <3>3, <3>4 DEF Latest
  <2>2. CASE x # node_at(here).name
    <3>1. named_values_'[x] = named_values_[x]
      BY <1>1, <1>13, <2>2
    <3>2. UpTo(ast, current_function_, x, z) = UpTo(ast, current_function_, x, a)
      BY <1>12, <2>2
    <3> QED BY <1>8, <3>1, <3>2
  <2> QED BY <2>1, <2>2
<1>15. Binds(z)'
  <2>1. FirstOf(ast)[current_function_] <= z + 1
    BY <1>5, <1>8, <1>9
  <2> QED BY <1>1, <1>14, <2>1 DEF Binds
<1>16. Finds(z)'
  <2>1. ASSUME NEW x \in Symbol, functions_[x] = NoNode, NEW f \in Functions(ast, x)
        PROVE  z < f
    <3>1. a < f /\ f \in Nat /\ f # here
      BY <1>3, <1>4, <1>9, <1>10, <2>1 DEF Finds, Functions, is_function
    <3> QED BY <1>5, <3>1
  <2> QED BY <1>1, <2>1 DEF Finds
<1> QED BY <1>1, <1>2, <1>3, <1>4, <1>15, <1>16, DoneNaming

LEMMA EndNaming ==
  ASSUME GInv, NamingInv, end_function
  PROVE  NamingInv'
<1>1. /\ Next_is("end_function") /\ ast' = ast /\ Goes_on(<< >>)
      /\ functions_' = [functions_ EXCEPT ![node_at(here).name] = here]
      /\ current_function_' = NoNode
  BY DEF end_function, Tree
<1>2. /\ todo # << >> /\ todo[1].do = "end_function" /\ here = todo[1].node /\ here \in DOMAIN ast.nodes
      /\ Fits(ast, todo[1])
  BY <1>1, HeadFacts DEF Next_is
<1>3. PICK b : Tiled(ast, b, todo) /\ Binds(b[1]) /\ Finds(b[1])
  BY DEF NamingInv
<1>4. PICK a \in Nat, z \in Nat : a = b[1] /\ z = b[2]
  BY <1>2, <1>3, HeadTile
<1>5. here = a + 1 /\ z = here
  BY <1>2, <1>3, <1>4, HeadTile DEF Covers
<1>6. DOMAIN ast.nodes \subseteq Nat \ {NoNode}
  BY <1>2, NodeFacts DEF GInv
<1>7. Binds(z)'
  BY <1>1 DEF Binds
<1>8. functions_ \in [Symbol -> {NoNode, Wrapper} \cup DOMAIN ast.nodes]
  BY DEF GInv, NamesInv
<1>9. Finds(z)'
  <2>1. ASSUME NEW x \in Symbol, functions_'[x] = NoNode, NEW f \in Functions(ast, x)
        PROVE  z < f
    <3>1. x # node_at(here).name /\ functions_[x] = NoNode
      BY <1>1, <1>2, <1>6, <1>8, <2>1
    <3>2. a < f /\ f \in Nat /\ f # here
      BY <1>3, <1>4, <1>6, <2>1, <3>1 DEF Finds, Functions, node_at
    <3> QED BY <1>5, <3>2
  <2> QED BY <1>1, <2>1 DEF Finds
<1> QED BY <1>1, <1>2, <1>3, <1>4, <1>7, <1>9, DoneNaming

LEMMA ConstantNaming ==
  ASSUME GInv, NamingInv, define_constant, Goes_on(<< >>)
  PROVE  NamingInv'
<1>1. /\ Next_is("define_constant") /\ ast' = ast
      /\ functions_' = functions_ /\ current_function_' = current_function_
  BY DEF define_constant, Tree, Throw
<1>2. /\ todo # << >> /\ todo[1].do = "define_constant" /\ here = todo[1].node /\ here \in DOMAIN ast.nodes
      /\ Fits(ast, todo[1]) /\ Len(todo) \in Nat \ {0}
  BY <1>1, HeadFacts DEF Next_is
<1>3. PICK k \in 0 .. Len(todo) : IF current_function_ = NoNode THEN Defines(k) ELSE Generates(k)
  BY DEF GInv, RegionInv
<1>4. current_function_ = NoNode
  <2> SUFFICES ASSUME Generates(k) PROVE FALSE
    BY <1>3
  <2>1. k # 1
    BY <1>2 DEF Generates, item
  <2>2. 1 \in 1 .. k - 1
    BY <1>2, <2>1 DEF Generates
  <2> QED BY <1>2, <2>2 DEF Generates, Inside
<1>5. PICK b : Tiled(ast, b, todo) /\ Binds(b[1]) /\ Finds(b[1])
  BY DEF NamingInv
<1>6. PICK a \in Nat, z \in Nat : a = b[1] /\ z = b[2]
  BY <1>2, <1>5, HeadTile
<1>7. here = a + 1 /\ z = here
  BY <1>2, <1>5, <1>6, HeadTile DEF Covers
<1>8. DOMAIN ast.nodes \subseteq Nat
  BY <1>2, NodeFacts DEF GInv
<1>9. Binds(z)'
  BY <1>1, <1>4 DEF Binds
<1>10. Finds(z)'
  <2>1. ASSUME NEW x \in Symbol, functions_[x] = NoNode, NEW f \in Functions(ast, x)
        PROVE  z < f
    <3>1. a < f /\ f \in Nat /\ f # here
      BY <1>2, <1>5, <1>6, <1>8, <2>1 DEF Finds, Functions, is_function, Fits
    <3> QED BY <1>7, <3>1
  <2> QED BY <1>1, <2>1 DEF Finds
<1> QED BY <1>1, <1>2, <1>5, <1>6, <1>9, <1>10, DoneNaming

\* No two arguments of a function have one name.
DistinctArguments(tree) ==
    \A f \in DOMAIN tree.nodes :
      is_function(tree.nodes[f]) =>
        \A i, j \in DOMAIN tree.nodes[f].params :
          tree.nodes[tree.nodes[f].params[i]].name = tree.nodes[tree.nodes[f].params[j]].name
            => tree.nodes[f].params[i] = tree.nodes[f].params[j]

\* The nodes of the function f up to m are its arguments.
ArgumentsUpTo(tree, f, m) ==
    \A n \in DOMAIN tree.nodes :
      (FirstOf(tree)[f] <= n /\ n <= m) <=> \E i \in DOMAIN tree.nodes[f].params : tree.nodes[f].params[i] = n

\* The arguments of a function are the first nodes of its subtree.
LEMMA ArgumentsFirst ==
  ASSUME NEW tree, IsAst(tree), NEW f \in DOMAIN tree.nodes, tree.nodes[f].kind = "FunctionDeclaration",
         NEW m, Tiles(FirstOf(tree), Len(tree.nodes), tree.nodes[f].params, FirstOf(tree)[f] - 1, m)
  PROVE  ArgumentsUpTo(tree, f, m)
<1> DEFINE first == FirstOf(tree)
           N == Len(tree.nodes)
           params == tree.nodes[f].params
           a == first[f] - 1
<1>1. /\ N \in Nat /\ DOMAIN tree.nodes = 1 .. N /\ first[f] \in 1 .. f
      /\ \A n \in DOMAIN tree.nodes : first[n] \in 1 .. n
  BY TreeFacts
<1>2. Len(params) \in Nat /\ DOMAIN params = 1 .. Len(params) /\ m \in Nat
  BY Places DEF Tiles
<1> HIDE DEF a, first, N, params
<1>3. Tiles(first, N, params, a, m)
  BY DEF a, first, N, params
<1>4. \A i \in 1 .. Len(params) :
        /\ params[i] \in DOMAIN tree.nodes
        /\ first[params[i]] = params[i]
        /\ params[i] \in a + 1 .. m
  <2> TAKE i \in 1 .. Len(params)
  <2>1. params[i] \in 1 .. N /\ first[params[i]] \in a + 1 .. params[i] /\ params[i] <= m
    BY <1>3, Within
  <2>2. tree.nodes[params[i]].kind = "Argument"
    <3>1. params \in Seq({n \in 1 .. f - 1 : tree.nodes[n].kind \in {"Argument"}})
      BY DEF IsAst, params
    <3> QED BY <1>2, <3>1
  <2>3. Under(tree, first[params[i]], params[i])
    BY <1>1, <2>1 DEF Under, first
  <2>4. first[params[i]] = params[i]
    BY <1>1, <2>1, <2>2, <2>3, Childless
  <2>5. params[i] \in Nat /\ a \in Nat /\ a + 1 <= params[i]
    BY <1>1, <1>2, <2>1, <2>4, <1>3 DEF Tiles
  <2> QED BY <1>1, <1>2, <2>1, <2>4, <2>5
<1>5. a \in Nat /\ a + 1 = first[f]
  BY <1>1 DEF a
<1>6. ASSUME NEW n \in DOMAIN tree.nodes, first[f] <= n, n <= m
      PROVE  \E i \in 1 .. Len(params) : params[i] = n
  <2>1. n \in a + 1 .. m
    BY <1>1, <1>2, <1>5, <1>6
  <2>2. PICK i \in 1 .. Len(params) : n \in first[params[i]] .. params[i]
    BY <1>3, <2>1, Covered
  <2>3. params[i] = n
    BY <1>1, <1>4, <2>2
  <2> QED BY <2>3
<1>7. ASSUME NEW n \in DOMAIN tree.nodes, NEW i \in 1 .. Len(params), params[i] = n
      PROVE  first[f] <= n /\ n <= m
  BY <1>2, <1>4, <1>5, <1>7
<1> QED BY <1>2, <1>6, <1>7 DEF first, params, ArgumentsUpTo

LEMMA FunctionTiles ==
  ASSUME GInv, todo # << >>, todo[1].do = "visit", node_at(here).kind = "FunctionDeclaration",
         Goes_on(visit(node_at(here).body) \o << item("end_function", here, NoNode) >>),
         NEW a \in Nat, NEW z \in Nat, Covers(ast, todo[1], a, z)
  PROVE  \E m \in Nat, items \in Seq(Item) :
           /\ a <= m /\ m < here
           /\ Tiles(FirstOf(ast), Len(ast.nodes), node_at(here).params, a, m)
           /\ Goes_on(items)
           /\ Extended(items, visit(node_at(here).body), item("end_function", here, NoNode))
           /\ \E e : Tiled(ast, e, items) /\ e[1] = m /\ e[Len(items) + 1] = here
<1> DEFINE node == ast.nodes[here]
           N == Len(ast.nodes)
           params == node.params
<1>1. /\ node_at(here).kind = "FunctionDeclaration"
      /\ Goes_on(visit(node_at(here).body) \o << item("end_function", here, NoNode) >>)
  OBVIOUS
<1>2. here = todo[1].node /\ here \in DOMAIN ast.nodes /\ node = node_at(here)
  BY HeadFacts DEF node_at
<1>5. FirstOf(ast)[here] = a + 1 /\ z = here
  BY <1>2 DEF Covers
<1>6. /\ IsAst(ast) /\ DOMAIN ast.nodes \subseteq Nat /\ here \in Nat /\ here # 0 /\ here - 1 \in Nat
      /\ here = (here - 1) + 1
  BY <1>2, TreeFacts DEF GInv
<1>7. PICK m \in Nat : /\ a <= m /\ m < here
                       /\ Tiles(FirstOf(ast), N, params, a, m)
                       /\ Tiles(FirstOf(ast), N, node.body, m, here - 1)
  <2>1. Tiles(FirstOf(ast), N, params \o node.body, FirstOf(ast)[here] - 1, here - 1)
    BY <1>1, <1>2, <1>6, ChildrenFacts, NodeShape
  <2>2. FirstOf(ast)[here] - 1 = a
    BY <1>5
  <2>3. params \in Seq(1 .. N) /\ node.body \in Seq(1 .. N)
    BY <1>2, <1>6, NodeShape
  <2>4. Tiles(FirstOf(ast), N, params \o node.body, a, here - 1)
    BY <2>1, <2>2
  <2> HIDE DEF params, node, N
  <2>5. PICK m \in a .. here - 1 : /\ Tiles(FirstOf(ast), N, params, a, m)
                                   /\ Tiles(FirstOf(ast), N, node.body, m, here - 1)
    BY <2>3, <2>4, SplitTiles
  <2>6. m \in Nat /\ a <= m /\ m < here
    BY <1>6, <2>5
  <2> QED BY <2>5, <2>6
<1>8. PICK last \in Item : last = item("end_function", here, NoNode)
  BY <1>6 DEF Item, item, NoNode
<1>9. PICK items \in Seq(Item) : Goes_on(items) /\ Extended(items, visit(node.body), last)
  <2>1. PICK items : items = visit(node.body) \o << last >>
    OBVIOUS
  <2>2. visit(node.body) \in Seq(Item)
    BY <1>2, <1>6, NodeShape, VisitList, TreeFacts
  <2>3. items \in Seq(Item) /\ Extended(items, visit(node.body), last)
    BY <2>1, <2>2, ThenOne DEF Extended
  <2>4. Goes_on(items)
    BY <1>1, <1>2, <1>8, <2>1
  <2> QED BY <2>3, <2>4
<1>10. Covers(ast, last, here - 1, here)
  BY <1>6, <1>8 DEF Covers, item
<1>11. PICK e : Tiled(ast, e, items) /\ e[1] = m /\ e[Len(items) + 1] = here
  BY <1>6, <1>7, <1>9, <1>10, ListThenTiled
<1> QED BY <1>2, <1>7, <1>8, <1>9, <1>11

LEMMA FunctionNaming ==
  ASSUME GInv, NamingInv, DistinctArguments(ast), visit_function_declaration
  PROVE  NamingInv'
<1> DEFINE node == ast.nodes[here]
           N == Len(ast.nodes)
           params == node.params
           owners == {node_at(here).params[i] : i \in DOMAIN node_at(here).params}
<1>1. /\ Next_is("visit") /\ node_at(here).kind = "FunctionDeclaration" /\ ast' = ast
      /\ Goes_on(visit(node_at(here).body) \o << item("end_function", here, NoNode) >>)
      /\ named_values_' = entry_values(owners)
      /\ functions_' = functions_ /\ current_function_' = here
  BY DEF visit_function_declaration, Tree, Visits, Next_is
<1>2. /\ todo # << >> /\ todo[1].do = "visit" /\ here = todo[1].node /\ here \in DOMAIN ast.nodes
      /\ node = node_at(here)
  BY <1>1, HeadFacts DEF Next_is, node_at
<1>3. PICK b : Tiled(ast, b, todo) /\ Binds(b[1]) /\ Finds(b[1])
  BY DEF NamingInv
<1>4. PICK a \in Nat, z \in Nat : a = b[1] /\ z = b[2]
  BY <1>2, <1>3, HeadTile
<1>5. FirstOf(ast)[here] = a + 1 /\ z = here
  BY <1>2, <1>3, <1>4, HeadTile DEF Covers
<1>6. /\ IsAst(ast) /\ DOMAIN ast.nodes \subseteq Nat /\ here \in Nat /\ here # 0 /\ here - 1 \in Nat
      /\ here = (here - 1) + 1
  BY <1>2, TreeFacts DEF GInv
<1>7. PICK m \in Nat, items \in Seq(Item) :
        /\ a <= m /\ m < here
        /\ Tiles(FirstOf(ast), Len(ast.nodes), node_at(here).params, a, m)
        /\ Goes_on(items)
        /\ Extended(items, visit(node_at(here).body), item("end_function", here, NoNode))
        /\ \E e : Tiled(ast, e, items) /\ e[1] = m /\ e[Len(items) + 1] = here
  <2>1. Covers(ast, todo[1], a, z)
    BY <1>2, <1>3, <1>4, HeadTile
  <2> QED BY <1>1, <1>2, <2>1, FunctionTiles
<1>11. PICK e : Tiled(ast, e, items) /\ e[1] = m /\ e[Len(items) + 1] = here
  BY <1>7
<1>12. \A n \in DOMAIN ast.nodes :
         (a < n /\ n <= m) <=> \E i \in DOMAIN params : params[i] = n
  <2>1. Tiles(FirstOf(ast), N, params, FirstOf(ast)[here] - 1, m)
    <3>1. FirstOf(ast)[here] - 1 = a
      BY <1>5
    <3> QED BY <1>2, <1>7, <3>1
  <2>2. \A n \in DOMAIN ast.nodes :
          (FirstOf(ast)[here] <= n /\ n <= m) <=> \E i \in DOMAIN params : params[i] = n
    <3>1. PICK f \in DOMAIN ast.nodes : f = here
      BY <1>2
    <3>2. /\ ast.nodes[f].kind = "FunctionDeclaration"
          /\ Tiles(FirstOf(ast), Len(ast.nodes), ast.nodes[f].params, FirstOf(ast)[f] - 1, m)
      BY <1>1, <1>2, <2>1, <3>1
    <3>3. \A n \in DOMAIN ast.nodes :
            (FirstOf(ast)[f] <= n /\ n <= m) <=> \E i \in DOMAIN ast.nodes[f].params : ast.nodes[f].params[i] = n
      <4>1. IsAst(ast) /\ m \in Nat
        BY <1>6, <1>7
      <4> HIDE DEF node, params, N, owners
      <4>2. ArgumentsUpTo(ast, f, m)
        BY <3>2, <4>1, ArgumentsFirst
      <4> QED BY <4>2 DEF ArgumentsUpTo
    <3> QED BY <3>1, <3>3
  <2>3. \A n \in DOMAIN ast.nodes : FirstOf(ast)[here] <= n <=> a < n
    BY <1>5, <1>6
  <2> QED BY <2>2, <2>3
<1>13. owners = {n \in DOMAIN ast.nodes : a < n /\ n <= m}
  <2>1. \A i \in DOMAIN params : params[i] \in DOMAIN ast.nodes
    BY <1>2, <1>6, NodeFacts
  <2> QED BY <1>2, <1>12, <2>1
<1>14. \A d \in owners : d \in Storage(ast)
  <2>1. \A i \in DOMAIN params : params[i] \in DOMAIN ast.nodes /\ ast.nodes[params[i]].kind = "Argument"
    BY <1>2, <1>6, NodeFacts
  <2> QED BY <1>2, <2>1 DEF Storage
<1>15. \A c, d \in owners : ast.nodes[c].name = ast.nodes[d].name => c = d
  BY <1>1, <1>2 DEF DistinctArguments, is_function
<1>16. ASSUME NEW x \in Name PROVE UpTo(ast, here, x, m) = {d \in owners : ast.nodes[d].name = x}
  <2>1. \A d \in Storage(ast) : d \in DOMAIN ast.nodes /\ d \in Nat
    BY <1>6 DEF Storage
  <2>2. \A d \in Storage(ast) : (Under(ast, d, here) /\ d <= m) <=> (a < d /\ d <= m)
    BY <1>5, <1>6, <1>7, <2>1 DEF Under
  <2> HIDE DEF owners
  <2> QED BY <1>13, <1>14, <2>1, <2>2 DEF UpTo
<1>17. ASSUME NEW x \in Name PROVE Latest(UpTo(ast, here, x, m), named_values_'[x])
  <2>1. \A d \in owners : d <= d
    BY <1>6, <1>14 DEF Storage
  <2> HIDE DEF owners
  <2>2. named_values_'[x] = IF \E d \in owners : ast.nodes[d].name = x
                            THEN CHOOSE d \in owners : ast.nodes[d].name = x ELSE NoNode
    BY <1>1 DEF entry_values, node_at
  <2>3. CASE \E d \in owners : ast.nodes[d].name = x
    <3>1. named_values_'[x] \in owners /\ ast.nodes[named_values_'[x]].name = x
      BY <2>2, <2>3
    <3>2. \A e1 \in {d \in owners : ast.nodes[d].name = x} : e1 = named_values_'[x]
      BY <1>15, <3>1
    <3> QED BY <1>16, <2>1, <3>1, <3>2 DEF Latest
  <2>4. CASE ~ \E d \in owners : ast.nodes[d].name = x
    BY <1>16, <2>2, <2>4 DEF Latest
  <2> QED BY <2>3, <2>4
<1>18. Binds(m)'
  <2>1. FirstOf(ast)[here] <= m + 1
    BY <1>5, <1>7
  <2> QED BY <1>1, <1>17, <2>1 DEF Binds
<1>19. Finds(m)'
  <2>1. ASSUME NEW x \in Symbol, functions_[x] = NoNode, NEW f \in Functions(ast, x)
        PROVE  m < f
    <3>1. a < f /\ f \in Nat /\ f \in DOMAIN ast.nodes /\ ast.nodes[f].kind = "FunctionDeclaration"
      BY <1>3, <1>4, <1>6, <2>1 DEF Finds, Functions, is_function
    <3>2. f \notin owners
      BY <1>14, <3>1 DEF Storage
    <3> QED BY <1>13, <3>1, <3>2
  <2> QED BY <1>1, <2>1 DEF Finds
<1>20. e[Len(items) + 1] = b[2]
  BY <1>4, <1>5, <1>11
<1> QED BY <1>1, <1>2, <1>3, <1>7, <1>11, <1>18, <1>19, <1>20, NamingStep

LEMMA StartNaming ==
  ASSUME GInv, generate
  PROVE  NamingInv'
<1>1. /\ outcome = "idle" /\ todo' = visit(ast.top) /\ ast' = ast
      /\ functions_' = functions_ /\ current_function_' = current_function_
  BY DEF generate, Tree, KeepTables
<1>2. current_function_ = NoNode
  <2>1. todo = << >>
    BY <1>1 DEF GInv, RecordsInv
  <2>2. PICK k \in 0 .. Len(todo) : IF current_function_ = NoNode THEN Defines(k) ELSE Generates(k)
    BY DEF GInv, RegionInv
  <2>3. k = 0
    BY <2>1, <2>2
  <2> QED BY <2>2, <2>3 DEF Generates
<1>3. Tiles(FirstOf(ast), Len(ast.nodes), ast.top, 0, Len(ast.nodes))
  BY TreeFacts DEF GInv
<1>4. PICK e : Tiled(ast, e, visit(ast.top)) /\ e[1] = 0
  BY <1>3, ListTiled
<1>5. Binds(0)'
  BY <1>1, <1>2 DEF Binds
<1>6. Finds(0)'
  <2>1. \A x \in Symbol : \A f \in Functions(ast, x) : 0 < f
    BY TreeFacts DEF GInv, Functions
  <2> QED BY <1>1, <2>1 DEF Finds
<1>7. PICK c : c = 0
  OBVIOUS
<1>8. Tiled(ast, e, todo)' /\ e[1] = c /\ Binds(c)' /\ Finds(c)'
  BY <1>1, <1>4, <1>5, <1>6, <1>7
<1> QED BY <1>8 DEF NamingInv

LEMMA WrapperNaming ==
  ASSUME GInv, NamingInv, create_main_wrapper
  PROVE  NamingInv'
<1>1. PICK b : Tiled(ast, b, todo) /\ Binds(b[1]) /\ Finds(b[1])
  BY DEF NamingInv
<1>2. /\ todo' = todo /\ ast' = ast /\ named_values_' = named_values_
      /\ current_function_' = current_function_
      /\ functions_' = [functions_ EXCEPT !["main"] = Wrapper]
  BY DEF create_main_wrapper, Tree
<1>3. Wrapper # NoNode
  BY DEF Wrapper, NoNode
<1>4. PICK c : c = b[1]
  OBVIOUS
<1>5. functions_ \in [Symbol -> {NoNode, Wrapper} \cup DOMAIN ast.nodes]
  BY DEF GInv, NamesInv
<1>6. Finds(c)'
  <2>1. \A x \in Symbol : functions_'[x] = NoNode => functions_[x] = NoNode
    BY <1>2, <1>3, <1>5
  <2> QED BY <1>1, <1>2, <1>4, <2>1 DEF Finds
<1>7. Binds(c)'
  BY <1>1, <1>2, <1>4 DEF Binds
<1> QED BY <1>1, <1>2, <1>4, <1>6, <1>7 DEF NamingInv

\* The items of a binary operation.
AroundLeft(items, l, r) ==
    /\ Goes_on(items) /\ Len(items) = 4
    /\ items[1] = item("visit", l, NoNode) /\ items[2] = item("keep", here, NoNode)
    /\ items[3] = item("visit", r, NoNode) /\ items[4] = item("binary_op", here, NoNode)
    /\ FirstOf(ast)[l] = FirstOf(ast)[here] /\ FirstOf(ast)[r] = l + 1 /\ here = r + 1
    /\ node_at(here).operands[1] = l

LEMMA BinaryItems ==
  ASSUME GInv, visit_binary_op
  PROVE  /\ todo # << >> /\ todo[1].do = "visit" /\ todo[1].node = here /\ here \in DOMAIN ast.nodes
         /\ \E l \in Nat, r \in Nat, items \in Seq(Item) : AroundLeft(items, l, r)
<1> DEFINE node == ast.nodes[here]
           N == Len(ast.nodes)
<1>1. Next_is("visit") /\ node.kind = "BinaryOp" /\ ast' = ast /\ KeepTables /\ node = node_at(here)
  BY DEF visit_binary_op, Visits, Next_is, node_at, Tree
<1>2. /\ todo # << >> /\ todo[1].do = "visit" /\ todo[1].node = here /\ here \in DOMAIN ast.nodes
      /\ IsAst(ast)
  BY <1>1, HeadFacts DEF Next_is, GInv
<1>3. /\ node.operands \in Seq(Nat) /\ Len(node.operands) = 2
      /\ Tiles(FirstOf(ast), N, node.operands, FirstOf(ast)[here] - 1, here - 1)
  <2>1. Children(node) = node.operands
    BY <1>1, <1>2, NodeShape
  <2>2. Tiles(FirstOf(ast), N, Children(node), FirstOf(ast)[here] - 1, here - 1)
    BY <1>2, ChildrenFacts
  <2>3. Len(node.operands) = 2
    BY <1>1, <1>2, NodeFacts, KindFacts DEF AstNode, Operands
  <2>4. node.operands \in Seq(1 .. N)
    BY <1>2, NodeShape
  <2>5. node.operands \in Seq(Nat)
    BY <2>4
  <2> QED BY <2>1, <2>2, <2>3, <2>5
<1>4. here \in Nat /\ here # 0
  BY <1>2, TreeFacts
<1>5. PICK l \in Nat, r \in Nat : l = node.operands[1] /\ r = node.operands[2]
  <2>1. PICK o \in Seq(Nat) : o = node.operands
    BY <1>3
  <2>2. Len(o) = 2
    BY <1>3, <2>1
  <2>3. 1 \in DOMAIN o /\ 2 \in DOMAIN o
    BY <2>2
  <2>4. \A i \in DOMAIN o : o[i] \in Nat
    OBVIOUS
  <2> QED BY <2>1, <2>3, <2>4
<1>6. FirstOf(ast)[l] = (FirstOf(ast)[here] - 1) + 1 /\ r = here - 1 /\ FirstOf(ast)[r] = l + 1
  <2>1. node.operands # << >> /\ 1 \in 1 .. Len(node.operands) - 1
    <3>1. PICK o \in Seq(Nat) : o = node.operands
      BY <1>3
    <3>2. Len(o) = 2
      BY <1>3, <3>1
    <3>3. o # << >> /\ 1 \in 1 .. Len(o) - 1
      BY <3>2
    <3> QED BY <3>1, <3>3
  <2> QED BY <1>3, <1>5, <2>1 DEF Tiles, Spans
<1>7. PICK first \in Item, keep \in Item, second \in Item, last \in Item :
        /\ first = item("visit", l, NoNode) /\ keep = item("keep", here, NoNode)
        /\ second = item("visit", r, NoNode) /\ last = item("binary_op", here, NoNode)
  BY <1>4 DEF item, Item, NoNode
<1>8. PICK items \in Seq(Item) : items = << first, keep, second, last >>
  <2>1. << first, keep, second, last >> \in Seq(Item)
    OBVIOUS
  <2> QED BY <2>1
<1>9. Goes_on(items)
  <2>1. /\ visit(node.operands)[1] = first /\ visit(node.operands)[2] = second
    <3>1. 1 \in DOMAIN node.operands /\ 2 \in DOMAIN node.operands
      BY <1>3
    <3> QED BY <1>5, <1>7, <3>1 DEF visit
  <2> QED BY <1>1, <1>7, <1>8, <2>1 DEF visit_binary_op
<1>10. /\ Len(items) = 4 /\ items[1] = first /\ items[2] = keep /\ items[3] = second /\ items[4] = last
  BY <1>8
<1>11. FirstOf(ast)[l] = FirstOf(ast)[here] /\ here = r + 1
  <2>1. FirstOf(ast)[here] \in Nat
    BY <1>2, TreeFacts
  <2> QED BY <1>4, <1>6, <2>1
<1>12. AroundLeft(items, l, r)
  BY <1>1, <1>5, <1>6, <1>7, <1>9, <1>10, <1>11 DEF AroundLeft
<1> QED BY <1>2, <1>12

LEMMA BinaryNaming ==
  ASSUME GInv, NamingInv, visit_binary_op
  PROVE  NamingInv'
<1>1. ast' = ast /\ KeepTables
  BY DEF visit_binary_op, Tree
<1>2. /\ todo # << >> /\ todo[1].do = "visit" /\ todo[1].node = here /\ here \in DOMAIN ast.nodes
      /\ \E l \in Nat, r \in Nat, items \in Seq(Item) : AroundLeft(items, l, r)
  BY BinaryItems
<1>3. PICK l \in Nat, r \in Nat, items \in Seq(Item) : AroundLeft(items, l, r)
  BY <1>2
<1>4. ASSUME NEW a \in Nat, NEW z \in Nat, Covers(ast, todo[1], a, z)
      PROVE  \E e : Tiled(ast, e, items) /\ e[1] = a /\ e[Len(items) + 1] = z
  <2> DEFINE e == [j \in 1 .. 5 |-> IF j = 1 THEN a ELSE IF j \in {2, 3} THEN l ELSE IF j = 4 THEN r ELSE z]
  <2>1. e \in [1 .. 5 -> Nat] /\ e[1] = a /\ e[2] = l /\ e[3] = l /\ e[4] = r /\ e[5] = z
    OBVIOUS
  <2> HIDE DEF e
  <2>2. FirstOf(ast)[here] = a + 1 /\ z = here
    BY <1>2, <1>4 DEF Covers
  <2>3. FirstOf(ast)[l] = a + 1 /\ here = r + 1
    BY <1>3, <2>2 DEF AroundLeft
  <2>4. /\ Covers(ast, items[1], a, l) /\ Covers(ast, items[2], l, l)
        /\ Covers(ast, items[3], l, r) /\ Covers(ast, items[4], r, z)
    BY <1>3, <2>2, <2>3 DEF AroundLeft, Covers, item
  <2>5. \A j \in 1 .. 4 : j \in {1, 2, 3, 4}
    OBVIOUS
  <2>6. \A j \in 1 .. 4 : Covers(ast, items[j], e[j], e[j + 1])
    <3>1. /\ Covers(ast, items[1], e[1], e[1 + 1]) /\ Covers(ast, items[2], e[2], e[2 + 1])
          /\ Covers(ast, items[3], e[3], e[3 + 1]) /\ Covers(ast, items[4], e[4], e[4 + 1])
      BY <2>1, <2>4
    <3> QED BY <2>5, <3>1
  <2>7. Len(items) = 4
    BY <1>3 DEF AroundLeft
  <2>8. Tiled(ast, e, items)
    BY <2>1, <2>6, <2>7 DEF Tiled
  <2> QED BY <2>1, <2>7, <2>8
<1>5. Goes_on(items)
  BY <1>3 DEF AroundLeft
<1> QED BY <1>1, <1>2, <1>4, <1>5, ReplaceNaming

LEMMA HalfSteps ==
  ASSUME NEW n \in Nat, NEW j \in 1 .. 2 * n
  PROVE  /\ j % 2 = 1 => /\ (j + 1) \div 2 \in 1 .. n /\ j \div 2 + 1 = (j + 1) \div 2
         /\ j % 2 # 1 => /\ (j + 1) \div 2 = j \div 2
         /\ j \div 2 + 1 \in 1 .. n + 1 /\ (j + 1) \div 2 + 1 \in 1 .. n + 1
OBVIOUS

\* s is args with keep behind each.
Alternates(s, args, n, keep) ==
    /\ Len(s) = 2 * n
    /\ \A j \in 1 .. 2 * n : s[j] = IF j % 2 = 1 THEN args[(j + 1) \div 2] ELSE keep

From(tree, e, s, a, z) == Tiled(tree, e, s) /\ e[1] = a /\ e[Len(s) + 1] = z

LEMMA KeptTiled ==
  ASSUME NEW tree, NEW n \in Nat, NEW args, Len(args) = n, NEW t, Tiled(tree, t, args),
         NEW keep, keep.do = "keep",
         NEW s, Alternates(s, args, n, keep)
  PROVE  \E e : From(tree, e, s, t[1], t[n + 1])
<1> DEFINE m == 2 * n
           e == [j \in 1 .. m + 1 |-> t[j \div 2 + 1]]
<1>1. t \in [1 .. n + 1 -> Nat] /\ \A k \in 1 .. n : Covers(tree, args[k], t[k], t[k + 1])
  BY DEF Tiled
<1>7. Len(s) = 2 * n /\ \A j \in 1 .. 2 * n : s[j] = IF j % 2 = 1 THEN args[(j + 1) \div 2] ELSE keep
  BY DEF Alternates
<1>2. m \in Nat /\ m = 2 * n /\ (m + 1) \div 2 + 1 = n + 1 /\ 1 \div 2 + 1 = 1
  OBVIOUS
<1> HIDE DEF m
<1>3. e \in [1 .. m + 1 -> Nat]
  <2>1. \A j \in 1 .. m + 1 : j \div 2 + 1 \in 1 .. n + 1
    BY <1>2
  <2> QED BY <1>1, <2>1
<1>4. e[1] = t[1] /\ e[m + 1] = t[n + 1]
  <2>1. 1 \in 1 .. m + 1 /\ m + 1 \in 1 .. m + 1
    BY <1>2
  <2> QED BY <1>2, <2>1
<1>5. \A j \in 1 .. m : Covers(tree, s[j], e[j], e[j + 1])
  <2> TAKE j \in 1 .. m
  <2>1. j \in 1 .. m + 1 /\ j + 1 \in 1 .. m + 1 /\ j \in 1 .. 2 * n
    BY <1>2
  <2>2. e[j] = t[j \div 2 + 1] /\ e[j + 1] = t[(j + 1) \div 2 + 1]
    BY <2>1
  <2>3. s[j] = IF j % 2 = 1 THEN args[(j + 1) \div 2] ELSE keep
    BY <1>7, <2>1
  <2> HIDE DEF e
  <2>4. CASE j % 2 = 1
    <3>1. (j + 1) \div 2 \in 1 .. n /\ j \div 2 + 1 = (j + 1) \div 2
      BY <2>1, <2>4, HalfSteps
    <3>2. Covers(tree, args[(j + 1) \div 2], t[(j + 1) \div 2], t[(j + 1) \div 2 + 1])
      BY <1>1, <3>1
    <3> QED BY <2>2, <2>3, <2>4, <3>1, <3>2
  <2>5. CASE j % 2 # 1
    <3>1. (j + 1) \div 2 = j \div 2
      BY <2>1, <2>5, HalfSteps
    <3>2. e[j + 1] = e[j] /\ s[j] = keep
      BY <2>2, <2>3, <2>5, <3>1
    <3> QED BY <3>2 DEF Covers
  <2> QED BY <2>4, <2>5
<1> HIDE DEF e
<1>6. Tiled(tree, e, s)
  BY <1>2, <1>3, <1>5, <1>7 DEF Tiled
<1> QED BY <1>2, <1>4, <1>6, <1>7 DEF From

LEMMA WithoutLast ==
  ASSUME NEW m \in Nat, NEW items \in Seq(Item), Len(items) = m + 1, NEW l, items[m + 1] = l
  PROVE  \E s \in Seq(Item) : Len(s) = m /\ Extended(items, s, l) /\ \A j \in 1 .. m : s[j] = items[j]
<1> DEFINE s == [j \in 1 .. m |-> items[j]]
<1>1. \A j \in 1 .. m : items[j] \in Item
  OBVIOUS
<1>2. s \in Seq(Item) /\ Len(s) = m /\ \A j \in 1 .. m : s[j] = items[j]
  BY <1>1
<1> HIDE DEF s
<1> QED BY <1>2 DEF Extended

\* The items of a call: a visit of each argument, and what keeps its value.
Arguments_kept(items, s, n, t) ==
    LET call_here == item("call", here, functions_[node_at(here).name]) IN
    /\ Goes_on(items) /\ Extended(items, s, call_here) /\ call_here \in Item
    /\ Len(visit(node_at(here).operands)) = n
    /\ Alternates(s, visit(node_at(here).operands), n, item("keep", here, NoNode))
    /\ Tiled(ast, t, visit(node_at(here).operands))
    /\ t[1] + 1 = FirstOf(ast)[here] /\ t[n + 1] + 1 = here
    /\ functions_[node_at(here).name] \in Functions(ast, node_at(here).name)

LEMMA ArgumentItems ==
  ASSUME GInv, visit_function_call, outcome' = outcome
  PROVE  /\ todo # << >> /\ todo[1].do = "visit" /\ todo[1].node = here /\ here \in DOMAIN ast.nodes
         /\ \E n \in Nat, s \in Seq(Item), items \in Seq(Item) : \E t : Arguments_kept(items, s, n, t)
<1> DEFINE f == functions_[node_at(here).name]
           node == ast.nodes[here]
           N == Len(ast.nodes)
           args == visit(node_at(here).operands)
           keep == item("keep", here, NoNode)
           last == item("call", here, f)
<1>1. Next_is("visit") /\ node_at(here).kind = "FunctionCall" /\ ast' = ast /\ node = node_at(here)
  BY DEF visit_function_call, Visits, Next_is, node_at, Tree
<1>2. /\ todo # << >> /\ todo[1].do = "visit" /\ todo[1].node = here /\ here \in DOMAIN ast.nodes
      /\ IsAst(ast)
  BY <1>1, HeadFacts DEF Next_is, GInv
<1>3. KeepTables /\ f # NoNode /\ Goes_on(Kept_each(args, Len(args), keep) \o << last >>)
  BY DEF visit_function_call, Visits, Next_is, Generating, Throw, Kept_each
<1>4. f \in Functions(ast, node_at(here).name)
  <2>1. node_at(here).name \in Symbol
    BY <1>1, <1>2, KindFacts, NamedKinds DEF node_at, Symbol
  <2> QED BY <1>2, <1>3, <2>1 DEF GInv, NamesInv
<1>5. here \in Nat /\ here - 1 \in Nat /\ here = (here - 1) + 1 /\ f \in Nat
  <2>1. f \in DOMAIN ast.nodes /\ here # 0
    BY <1>2, <1>4, TreeFacts DEF Functions
  <2> QED BY <1>2, <2>1, TreeFacts
<1>6. keep \in Item /\ last \in Item
  BY <1>5 DEF item, Item, NoNode
<1>7. keep.do = "keep" /\ last.do = "call" /\ last.node = here
  BY DEF item
<1>8. args \in Seq(Item) /\ Len(args) \in Nat
  <2>1. node.operands \in Seq(DOMAIN ast.nodes)
    BY <1>2, NodeFacts, SeqOf DEF AstNode
  <2>2. args \in Seq(Item)
    BY <1>1, <1>2, <2>1, VisitList
  <2> QED BY <2>2
<1>9. Tiles(FirstOf(ast), N, node.operands, FirstOf(ast)[here] - 1, here - 1)
  <2>1. node.kind \notin {"FunctionDeclaration", "If"}
    BY <1>1
  <2>2. Children(node) = node.operands
    BY <1>2, <2>1, NodeShape
  <2> QED BY <1>2, <2>2, ChildrenFacts
<1> HIDE DEF keep, last, f
<1>10. PICK n \in Nat, as \in Seq(Item), k \in Item, l \in Item :
         as = args /\ n = Len(args) /\ k = keep /\ l = last
  BY <1>6, <1>8
<1>11. PICK t : Tiled(ast, t, as) /\ t[1] = FirstOf(ast)[here] - 1 /\ t[n + 1] = here - 1
  BY <1>1, <1>9, <1>10, ListTiled
<1> HIDE DEF args
<1>12. PICK items : Goes_on(items) /\ KeepsEach(items, Item, as, n, k, l)
  <2>1. PICK items : items = Kept_each(as, n, k) \o << l >>
    OBVIOUS
  <2>2. Goes_on(items)
    BY <1>3, <1>10, <2>1
  <2> QED BY <1>10, <2>1, <2>2, CallSequence
<1>13. PICK m \in Nat : m = 2 * n
  OBVIOUS
<1>14. PICK s \in Seq(Item) : Len(s) = m /\ Extended(items, s, l) /\ \A j \in 1 .. m : s[j] = items[j]
  <2>1. items \in Seq(Item) /\ Len(items) = m + 1 /\ items[m + 1] = l
    BY <1>12, <1>13 DEF KeepsEach
  <2> QED BY <1>13, <2>1, WithoutLast
<1>15. \A j \in 1 .. 2 * n : s[j] = IF j % 2 = 1 THEN as[(j + 1) \div 2] ELSE k
  BY <1>12, <1>13, <1>14 DEF KeepsEach
<1>17. items \in Seq(Item) /\ Extended(items, s, l)
  BY <1>12, <1>14 DEF KeepsEach
<1>18. Alternates(s, as, n, k)
  BY <1>13, <1>14, <1>15 DEF Alternates
<1>19. t[1] + 1 = FirstOf(ast)[here] /\ t[n + 1] + 1 = here
  <2>1. FirstOf(ast)[here] \in Nat
    BY <1>2, TreeFacts
  <2> QED BY <1>5, <1>11, <2>1
<1>20. Arguments_kept(items, s, n, t)
  BY <1>1, <1>4, <1>10, <1>11, <1>12, <1>17, <1>18, <1>19 DEF Arguments_kept, args, keep, last, f
<1> QED BY <1>2, <1>14, <1>17, <1>20

LEMMA CallNaming ==
  ASSUME GInv, NamingInv, visit_function_call, outcome' = outcome
  PROVE  NamingInv'
<1>1. ast' = ast /\ KeepTables
  BY DEF visit_function_call, Throw, KeepTables, Tree
<1>2. /\ todo # << >> /\ todo[1].do = "visit" /\ todo[1].node = here /\ here \in DOMAIN ast.nodes
      /\ \E n \in Nat, s \in Seq(Item), items \in Seq(Item) : \E t : Arguments_kept(items, s, n, t)
  BY ArgumentItems
<1>3. PICK n \in Nat, s \in Seq(Item), items \in Seq(Item) : \E t : Arguments_kept(items, s, n, t)
  BY <1>2
<1>4. PICK t : Arguments_kept(items, s, n, t)
  BY <1>3
<1>5. PICK as, k, l : /\ as = visit(node_at(here).operands) /\ k = item("keep", here, NoNode)
                      /\ l = item("call", here, functions_[node_at(here).name])
  OBVIOUS
<1>6. /\ Goes_on(items) /\ Extended(items, s, l) /\ l \in Item /\ Len(as) = n
      /\ Alternates(s, as, n, k) /\ Tiled(ast, t, as)
      /\ t[1] + 1 = FirstOf(ast)[here] /\ t[n + 1] + 1 = here
  BY <1>4, <1>5 DEF Arguments_kept
<1>7. k.do = "keep" /\ l.do = "call" /\ l.node = here
  BY <1>5 DEF item
<1>8. PICK e : Tiled(ast, e, s) /\ e[1] = t[1] /\ e[Len(s) + 1] = t[n + 1]
  <2>1. \E e : From(ast, e, s, t[1], t[n + 1])
    BY <1>6, <1>7, KeptTiled, Zenon
  <2> QED BY <2>1 DEF From
<1>9. Covers(ast, l, e[Len(s) + 1], here)
  BY <1>6, <1>7, <1>8 DEF Covers
<1>10. here \in Nat
  BY <1>2, TreeFacts DEF GInv
<1>11. PICK d : Tiled(ast, d, items) /\ d[1] = e[1] /\ d[Len(items) + 1] = here
  BY <1>6, <1>8, <1>9, <1>10, ThenTiled
<1>12. t[1] \in Nat
  BY <1>6 DEF Tiled
<1>13. ASSUME NEW a \in Nat, NEW z \in Nat, Covers(ast, todo[1], a, z)
       PROVE  \E c : Tiled(ast, c, items) /\ c[1] = a /\ c[Len(items) + 1] = z
  <2>1. FirstOf(ast)[here] = a + 1 /\ z = here
    BY <1>2, <1>13 DEF Covers
  <2>2. t[1] = a
    BY <1>6, <1>12, <2>1
  <2> QED BY <1>8, <1>11, <2>1, <2>2
<1> QED BY <1>1, <1>2, <1>6, <1>13, ReplaceNaming

-------------------------------------------------------------------------------

LEMMA ThrowNaming ==
  ASSUME NamingInv, Tree, NEW reason, Throw(reason)
  PROVE  NamingInv'
BY SameNaming DEF Throw, Tree, KeepTables

\* Operators, stores, returns and calls, once their operands are done.
LEMMA WorkNaming ==
  ASSUME GInv, NamingInv,
         \/ visit_literal \/ keep_value \/ binary_op \/ unary_op \/ store_value \/ visit_variable_lookup
         \/ call \/ return \/ end_else
  PROVE  NamingInv'
<1>1. CASE \E reason \in Failure \cup {"undefined behaviour"} : Throw(reason) /\ Tree
  BY <1>1, ThrowNaming
<1>2. CASE ~ \E reason \in Failure \cup {"undefined behaviour"} : Throw(reason) /\ Tree
  <2>1. /\ Goes_on(<< >>) /\ KeepTables /\ ast' = ast
        /\ \/ Next_is("visit") /\ node_at(here).kind \in Literal \cup {"VariableLookup"}
           \/ \E what \in {"keep", "binary_op", "unary_op", "store", "call", "return", "end_else"} : Next_is(what)
    <3>1. {"unknown variable", "no value", "undefined behaviour"} \subseteq Failure \cup {"undefined behaviour"}
      BY DEF Failure
    <3>2. CASE visit_literal \/ keep_value \/ end_else
      BY <3>2 DEF visit_literal, keep_value, end_else, Tree
    <3>3. CASE binary_op \/ unary_op \/ store_value
      BY <1>2, <3>1, <3>3 DEF binary_op, unary_op, store_value, Tree
    <3>4. CASE visit_variable_lookup \/ call \/ return
      BY <1>2, <3>1, <3>4 DEF visit_variable_lookup, Visits, Next_is, call, return, Tree
    <3> QED BY <3>2, <3>3, <3>4
  <2>2. /\ todo # << >>
        /\ \/ todo[1].do = "visit" /\ node_at(here).kind \in Literal \cup {"VariableLookup"}
           \/ todo[1].do \in {"keep", "binary_op", "unary_op", "store", "call", "return", "end_else"}
    BY <2>1, HeadFacts DEF Next_is
  <2>3. \/ todo[1].do = "visit" /\ node_at(here).kind \in Literal \cup {"VariableLookup"}
        \/ todo[1].do \notin {"visit", "bind", "end_function", "branch", "end_then"}
    BY <2>2
  <2> QED BY <2>1, <2>2, <2>3, QuietDone
<1> QED BY <1>1, <1>2

\* Visits that go on with the operands of a node.
LEMMA VisitNaming ==
  ASSUME GInv, NamingInv,
         \/ visit_unary_op \/ visit_variable_declaration \/ visit_function_return \/ visit_if
         \/ visit_constant_declaration
  PROVE  NamingInv'
<1>1. PICK what : /\ Next_is("visit") /\ ast' = ast /\ KeepTables
         /\ Goes_on(visit(node_at(here).operands) \o << item(what, here, NoNode) >>)
         /\ what \in {"unary_op", "bind", "return", "branch", "define_constant"}
         /\ \/ /\ what \notin {"visit", "keep", "branch", "end_then"}
               /\ node_at(here).kind \notin {"FunctionDeclaration", "If"}
            \/ what = "branch" /\ node_at(here).kind = "If"
  <2>1. CASE visit_unary_op
    BY <2>1 DEF visit_unary_op, Visits, Next_is, Tree
  <2>2. CASE visit_variable_declaration
    BY <2>2 DEF visit_variable_declaration, Visits, Next_is, Tree
  <2>3. CASE visit_function_return
    BY <2>3 DEF visit_function_return, Visits, Next_is, Tree
  <2>4. CASE visit_if
    BY <2>4 DEF visit_if, Visits, Next_is, Tree
  <2>5. CASE visit_constant_declaration
    BY <2>5 DEF visit_constant_declaration, Visits, Next_is, Tree
  <2> QED BY <2>1, <2>2, <2>3, <2>4, <2>5
<1>2. todo # << >> /\ todo[1].do = "visit" /\ here \in Nat /\ here \in DOMAIN ast.nodes
  BY <1>1, HeadFacts, TreeFacts DEF Next_is, GInv
<1>3. item(what, here, NoNode) \in Item
  BY <1>1, <1>2 DEF item, Item, NoNode
<1> QED BY <1>1, <1>2, <1>3, OperandNaming

\* What a variable that is assigned or looked up is found as.
LEMMA NamedStorage ==
  ASSUME GInv, Next_is("visit"), node_at(here).kind \in {"VariableLookup", "VariableAssignment"}
  PROVE  /\ todo # << >> /\ todo[1].do = "visit" /\ here = todo[1].node /\ here \in DOMAIN ast.nodes
         /\ current_function_ # NoNode /\ node_at(here).name \in Name
         /\ named_values_[node_at(here).name] \in {NoNode} \cup Storage(ast)
<1>1. /\ todo # << >> /\ todo[1].do = "visit" /\ todo[1].node = here /\ current_function_ # NoNode
      /\ here \in DOMAIN ast.nodes
  BY VisitingFacts, KindsVisited
<1>2. node_at(here).kind \in Named
  BY NamedKinds
<1>3. node_at(here).name \in Name
  BY <1>1, <1>2, KindFacts DEF GInv, node_at
<1> QED BY <1>1, <1>2, <1>3, NamedValue

LEMMA AssignmentNaming ==
  ASSUME GInv, NamingInv, visit_variable_assignment
  PROVE  NamingInv'
<1> DEFINE d == named_values_[node_at(here).name]
<1>1. Next_is("visit") /\ node_at(here).kind = "VariableAssignment" /\ Tree
  BY DEF visit_variable_assignment, Visits, Next_is
<1>2. CASE Throw("unknown variable")
  BY <1>1, <1>2, ThrowNaming
<1>3. CASE ~ Throw("unknown variable")
  <2>1. d # NoNode /\ Goes_on(visit(node_at(here).operands) \o << item("store", here, d) >>) /\ KeepTables
    BY <1>3 DEF visit_variable_assignment
  <2>2. todo # << >> /\ todo[1].do = "visit" /\ here \in DOMAIN ast.nodes /\ d \in {NoNode} \cup Storage(ast)
    BY <1>1, NamedStorage
  <2>3. here \in Nat /\ d \in Nat
    BY <2>1, <2>2, TreeFacts, StorageFacts DEF GInv
  <2> HIDE DEF d
  <2>4. item("store", here, d) \in Item
    BY <2>3 DEF item, Item
  <2>5. /\ "store" \notin {"visit", "keep", "branch", "end_then"}
        /\ node_at(here).kind \notin {"FunctionDeclaration", "If"}
    BY <1>1
  <2> QED BY <1>1, <2>1, <2>2, <2>4, <2>5, SameTree, OperandNaming
<1> QED BY <1>2, <1>3

LEMMA BranchesNaming ==
  ASSUME GInv, NamingInv, branch \/ end_then
  PROVE  NamingInv'
<1>1. Next_is("branch") \/ Next_is("end_then")
  BY DEF branch, end_then
<1>2. /\ todo # << >> /\ here \in DOMAIN ast.nodes /\ here \in Nat /\ todo[1] \in Item
      /\ entry_here = todo[1].entry
  BY <1>1, HeadFacts, TreeFacts DEF Next_is, GInv
<1>3. CASE \E reason : Throw(reason) /\ Tree
  BY <1>3, ThrowNaming
<1>4. CASE branch /\ ~ \E reason : Throw(reason) /\ Tree
  <2>1. /\ Next_is("branch") /\ KeepTables /\ ast' = ast
        /\ Goes_on(visit(node_at(here).body) \o << item("end_then", here, Len(blocks) + 2) >>)
    BY <1>4 DEF branch, Tree
  <2>2. Len(blocks) + 2 \in Nat
    BY DEF GInv, BlocksInv
  <2>3. PICK entry \in Nat : entry = Len(blocks) + 2
    BY <2>2
  <2>4. item("end_then", here, entry) \in Item
    BY <1>2 DEF item, Item
  <2>5. todo[1].do = "branch"
    BY <1>2, <2>1, HeadFacts DEF Next_is
  <2> QED BY <1>2, <2>1, <2>3, <2>4, <2>5, BlockNaming
<1>5. CASE end_then /\ has_else(node_at(here))
  <2>1. /\ Next_is("end_then") /\ KeepTables /\ ast' = ast
        /\ Goes_on(visit(node_at(here).orelse) \o << item("end_else", here, entry_here) >>)
    BY <1>5 DEF end_then, Tree
  <2>2. PICK entry \in Nat : entry = entry_here
    BY <1>2 DEF Item
  <2>4. item("end_else", here, entry) \in Item
    BY <1>2 DEF item, Item
  <2>5. todo[1].do = "end_then"
    BY <1>2, <2>1, HeadFacts DEF Next_is
  <2> QED BY <1>2, <2>1, <2>2, <2>4, <2>5, BlockNaming
<1>6. CASE end_then /\ ~ has_else(node_at(here))
  <2>1. Next_is("end_then") /\ KeepTables /\ ast' = ast /\ Goes_on(<< >>)
    BY <1>6 DEF end_then, Tree
  <2>2. todo[1].do = "end_then"
    BY <1>2, <2>1, HeadFacts DEF Next_is
  <2> QED BY <1>2, <1>6, <2>1, <2>2, QuietDone
<1> QED BY <1>3, <1>4, <1>5, <1>6

LEMMA BindOrConstantNaming ==
  ASSUME GInv, NamingInv, bind_variable \/ define_constant
  PROVE  NamingInv'
<1>1. CASE \E reason : Throw(reason) /\ Tree
  BY <1>1, ThrowNaming
<1>2. CASE bind_variable /\ ~ \E reason : Throw(reason) /\ Tree
  <2>1. bind_variable /\ Goes_on(<< >>)
    BY <1>2 DEF bind_variable
  <2> QED BY <2>1, BindNaming
<1>3. CASE define_constant /\ ~ \E reason : Throw(reason) /\ Tree
  <2>1. define_constant /\ Goes_on(<< >>)
    BY <1>3 DEF define_constant
  <2> QED BY <2>1, ConstantNaming
<1> QED BY <1>1, <1>2, <1>3

LEMMA CallsNaming ==
  ASSUME GInv, NamingInv, visit_function_call
  PROVE  NamingInv'
<1>1. KeepTables /\ ast' = ast
  BY DEF visit_function_call, Throw, KeepTables, Tree
<1>2. CASE outcome' # outcome
  BY <1>1, <1>2, SameNaming DEF visit_function_call, Throw
<1>3. CASE outcome' = outcome
  BY <1>3, CallNaming
<1> QED BY <1>2, <1>3

\* Whatever step the generator makes, the names it knows are those of the
\* nodes that are done.
LEMMA NamingStays ==
  ASSUME GInv, NamingInv, DistinctArguments(ast), [Next]_vars
  PROVE  NamingInv'
<1>1. CASE UNCHANGED vars
  BY <1>1, SameNaming DEF vars, KeepTables
<1>2. CASE verify_module
  BY <1>2, SameNaming DEF verify_module, Tree
<1>3. CASE Next
  BY <1>2, <1>3, StartNaming, WorkNaming, BinaryNaming, VisitNaming, BindOrConstantNaming, AssignmentNaming,
     FunctionNaming, EndNaming, CallsNaming, BranchesNaming, WrapperNaming DEF Next
<1> QED BY <1>1, <1>3

LEMMA NamingStarts ==
  ASSUME IsAst(ast), todo = << >>, current_function_ = NoNode
  PROVE  NamingInv
<1> DEFINE b == [j \in 1 .. 1 |-> 0]
<1>1. b \in [1 .. 0 + 1 -> Nat] /\ b[1] = 0 /\ Len(todo) = 0
  OBVIOUS
<1> HIDE DEF b
<1>2. Tiled(ast, b, todo)
  BY <1>1 DEF Tiled
<1>3. PICK c : c = 0
  OBVIOUS
<1>4. Binds(c)
  BY DEF Binds
<1>5. \A x \in Symbol : \A f \in Functions(ast, x) : 0 < f
  BY TreeFacts DEF Functions
<1>6. Finds(c)
  BY <1>3, <1>5 DEF Finds
<1> QED BY <1>1, <1>2, <1>3, <1>4, <1>6 DEF NamingInv

-------------------------------------------------------------------------------
(***************************************************************************)
(* What names are found as: a variable as the last storage of its name     *)
(* that the function has before it, a function as one of its name.  Only a *)
(* name with nothing of the kind before it is unknown.                     *)
(***************************************************************************)

Before(tree, f, n) ==
    {d \in Storage(tree) : /\ tree.nodes[d].name = tree.nodes[n].name
                           /\ Under(tree, d, f) /\ d < FirstOf(tree)[n]}

FoundAs(tree, n, d) ==
    \E f \in DOMAIN tree.nodes :
      /\ is_function(tree.nodes[f]) /\ Under(tree, n, f)
      /\ Latest(Before(tree, f, n), d)

Variable == {"VariableLookup", "VariableAssignment"}

UsesInv ==
    \A n \in DOMAIN ast.nodes :
      uses[n] # NoNode =>
        \/ ast.nodes[n].kind = "FunctionCall" /\ uses[n] \in Functions(ast, ast.nodes[n].name)
        \/ ast.nodes[n].kind \in Variable /\ FoundAs(ast, n, uses[n])

MissedInv ==
    /\ outcome = "unknown variable" =>
         /\ todo # << >> /\ here \in DOMAIN ast.nodes
         /\ ast.nodes[here].kind \in Variable /\ FoundAs(ast, here, NoNode)
    /\ outcome = "unknown function" =>
         /\ todo # << >> /\ here \in DOMAIN ast.nodes
         /\ ast.nodes[here].kind = "FunctionCall"
         /\ \A f \in Functions(ast, ast.nodes[here].name) : FirstOf(ast)[here] <= f

LEMMA FindsLatest ==
  ASSUME GInv, NamingInv, Next_is("visit"), node_at(here).kind \in Variable
  PROVE  here \in DOMAIN ast.nodes /\ FoundAs(ast, here, named_values_[node_at(here).name])
<1> DEFINE F == current_function_
           x == node_at(here).name
<1>1. /\ todo # << >> /\ todo[1].do = "visit" /\ here = todo[1].node /\ here \in DOMAIN ast.nodes
      /\ F # NoNode /\ x \in Name
  BY NamedStorage DEF Variable
<1>2. PICK b : Tiled(ast, b, todo) /\ Binds(b[1])
  BY DEF NamingInv
<1>3. PICK a \in Nat, z \in Nat : a = b[1] /\ z = b[2] /\ FirstOf(ast)[here] = a + 1 /\ z = here
  BY <1>1, <1>2, HeadTile DEF Covers
<1>4. here < F /\ F \in DOMAIN ast.nodes
  BY <1>1, <1>2, <1>3, BeforeItsEnd
<1>5. is_function(ast.nodes[F])
  <2>1. PICK k \in 0 .. Len(todo) : Generates(k)
    BY <1>1 DEF GInv, RegionInv
  <2>2. k \in DOMAIN todo /\ todo[k].do = "end_function" /\ todo[k].node = F
    <3>1. k # 0 /\ todo[k] = item("end_function", current_function_, NoNode)
      BY <2>1 DEF Generates
    <3>2. DOMAIN todo = 1 .. Len(todo) /\ Len(todo) \in Nat
      BY DEF GInv, ItemsInv
    <3> QED BY <3>1, <3>2 DEF item
  <2> QED BY <2>2 DEF GInv, ItemsInv, Fits, is_function
<1>6. /\ FirstOf(ast)[F] <= a + 1
      /\ Latest(UpTo(ast, F, x, a), named_values_[x])
  BY <1>1, <1>2, <1>3 DEF Binds
<1>7. /\ DOMAIN ast.nodes \subseteq Nat /\ \A n \in DOMAIN ast.nodes : FirstOf(ast)[n] \in 1 .. n
  BY TreeFacts DEF GInv
<1>8. Under(ast, here, F)
  <2>1. FirstOf(ast)[here] \in Nat /\ FirstOf(ast)[F] \in Nat /\ here \in Nat /\ F \in Nat
        /\ FirstOf(ast)[here] <= here
    BY <1>1, <1>4, <1>7
  <2>2. FirstOf(ast)[F] <= here
    BY <1>3, <1>6, <2>1
  <2> QED BY <1>4, <2>1, <2>2 DEF Under
<1>9. UpTo(ast, F, x, a) = Before(ast, F, here)
  <2>1. \A d \in Storage(ast) : d \in Nat /\ (d <= a <=> d < FirstOf(ast)[here])
    BY <1>3, <1>7 DEF Storage
  <2> QED BY <2>1 DEF UpTo, Before, node_at
<1> QED BY <1>1, <1>4, <1>5, <1>6, <1>8, <1>9 DEF FoundAs

LEMMA FindsFunction ==
  ASSUME GInv, NamingInv, Next_is("visit"), node_at(here).kind = "FunctionCall"
  PROVE  /\ here \in DOMAIN ast.nodes /\ todo # << >> /\ node_at(here).name \in Symbol
         /\ functions_[node_at(here).name] \in {NoNode} \cup Functions(ast, node_at(here).name)
         /\ functions_[node_at(here).name] = NoNode =>
              \A f \in Functions(ast, node_at(here).name) : FirstOf(ast)[here] <= f
<1>1. /\ todo # << >> /\ todo[1].do = "visit" /\ here = todo[1].node /\ here \in DOMAIN ast.nodes
  BY HeadFacts DEF Next_is
<1>2. node_at(here).name \in Symbol
  BY <1>1, KindFacts, NamedKinds DEF GInv, node_at, Symbol
<1>3. functions_[node_at(here).name] \in {NoNode} \cup Functions(ast, node_at(here).name)
  BY <1>1, <1>2 DEF GInv, NamesInv
<1>4. PICK b : Tiled(ast, b, todo) /\ Finds(b[1])
  BY DEF NamingInv
<1>5. PICK a \in Nat, z \in Nat : a = b[1] /\ z = b[2] /\ FirstOf(ast)[here] = a + 1
  BY <1>1, <1>4, HeadTile DEF Covers
<1>6. ASSUME functions_[node_at(here).name] = NoNode, NEW f \in Functions(ast, node_at(here).name)
      PROVE  FirstOf(ast)[here] <= f
  <2>1. a < f
    BY <1>2, <1>4, <1>5, <1>6 DEF Finds
  <2>2. f \in Nat
    BY TreeFacts DEF Functions, GInv
  <2> QED BY <1>5, <2>1, <2>2
<1> QED BY <1>1, <1>2, <1>3, <1>6

\* Only these find names.
LEMMA OthersFindNothing ==
  ASSUME Next, ~ visit_variable_assignment, ~ visit_variable_lookup, ~ visit_function_call
  PROVE  /\ uses' = uses /\ ast' = ast
         /\ outcome' \notin {"unknown variable", "unknown function"}
            \/ (outcome' = outcome /\ outcome \notin {"unknown variable", "unknown function"})
BY DEF Next, Tree, generate, visit_literal, keep_value, visit_binary_op, binary_op, visit_unary_op,
       unary_op, visit_variable_declaration, bind_variable, store_value,
       visit_function_declaration, end_function, call,
       visit_function_return, return, visit_if, branch, end_then, end_else,
       visit_constant_declaration, define_constant, create_main_wrapper, verify_module,
       Visits, Next_is, Generating, Throw

LEMMA VariableFound ==
  ASSUME GInv, NamingInv, UsesInv, visit_variable_assignment \/ visit_variable_lookup
  PROVE  UsesInv' /\ MissedInv'
<1> DEFINE d == named_values_[node_at(here).name]
<1>1. /\ Next_is("visit") /\ node_at(here).kind \in Variable /\ ast' = ast
      /\ outcome \notin {"unknown variable", "unknown function"}
  BY DEF visit_variable_assignment, visit_variable_lookup, Visits, Next_is, Generating, Variable, Tree
<1>2. here \in DOMAIN ast.nodes /\ FoundAs(ast, here, d) /\ todo # << >>
  BY <1>1, FindsLatest, NamedStorage DEF Next_is
<1>3. ast.nodes[here].kind \in Variable
  BY <1>1 DEF node_at
<1>4. uses \in [DOMAIN ast.nodes -> {NoNode} \cup DOMAIN ast.nodes]
  BY DEF GInv, RecordsInv
<1> HIDE DEF d
<1>5. CASE outcome' = "unknown variable"
  <2>1. d = NoNode /\ todo' = todo /\ uses' = uses
    BY <1>1, <1>5 DEF visit_variable_assignment, visit_variable_lookup, Throw, d
  <2>2. UsesInv'
    BY <1>1, <2>1 DEF UsesInv
  <2>3. here' = here
    BY <2>1 DEF here
  <2>4. MissedInv'
    BY <1>1, <1>2, <1>3, <1>5, <2>1, <2>3 DEF MissedInv
  <2> QED BY <2>2, <2>4
<1>6. CASE outcome' # "unknown variable"
  <2>1. outcome' # "unknown function" /\ (uses' = uses \/ uses' = [uses EXCEPT ![here] = d])
    BY <1>1, <1>6 DEF visit_variable_assignment, visit_variable_lookup, Throw, d
  <2>2. UsesInv'
    <3> SUFFICES ASSUME NEW n \in DOMAIN ast.nodes, uses'[n] # NoNode
        PROVE  \/ ast.nodes[n].kind = "FunctionCall" /\ uses'[n] \in Functions(ast, ast.nodes[n].name)
               \/ ast.nodes[n].kind \in Variable /\ FoundAs(ast, n, uses'[n])
      BY <1>1 DEF UsesInv
    <3>1. CASE uses'[n] = uses[n]
      BY <3>1 DEF UsesInv
    <3>2. CASE uses'[n] # uses[n]
      <4>1. n = here /\ uses'[n] = d
        BY <1>2, <1>4, <2>1, <3>2
      <4> QED BY <1>2, <1>3, <4>1
    <3> QED BY <3>1, <3>2
  <2>3. MissedInv'
    BY <1>6, <2>1 DEF MissedInv
  <2> QED BY <2>2, <2>3
<1> QED BY <1>5, <1>6

LEMMA FunctionFound ==
  ASSUME GInv, NamingInv, UsesInv, visit_function_call
  PROVE  UsesInv' /\ MissedInv'
<1> DEFINE f == functions_[node_at(here).name]
<1>1. /\ Next_is("visit") /\ node_at(here).kind = "FunctionCall" /\ ast' = ast
      /\ outcome \notin {"unknown variable", "unknown function"}
  BY DEF visit_function_call, Visits, Next_is, Generating, Tree
<1>2. /\ here \in DOMAIN ast.nodes /\ todo # << >> /\ f \in {NoNode} \cup Functions(ast, node_at(here).name)
      /\ f = NoNode => \A g \in Functions(ast, node_at(here).name) : FirstOf(ast)[here] <= g
  BY <1>1, FindsFunction
<1>3. ast.nodes[here].kind = "FunctionCall" /\ node_at(here) = ast.nodes[here]
  BY <1>1 DEF node_at
<1>4. uses \in [DOMAIN ast.nodes -> {NoNode} \cup DOMAIN ast.nodes]
  BY DEF GInv, RecordsInv
<1> HIDE DEF f
<1>5. CASE outcome' = "unknown function"
  <2>1. f = NoNode /\ todo' = todo /\ uses' = uses
    BY <1>1, <1>5 DEF visit_function_call, Throw, f
  <2>2. UsesInv'
    BY <1>1, <2>1 DEF UsesInv
  <2>3. here' = here
    BY <2>1 DEF here
  <2>4. MissedInv'
    BY <1>1, <1>2, <1>3, <1>5, <2>1, <2>3 DEF MissedInv
  <2> QED BY <2>2, <2>4
<1>6. CASE outcome' # "unknown function"
  <2>1. /\ outcome' # "unknown variable"
        /\ uses' = uses \/ (f # NoNode /\ uses' = [uses EXCEPT ![here] = f])
    BY <1>1, <1>6 DEF visit_function_call, Throw, f
  <2>2. UsesInv'
    <3> SUFFICES ASSUME NEW n \in DOMAIN ast.nodes, uses'[n] # NoNode
        PROVE  \/ ast.nodes[n].kind = "FunctionCall" /\ uses'[n] \in Functions(ast, ast.nodes[n].name)
               \/ ast.nodes[n].kind \in Variable /\ FoundAs(ast, n, uses'[n])
      BY <1>1 DEF UsesInv
    <3>1. CASE uses'[n] = uses[n]
      BY <3>1 DEF UsesInv
    <3>2. CASE uses'[n] # uses[n]
      <4>1. n = here /\ uses'[n] = f /\ f # NoNode
        BY <1>2, <1>4, <2>1, <3>2
      <4> QED BY <1>2, <1>3, <4>1
    <3> QED BY <3>1, <3>2
  <2>3. MissedInv'
    BY <1>6, <2>1 DEF MissedInv
  <2> QED BY <2>2, <2>3
<1> QED BY <1>5, <1>6

LEMMA FoundStays ==
  ASSUME GInv, NamingInv, UsesInv, MissedInv, [Next]_vars
  PROVE  UsesInv' /\ MissedInv'
<1>1. CASE UNCHANGED vars
  BY <1>1 DEF vars, UsesInv, MissedInv, here
<1>2. CASE visit_variable_assignment \/ visit_variable_lookup
  BY <1>2, VariableFound
<1>3. CASE visit_function_call
  BY <1>3, FunctionFound
<1>4. CASE Next /\ ~ visit_variable_assignment /\ ~ visit_variable_lookup /\ ~ visit_function_call
  <2>1. /\ uses' = uses /\ ast' = ast
        /\ outcome' \notin {"unknown variable", "unknown function"}
    BY <1>4, OthersFindNothing
  <2>2. UsesInv'
    BY <2>1 DEF UsesInv
  <2>3. MissedInv'
    BY <2>1 DEF MissedInv
  <2> QED BY <2>2, <2>3
<1> QED BY <1>1, <1>2, <1>3, <1>4

(***************************************************************************)
(* On every tree no function of which has two arguments of one name, the   *)
(* generator finds a variable as the last storage of its name before it in *)
(* its function, a function as one of its name, and fails to find only     *)
(* what is not there.                                                      *)
(***************************************************************************)
THEOREM FindsWhatIsThere ==
  IsAst(ast) /\ DistinctArguments(ast) /\ Init /\ [][Next]_vars => [](UsesInv /\ MissedInv)
<1> DEFINE Inv == GInv /\ DistinctArguments(ast) /\ NamingInv /\ UsesInv /\ MissedInv
<1>1. IsAst(ast) /\ DistinctArguments(ast) /\ Init => Inv
  <2> SUFFICES ASSUME IsAst(ast), DistinctArguments(ast), Init PROVE Inv
    OBVIOUS
  <2>1. /\ todo = << >> /\ current_function_ = NoNode /\ outcome = "idle"
        /\ uses = [n \in DOMAIN ast.nodes |-> NoNode]
    BY DEF Init
  <2>2. NamingInv
    BY <2>1, NamingStarts
  <2>3. UsesInv /\ MissedInv
    BY <2>1 DEF UsesInv, MissedInv
  <2> QED BY <2>2, <2>3, Initial
<1>2. Inv /\ [Next]_vars => Inv'
  <2> SUFFICES ASSUME Inv, [Next]_vars
      PROVE  Inv'
    OBVIOUS
  <2>1. DistinctArguments(ast)'
    BY TreeStays DEF vars
  <2> QED BY <2>1, Inductive, NamingStays, FoundStays
<1>3. Inv => UsesInv /\ MissedInv
  OBVIOUS
<1> HIDE DEF Inv
<1> QED BY <1>1, <1>2, <1>3, PTL

-------------------------------------------------------------------------------
(***************************************************************************)
(* The types of the values.  What is left to do is walked through: a point *)
(* is the node up to which everything is done, and the operands whose      *)
(* values are kept there.                                                  *)
(***************************************************************************)

Point == [at : Nat, held : Seq(Nat)]

Passes(tree, i, p, q) ==
    LET operands == tree.nodes[i.node].operands IN
    /\ Covers(tree, i, p.at, q.at)
    /\ CASE i.do = "keep"      -> q.held = Append(p.held, p.at)
         [] i.do = "binary_op" -> p.held = Append(q.held, operands[1])
         [] i.do = "call"      -> p.held = q.held \o operands
         [] OTHER              -> q.held = p.held

\* Item j of s leads from point w[j] to the next one.
Walked(tree, w, s) ==
    /\ w \in [1 .. Len(s) + 1 -> Point]
    /\ \A j \in 1 .. Len(s) : Passes(tree, s[j], w[j], w[j + 1])

\* The type the value of node n has, by those of its operands and what the
\* generator found for its name.
ValueTypeAt(t, n) ==
    CASE node_at(n).kind \in Literal -> literal_value(n).type
      [] node_at(n).kind \in {"VariableLookup", "FunctionCall"} -> allocated_type(uses[n])
      [] node_at(n).kind \in {"BinaryOp", "UnaryOp"} ->
           IF node_at(n).op \in Comparison THEN "i1" ELSE t[node_at(n).operands[1]]
      [] OTHER -> "void"

\* Every name was found.
Answered(n) ==
    /\ node_at(n).kind = "VariableLookup" => uses[n] \in Storage(ast)
    /\ node_at(n).kind = "FunctionCall" => /\ uses[n] \in Functions(ast, node_at(n).name)
                                          /\ Len(node_at(uses[n]).params) = Len(node_at(n).operands)

\* What LLVM asks of calls and returns.
FitsItsPlace(t, n) ==
    LET node == node_at(n) IN
    /\ node.kind = "FunctionCall" =>
         /\ allocated_type(uses[n]) # "void"
         /\ \A i \in DOMAIN node_at(uses[n]).params :
              t[node.operands[i]] = allocated_type(node_at(uses[n]).params[i])
    /\ (node.kind = "FunctionReturn" /\ has_value(node)) =>
         \E f \in DOMAIN ast.nodes :
           is_function(node_at(f)) /\ Under(ast, n, f) /\ t[node.operands[1]] = allocated_type(f)

\* A record of stores: the types of a value and of what it was stored in.
StoredAs(t, s) ==
    LET node == node_at(s[1]) IN
    /\ s[1] \in DOMAIN ast.nodes
    /\ node.kind \in {"VariableDeclaration", "VariableAssignment"} /\ has_value(node)
    /\ s[2] = t[node.operands[1]]
    /\ s[3] = allocated_type(IF node.kind = "VariableAssignment" THEN uses[s[1]] ELSE s[1])

\* Everything up to node c has the types t.
TypesUpTo(t, c) ==
    /\ t = [n \in DOMAIN ast.nodes |-> t[n]]
    /\ \A n \in DOMAIN ast.nodes :
         n <= c \/ node_at(n).kind \notin Expression => t[n] = ValueTypeAt(t, n)
    /\ \A n \in DOMAIN ast.nodes : n <= c => Answered(n)
    /\ refused = {} => \A n \in DOMAIN ast.nodes : n <= c => FitsItsPlace(t, n)
    /\ \A s \in stores : s[1] <= c /\ StoredAs(t, s)

\* The values kept are those of the operands held.
KeepsTypes(t, p) ==
    /\ Len(kept) = Len(p.held)
    /\ \A k \in 1 .. Len(kept) : /\ p.held[k] \in DOMAIN ast.nodes /\ p.held[k] <= p.at
                                 /\ kept[k].type = t[p.held[k]]

\* What was found for a name goes with the item that asked for it.
Asks == {"store", "call"}

AnswersKept == \A j \in 1 .. Len(todo) : todo[j].do \in Asks => uses[todo[j].node] = todo[j].entry

\* Where the walk begins and ends.
Bounded(w) ==
    /\ outcome = "idle" => w[1] = [at |-> 0, held |-> << >>]
    /\ outcome # "idle" => w[Len(todo) + 1].at = Len(ast.nodes)

\* The last value is that of the last node done.
LastValue(t, p) ==
    (todo # << >> /\ Needs(ast, todo[1])) =>
      p.at \in DOMAIN ast.nodes /\ current_value_.type = t[p.at]

TypesInv ==
    /\ AnswersKept
    /\ \E w, t :
         /\ Walked(ast, w, todo) /\ Bounded(w)
         /\ TypesUpTo(t, w[1].at)
         /\ KeepsTypes(t, w[1])
         /\ LastValue(t, w[1])

-------------------------------------------------------------------------------
(* How the walk goes on. *)

LEMMA WalkStep ==
  ASSUME GInv, todo # << >>, ast' = ast, NEW items \in Seq(Item), Goes_on(items),
         NEW w, Walked(ast, w, todo), NEW e, Walked(ast, e, items), e[Len(items) + 1] = w[2]
  PROVE  \E d : /\ Walked(ast, d, todo)' /\ d[1] = e[1]
                /\ d[Len(todo') + 1] = w[Len(todo) + 1]
<1> DEFINE n == Len(items)
<1>1. /\ todo' \in Seq(Item)
      /\ Len(todo') = n + Len(todo) - 1
      /\ \A j \in 1 .. n : todo'[j] = items[j]
      /\ \A j \in 2 .. Len(todo) : todo'[n + j - 1] = todo[j]
  BY NewTodo
<1>2. n \in Nat /\ Len(todo) \in Nat \ {0}
  BY HeadFacts
<1> DEFINE f == [j \in 1 .. Len(todo') + 1 |-> IF j \in 1 .. n + 1 THEN e[j] ELSE w[j - n + 1]]
<1>4. /\ e \in [1 .. n + 1 -> Point]
      /\ \A j \in 1 .. n : Passes(ast, items[j], e[j], e[j + 1])
      /\ w \in [1 .. Len(todo) + 1 -> Point]
      /\ \A j \in 1 .. Len(todo) : Passes(ast, todo[j], w[j], w[j + 1])
  BY DEF Walked
<1>6. f \in [1 .. Len(todo') + 1 -> Point]
  <2>1. \A j \in 1 .. Len(todo') + 1 : j \notin 1 .. n + 1 => j - n + 1 \in 1 .. Len(todo) + 1
    BY <1>1, <1>2
  <2> HIDE DEF n
  <2> QED BY <1>4, <2>1
<1>7. f[1] = e[1]
  BY <1>1, <1>2, <1>4
<1>8. \A j \in 1 .. Len(todo') : Passes(ast, todo'[j], f[j], f[j + 1])
  <2> TAKE j \in 1 .. Len(todo')
  <2>0. j \in 1 .. Len(todo') + 1 /\ j + 1 \in 1 .. Len(todo') + 1
    BY <1>1, <1>2
  <2>1. CASE j \in 1 .. n
    <3>1. f[j] = e[j] /\ f[j + 1] = e[j + 1]
      BY <1>2, <2>0, <2>1
    <3> QED BY <1>1, <1>4, <2>1, <3>1
  <2>2. CASE j \notin 1 .. n
    <3>0. j \in Nat /\ j > n /\ j <= n + Len(todo) - 1
      BY <1>1, <1>2, <2>2
    <3>1. /\ j - n + 1 \in 2 .. Len(todo) /\ n + (j - n + 1) - 1 = j
          /\ j - n + 1 \in 1 .. Len(todo) /\ (j - n + 1) + 1 = (j + 1) - n + 1
          /\ j + 1 \notin 1 .. n + 1
      <4> HIDE DEF n
      <4> QED BY <1>2, <3>0
    <3>2. todo'[n + (j - n + 1) - 1] = todo[j - n + 1]
      BY <1>1, <3>1
    <3>3. f[j] = w[j - n + 1]
      <4>1. CASE j = n + 1
        BY <1>2, <2>0, <4>1
      <4>2. CASE j # n + 1
        BY <1>2, <2>0, <2>2, <4>2
      <4> QED BY <4>1, <4>2
    <3>4. f[j + 1] = w[(j + 1) - n + 1]
      BY <2>0, <3>1
    <3>5. Passes(ast, todo[j - n + 1], w[j - n + 1], w[(j - n + 1) + 1])
      BY <1>4, <3>1
    <3> HIDE DEF f
    <3> QED BY <3>1, <3>2, <3>3, <3>4, <3>5
  <2> QED BY <2>1, <2>2
<1>9. f[Len(todo') + 1] = w[Len(todo) + 1]
  <2> DEFINE m == Len(todo')
  <2>1. m + 1 \in 1 .. m + 1 /\ (m + 1) - n + 1 = Len(todo) + 1 /\ (m + 1 \in 1 .. n + 1 => Len(todo) = 1 /\ m + 1 = n + 1)
    <3>1. PICK l \in Nat \ {0}, i \in Nat : l = Len(todo) /\ i = n
      BY <1>2
    <3>2. m = i + l - 1
      BY <1>1, <3>1
    <3> HIDE DEF m, n
    <3>3. /\ m + 1 \in 1 .. m + 1 /\ (m + 1) - i + 1 = l + 1
          /\ m + 1 \in 1 .. i + 1 => l = 1 /\ m + 1 = i + 1
      BY <3>2
    <3> QED BY <3>1, <3>3
  <2> HIDE DEF m
  <2>2. f[m + 1] = IF m + 1 \in 1 .. n + 1 THEN e[m + 1] ELSE w[Len(todo) + 1]
    BY <2>1 DEF m
  <2>3. CASE m + 1 \in 1 .. n + 1
    BY <2>1, <2>2, <2>3 DEF m
  <2> QED BY <2>2, <2>3 DEF m
<1> HIDE DEF f
<1>10. Walked(ast, f, todo')
  BY <1>6, <1>8 DEF Walked
<1> QED BY <1>7, <1>9, <1>10

\* Nothing is kept on the way through visits, and through what does not keep.
Quiet(s) == \A j \in 1 .. Len(s) : s[j].do \notin {"keep", "binary_op", "call"}

LEMMA QuietWalk ==
  ASSUME NEW tree, NEW s, Len(s) \in Nat, Quiet(s), NEW e, Tiled(tree, e, s), NEW h \in Seq(Nat)
  PROVE  \E d : /\ Walked(tree, d, s) /\ d[1] = [at |-> e[1], held |-> h]
                /\ d[Len(s) + 1] = [at |-> e[Len(s) + 1], held |-> h]
<1> DEFINE n == Len(s)
           d == [j \in 1 .. n + 1 |-> [at |-> e[j], held |-> h]]
<1>1. e \in [1 .. n + 1 -> Nat] /\ \A j \in 1 .. n : Covers(tree, s[j], e[j], e[j + 1])
  BY DEF Tiled
<1>2. n \in Nat /\ 1 \in 1 .. n + 1 /\ n + 1 \in 1 .. n + 1 /\ \A j \in 1 .. n : j \in 1 .. n + 1 /\ j + 1 \in 1 .. n + 1
  OBVIOUS
<1>3. \A j \in 1 .. n : s[j].do \notin {"keep", "binary_op", "call"}
  BY DEF Quiet
<1> HIDE DEF n
<1>4. d \in [1 .. n + 1 -> Point]
  BY <1>1 DEF Point
<1>5. \A j \in 1 .. n : Passes(tree, s[j], d[j], d[j + 1])
  <2> TAKE j \in 1 .. n
  <2>1. d[j].at = e[j] /\ d[j].held = h /\ d[j + 1].at = e[j + 1] /\ d[j + 1].held = h
    BY <1>2
  <2> HIDE DEF d
  <2> QED BY <1>1, <1>3, <2>1 DEF Passes
<1>6. d[1] = [at |-> e[1], held |-> h] /\ d[n + 1] = [at |-> e[n + 1], held |-> h]
  BY <1>2
<1> HIDE DEF d
<1> QED BY <1>4, <1>5, <1>6 DEF Walked, n

LEMMA HeadPoint ==
  ASSUME GInv, todo # << >>, NEW w, Walked(ast, w, todo)
  PROVE  /\ w[1] \in Point /\ w[2] \in Point
         /\ Passes(ast, todo[1], w[1], w[2])
         /\ Covers(ast, todo[1], w[1].at, w[2].at)
<1>1. Len(todo) \in Nat \ {0}
  BY HeadFacts
<1>2. 1 \in 1 .. Len(todo) /\ 1 \in 1 .. Len(todo) + 1 /\ 2 \in 1 .. Len(todo) + 1 /\ 1 + 1 = 2
  BY <1>1
<1>3. /\ w \in [1 .. Len(todo) + 1 -> Point]
      /\ \A j \in 1 .. Len(todo) : Passes(ast, todo[j], w[j], w[j + 1])
  BY DEF Walked
<1>4. w[1] \in Point /\ w[2] \in Point /\ Passes(ast, todo[1], w[1], w[2])
  BY <1>2, <1>3
<1> QED BY <1>4 DEF Passes

LEMMA Points ==
  ASSUME NEW p \in Point
  PROVE  p.at \in Nat /\ p.held \in Seq(Nat) /\ p = [at |-> p.at, held |-> p.held]
BY DEF Point

-------------------------------------------------------------------------------
(* What is said of a node depends on its operands, which come before it. *)

LEMMA OperandsBefore ==
  ASSUME IsAst(ast), NEW n \in DOMAIN ast.nodes
  PROVE  /\ n \in Nat
         /\ DOMAIN node_at(n).operands = 1 .. Len(node_at(n).operands) /\ Len(node_at(n).operands) \in Nat
         /\ \A i \in DOMAIN node_at(n).operands :
              /\ node_at(n).operands[i] \in DOMAIN ast.nodes /\ node_at(n).operands[i] \in Nat
              /\ node_at(n).operands[i] < n
         /\ has_value(node_at(n)) => 1 \in DOMAIN node_at(n).operands
         /\ node_at(n).kind \in {"BinaryOp", "UnaryOp"} => 1 \in DOMAIN node_at(n).operands
<1>1. DOMAIN ast.nodes = 1 .. Len(ast.nodes) /\ Len(ast.nodes) \in Nat
  BY TreeFacts
<1>2. n \in Nat /\ n - 1 \in Nat /\ n <= Len(ast.nodes)
  BY <1>1
<1> DEFINE S == {m \in 1 .. n - 1 : ast.nodes[m].kind \in Expression}
           o == ast.nodes[n].operands
<1>3. o \in Seq(S) /\ Len(o) \in Operands(ast.nodes[n].kind)
  BY DEF IsAst
<1>4. \A m \in S : m \in DOMAIN ast.nodes /\ m \in Nat /\ m < n
  BY <1>1, <1>2
<1> HIDE DEF S
<1>5. PICK p \in Seq(S) : p = o
  BY <1>3
<1>6. DOMAIN p = 1 .. Len(p) /\ Len(p) \in Nat /\ \A i \in DOMAIN p : p[i] \in S
  OBVIOUS
<1>7. p # << >> => 1 \in DOMAIN p
  BY <1>6
<1>8. ast.nodes[n].kind \in {"BinaryOp", "UnaryOp"} => Len(p) \in {1, 2}
  BY <1>3, <1>5 DEF Operands
<1>9. ast.nodes[n].kind \in {"BinaryOp", "UnaryOp"} => 1 \in DOMAIN p
  BY <1>6, <1>8
<1> QED BY <1>2, <1>4, <1>5, <1>6, <1>7, <1>9 DEF node_at, has_value

LEMMA SameTypeAt ==
  ASSUME ast' = ast, result_type' = result_type, NEW t, NEW u, NEW m \in DOMAIN ast.nodes,
         uses'[m] = uses[m],
         node_at(m).kind \in {"BinaryOp", "UnaryOp"} => u[node_at(m).operands[1]] = t[node_at(m).operands[1]]
  PROVE  /\ ValueTypeAt(u, m)' = ValueTypeAt(t, m)
         /\ Answered(m)' <=> Answered(m)
<1>1. node_at(m)' = node_at(m) /\ literal_value(m)' = literal_value(m)
  BY DEF node_at, literal_value
<1>2. allocated_type(uses[m])' = allocated_type(uses[m])
  BY DEF allocated_type, node_at
<1>3. ValueTypeAt(u, m)' = ValueTypeAt(t, m)
  BY <1>1, <1>2 DEF ValueTypeAt
<1>4. Answered(m)' <=> Answered(m)
  BY DEF Answered, node_at
<1> QED BY <1>3, <1>4

LEMMA SameFit ==
  ASSUME IsAst(ast), ast' = ast, NEW t, NEW u, NEW m \in DOMAIN ast.nodes, uses'[m] = uses[m], Answered(m),
         \A i \in DOMAIN node_at(m).operands : u[node_at(m).operands[i]] = t[node_at(m).operands[i]],
         FitsItsPlace(t, m)
  PROVE  FitsItsPlace(u, m)'
<1>1. \A d : node_at(d)' = node_at(d) /\ allocated_type(d)' = allocated_type(d)
  BY DEF allocated_type, node_at
<1>2. has_value(node_at(m)) => 1 \in DOMAIN node_at(m).operands
  BY OperandsBefore
<1>3. ASSUME node_at(m).kind = "FunctionCall", NEW i \in DOMAIN node_at(uses[m]).params
      PROVE  i \in DOMAIN node_at(m).operands
  <2>1. uses[m] \in DOMAIN ast.nodes /\ Len(node_at(uses[m]).params) = Len(node_at(m).operands)
    BY <1>3 DEF Answered, Functions
  <2>2. node_at(uses[m]).params \in Seq(Nat) /\ node_at(m).operands \in Seq(Nat)
    BY <2>1, NodeFacts DEF node_at, AstNode
  <2>3. DOMAIN node_at(uses[m]).params = 1 .. Len(node_at(uses[m]).params)
        /\ DOMAIN node_at(m).operands = 1 .. Len(node_at(m).operands)
    BY <2>2
  <2> QED BY <1>3, <2>1, <2>3
<1>4. ASSUME node_at(m).kind = "FunctionCall"
      PROVE  /\ allocated_type(uses[m]) # "void"
             /\ \A i \in DOMAIN node_at(uses[m]).params :
                  u[node_at(m).operands[i]] = allocated_type(node_at(uses[m]).params[i])
  BY <1>3, <1>4 DEF FitsItsPlace
<1>5. ASSUME node_at(m).kind = "FunctionReturn", has_value(node_at(m))
      PROVE  \E f \in DOMAIN ast.nodes :
               /\ is_function(node_at(f)) /\ Under(ast, m, f)
               /\ u[node_at(m).operands[1]] = allocated_type(f)
  BY <1>2, <1>5 DEF FitsItsPlace
<1> HIDE DEF FitsItsPlace
<1> QED BY <1>1, <1>4, <1>5 DEF FitsItsPlace

LEMMA SameStored ==
  ASSUME IsAst(ast), ast' = ast, NEW t, NEW u, NEW s, StoredAs(t, s), uses'[s[1]] = uses[s[1]],
         \A i \in DOMAIN node_at(s[1]).operands : u[node_at(s[1]).operands[i]] = t[node_at(s[1]).operands[i]]
  PROVE  StoredAs(u, s)'
<1>1. \A d : node_at(d)' = node_at(d) /\ allocated_type(d)' = allocated_type(d)
  BY DEF allocated_type, node_at
<1>2. s[1] \in DOMAIN ast.nodes /\ 1 \in DOMAIN node_at(s[1]).operands
  BY OperandsBefore DEF StoredAs
<1> QED BY <1>1, <1>2 DEF StoredAs

\* The step does node n, and its value has the type.
Completes(t, n, type) ==
    /\ \A m \in DOMAIN ast.nodes : m # n => uses'[m] = uses[m]
    /\ node_at(n).kind \in Expression => type = ValueTypeAt(t, n)'
    /\ Answered(n)'
    /\ refused \subseteq refused'
    /\ refused' = {} => FitsItsPlace(t, n)'
    /\ \A s \in stores' : s \in stores \/ (s[1] = n /\ StoredAs(t, s)')

\* One more node is done, the first that was not.
LEMMA AdvanceTypes ==
  ASSUME IsAst(ast), ast' = ast, result_type' = result_type,
         NEW t, NEW c \in Nat, TypesUpTo(t, c), NEW n \in DOMAIN ast.nodes, n = c + 1,
         NEW type, Completes(t, n, type)
  PROVE  \E u : /\ TypesUpTo(u, n)'
                /\ \A m \in DOMAIN ast.nodes : m <= c => u[m] = t[m]
                /\ node_at(n).kind \in Expression => u[n] = type
<1> USE DEF Completes
<1> DEFINE u == [t EXCEPT ![n] = IF node_at(n).kind \in Expression THEN type ELSE t[n]]
<1>1. PICK d : d = u
  OBVIOUS
<1>2. /\ t = [m \in DOMAIN ast.nodes |-> t[m]]
      /\ \A m \in DOMAIN ast.nodes : m <= c \/ node_at(m).kind \notin Expression => t[m] = ValueTypeAt(t, m)
      /\ \A m \in DOMAIN ast.nodes : m <= c => Answered(m)
      /\ refused = {} => \A m \in DOMAIN ast.nodes : m <= c => FitsItsPlace(t, m)
      /\ \A s \in stores : s[1] <= c /\ StoredAs(t, s)
  BY DEF TypesUpTo
<1>3. /\ d = [m \in DOMAIN ast.nodes |-> d[m]]
      /\ \A m \in DOMAIN ast.nodes : m # n => d[m] = t[m]
      /\ node_at(n).kind \in Expression => d[n] = type
      /\ node_at(n).kind \notin Expression => d[n] = t[n]
  BY <1>1, <1>2
<1> HIDE DEF u
<1>4. \A m \in DOMAIN ast.nodes : m \in Nat /\ (m <= n <=> m <= c \/ m = n) /\ (m <= c => m # n)
  BY OperandsBefore
<1>5. ASSUME NEW m \in DOMAIN ast.nodes, m <= n, NEW i \in DOMAIN node_at(m).operands
      PROVE  d[node_at(m).operands[i]] = t[node_at(m).operands[i]]
  <2>1. node_at(m).operands[i] \in DOMAIN ast.nodes /\ node_at(m).operands[i] < m /\ m \in Nat
        /\ node_at(m).operands[i] \in Nat /\ n \in Nat
    BY OperandsBefore
  <2>2. node_at(m).operands[i] # n
    BY <1>5, <2>1
  <2> QED BY <1>3, <2>1, <2>2
<1>6. \A m \in DOMAIN ast.nodes : node_at(m)' = node_at(m)
  BY DEF node_at
<1>7. ASSUME NEW m \in DOMAIN ast.nodes, m <= n \/ node_at(m).kind \notin Expression
      PROVE  d[m] = ValueTypeAt(d, m)'
  <2>1. CASE node_at(m).kind \notin Expression
    <3>1. \A x : ValueTypeAt(x, m) = "void" /\ ValueTypeAt(x, m)' = "void"
      BY <1>6, <2>1, Kinds DEF ValueTypeAt
    <3>2. d[m] = t[m]
      BY <1>3, <2>1
    <3> QED BY <1>2, <2>1, <3>1, <3>2
  <2>2. CASE m <= n
    <3>1. node_at(m).kind \in {"BinaryOp", "UnaryOp"} => d[node_at(m).operands[1]] = t[node_at(m).operands[1]]
      BY <1>5, <2>2, OperandsBefore
    <3>2. CASE m = n /\ node_at(m).kind \in Expression
      <4>1. ValueTypeAt(d, m)' = ValueTypeAt(t, m)'
        BY <1>6, <3>1 DEF ValueTypeAt
      <4> QED BY <1>3, <3>2, <4>1
    <3>3. CASE m # n
      <4>1. m <= c
        BY <1>4, <2>2, <3>3
      <4>2. ValueTypeAt(d, m)' = ValueTypeAt(t, m)
        BY <3>1, <3>3, SameTypeAt
      <4> QED BY <1>2, <1>3, <3>3, <4>1, <4>2
    <3> QED BY <2>1, <3>2, <3>3
  <2> QED BY <1>7, <2>1, <2>2
<1>8. ASSUME NEW m \in DOMAIN ast.nodes, m <= n
      PROVE  Answered(m)'
  <2>1. CASE m = n
    BY <2>1
  <2>2. CASE m # n
    <3>1. Answered(m)
      BY <1>2, <1>4, <1>8, <2>2
    <3> QED BY <2>2, <3>1 DEF Answered, node_at
  <2> QED BY <2>1, <2>2
<1>9. ASSUME refused' = {}, NEW m \in DOMAIN ast.nodes, m <= n
      PROVE  FitsItsPlace(d, m)'
  <2>1. refused = {}
    BY <1>9
  <2>2. CASE m = n
    <3>1. FitsItsPlace(t, n)'
      BY <1>9
    <3>2. Answered(n)'
      OBVIOUS
    <3>3. \A i \in DOMAIN node_at(n).operands : d[node_at(n).operands[i]] = t[node_at(n).operands[i]]
      BY <1>5, <2>2, <1>9
    <3>4. FitsItsPlace(d, n)'
      <4>1. \A x : node_at(x)' = node_at(x) /\ allocated_type(x)' = allocated_type(x)
        BY DEF allocated_type, node_at
      <4>2. has_value(node_at(n)) => 1 \in DOMAIN node_at(n).operands
        BY OperandsBefore
      <4>3. ASSUME node_at(n).kind = "FunctionCall", NEW i \in DOMAIN node_at(uses'[n]).params
            PROVE  i \in DOMAIN node_at(n).operands
        <5>1. uses'[n] \in DOMAIN ast.nodes /\ Len(node_at(uses'[n]).params) = Len(node_at(n).operands)
          BY <3>2, <4>1, <4>3 DEF Answered, Functions
        <5>2. node_at(uses'[n]).params \in Seq(Nat) /\ node_at(n).operands \in Seq(Nat)
          BY <5>1, NodeFacts DEF node_at, AstNode
        <5>3. DOMAIN node_at(uses'[n]).params = 1 .. Len(node_at(uses'[n]).params)
              /\ DOMAIN node_at(n).operands = 1 .. Len(node_at(n).operands)
          BY <5>2
        <5> QED BY <4>3, <5>1, <5>3
      <4> QED BY <3>1, <3>3, <4>1, <4>2, <4>3 DEF FitsItsPlace
    <3> QED BY <2>2, <3>4
  <2>3. CASE m # n
    <3>1. m <= c
      BY <1>4, <1>9, <2>3
    <3>2. FitsItsPlace(t, m) /\ Answered(m) /\ uses'[m] = uses[m]
      BY <1>2, <2>1, <2>3, <3>1
    <3>3. \A i \in DOMAIN node_at(m).operands : d[node_at(m).operands[i]] = t[node_at(m).operands[i]]
      BY <1>5, <1>9
    <3> QED BY <3>2, <3>3, SameFit
  <2> QED BY <2>2, <2>3
<1>10. ASSUME NEW s \in stores'
       PROVE  s[1] <= n /\ StoredAs(d, s)'
  <2>1. CASE s \in stores
    <3>1. s[1] <= c /\ StoredAs(t, s) /\ s[1] \in DOMAIN ast.nodes
      BY <1>2, <2>1 DEF StoredAs
    <3>2. s[1] # n /\ s[1] <= n
      BY <1>4, <3>1
    <3>3. \A i \in DOMAIN node_at(s[1]).operands : d[node_at(s[1]).operands[i]] = t[node_at(s[1]).operands[i]]
      BY <1>5, <3>1, <3>2
    <3> QED BY <3>1, <3>2, <3>3, SameStored
  <2>2. CASE s[1] = n /\ StoredAs(t, s)'
    <3>1. n <= n
      BY <1>4
    <3>2. \A i \in DOMAIN node_at(n).operands : d[node_at(n).operands[i]] = t[node_at(n).operands[i]]
      BY <1>5, <3>1
    <3>3. has_value(node_at(n)) => 1 \in DOMAIN node_at(n).operands
      BY OperandsBefore
    <3>4. node_at(n)' = node_at(n)
      BY DEF node_at
    <3> QED BY <2>2, <3>1, <3>2, <3>3, <3>4 DEF StoredAs
  <2> QED BY <2>1, <2>2, <1>10
<1>11. DOMAIN ast'.nodes = DOMAIN ast.nodes
  OBVIOUS
<1>12. TypesUpTo(d, n)'
  BY <1>3, <1>6, <1>7, <1>8, <1>9, <1>10, <1>11 DEF TypesUpTo
<1> QED BY <1>3, <1>4, <1>12

-------------------------------------------------------------------------------
(* The steps. *)

\* What the tail of the list asked for is behind what is done.
LEMMA LaterNodes ==
  ASSUME GInv, todo # << >>, NEW w, Walked(ast, w, todo), NEW j \in 2 .. Len(todo), todo[j].do \in Asks
  PROVE  todo[j].node \in DOMAIN ast.nodes /\ w[2].at < todo[j].node
<1>1. Len(todo) \in Nat \ {0} /\ DOMAIN todo = 1 .. Len(todo)
  BY HeadFacts DEF GInv, ItemsInv
<1>2. /\ w \in [1 .. Len(todo) + 1 -> Point]
      /\ \A i \in 1 .. Len(todo) : Covers(ast, todo[i], w[i].at, w[i + 1].at)
  BY DEF Walked, Passes
<1>3. \A i \in 1 .. Len(todo) : todo[i].node \in DOMAIN ast.nodes
  BY <1>1 DEF GInv, ItemsInv, Fits
<1> DEFINE b == [i \in 1 .. Len(todo) + 1 |-> w[i].at]
<1>4. b \in [1 .. Len(todo) + 1 -> Nat]
  BY <1>2 DEF Point
<1>5. \A i \in 1 .. Len(todo) : i \in 1 .. Len(todo) + 1 /\ i + 1 \in 1 .. Len(todo) + 1
  BY <1>1
<1>6. \A i \in 1 .. Len(todo) : b[i] <= b[i + 1]
  <2> TAKE i \in 1 .. Len(todo)
  <2>1. b[i] = w[i].at /\ b[i + 1] = w[i + 1].at /\ b[i] \in Nat /\ b[i + 1] \in Nat
    BY <1>4, <1>5
  <2> QED BY <1>2, <1>3, <2>1, CoversGrow DEF GInv
<1>7. 2 \in 1 .. Len(todo) + 1 /\ j \in 1 .. Len(todo) + 1 /\ 2 <= j /\ j \in 1 .. Len(todo)
  BY <1>1
<1>8. b[2] = w[2].at /\ b[j] = w[j].at /\ b[2] \in Nat /\ b[j] \in Nat
  BY <1>4, <1>7
<1> HIDE DEF b
<1>9. b[2] <= b[j]
  <2>1. PICK n \in Nat : n = Len(todo)
    BY <1>1
  <2> QED BY <1>4, <1>6, <1>7, <2>1, Monotone
<1>10. todo[j].node = b[j] + 1
  BY <1>2, <1>7, <1>8 DEF Covers, Asks
<1> QED BY <1>3, <1>7, <1>8, <1>9, <1>10

LEMMA AnswersStep ==
  ASSUME GInv, todo # << >>, AnswersKept, NEW items \in Seq(Item), Goes_on(items),
         NEW w, Walked(ast, w, todo),
         \A m \in DOMAIN ast.nodes : w[2].at < m => uses'[m] = uses[m],
         \A j \in 1 .. Len(items) : items[j].do \in Asks => uses'[items[j].node] = items[j].entry
  PROVE  AnswersKept'
<1>1. /\ Len(todo') = Len(items) + Len(todo) - 1
      /\ \A j \in 1 .. Len(items) : todo'[j] = items[j]
      /\ \A j \in 2 .. Len(todo) : todo'[Len(items) + j - 1] = todo[j]
  BY NewTodo
<1>2. Len(items) \in Nat /\ Len(todo) \in Nat \ {0}
  BY HeadFacts
<1> SUFFICES ASSUME NEW j \in 1 .. Len(todo'), todo'[j].do \in Asks
             PROVE  uses'[todo'[j].node] = todo'[j].entry
  BY DEF AnswersKept, Asks
<1>3. CASE j \in 1 .. Len(items)
  BY <1>1, <1>3
<1>4. CASE j \notin 1 .. Len(items)
  <2>1. PICK n \in Nat, m \in Nat \ {0} : n = Len(items) /\ m = Len(todo)
    BY <1>2
  <2>2. j \in 1 .. n + m - 1 /\ j \notin 1 .. n
    BY <1>1, <1>4, <2>1
  <2>3. PICK i \in 2 .. m : n + i - 1 = j
    <3>1. j - n + 1 \in 2 .. m /\ n + (j - n + 1) - 1 = j
      BY <2>2
    <3> QED BY <3>1
  <2>4. todo'[j] = todo[i] /\ i \in 2 .. Len(todo) /\ i \in 1 .. Len(todo)
    <3>1. i \in 2 .. Len(todo) /\ i \in 1 .. Len(todo) /\ Len(items) + i - 1 = j
      BY <2>1, <2>3
    <3>2. todo'[Len(items) + i - 1] = todo[i]
      BY <1>1, <3>1
    <3> QED BY <3>1, <3>2
  <2>5. todo[i].node \in DOMAIN ast.nodes /\ w[2].at < todo[i].node
    BY <2>4, LaterNodes
  <2>6. uses[todo[i].node] = todo[i].entry
    BY <2>4 DEF AnswersKept
  <2> QED BY <2>4, <2>5, <2>6
<1> QED BY <1>3, <1>4

\* The items that take the place of one lead on to where it led.
LEMMA ReplaceTypes ==
  ASSUME GInv, todo # << >>, Tree, NEW items \in Seq(Item), Goes_on(items), AnswersKept',
         outcome # "idle", outcome' # "idle",
         NEW w, Walked(ast, w, todo), Bounded(w),
         NEW e, Walked(ast, e, items), e[Len(items) + 1] = w[2],
         NEW t, NEW p, p = e[1], TypesUpTo(t, p.at)', KeepsTypes(t, p)', LastValue(t, p)'
  PROVE  TypesInv'
<1>1. PICK d : /\ Walked(ast, d, todo)' /\ d[1] = e[1]
               /\ d[Len(todo') + 1] = w[Len(todo) + 1]
  BY WalkStep DEF Tree
<1>2. Bounded(d)'
  BY <1>1 DEF Bounded, Tree
<1>3. TypesUpTo(t, d[1].at)' /\ KeepsTypes(t, d[1])' /\ LastValue(t, d[1])'
  BY <1>1
<1> QED BY <1>1, <1>2, <1>3 DEF TypesInv

\* An item that leaves nothing to do.
LEMMA PopTypes ==
  ASSUME GInv, todo # << >>, Tree, Goes_on(<< >>), AnswersKept',
         outcome # "idle", outcome' # "idle",
         NEW w, Walked(ast, w, todo), Bounded(w),
         NEW t, NEW p, p = w[2], TypesUpTo(t, p.at)', KeepsTypes(t, p)', LastValue(t, p)'
  PROVE  TypesInv'
<1> DEFINE e == [j \in 1 .. 1 |-> p]
<1>1. p \in Point
  BY HeadPoint
<1>2. PICK items \in Seq(Item) : items = << >>
  <2>1. << >> \in Seq(Item)
    OBVIOUS
  <2> QED BY <2>1
<1>3. Len(items) = 0 /\ Goes_on(items)
  BY <1>2
<1>4. e \in [1 .. 0 + 1 -> Point] /\ e[1] = p /\ e[0 + 1] = p
  BY <1>1
<1> HIDE DEF e
<1>5. Walked(ast, e, items)
  BY <1>3, <1>4 DEF Walked
<1>6. e[Len(items) + 1] = w[2]
  BY <1>3, <1>4
<1> QED BY <1>3, <1>4, <1>5, <1>6, ReplaceTypes

\* The last node of an item that has nothing but its own node to do.
LEMMA OneNode ==
  ASSUME GInv, todo # << >>, NEW w, Walked(ast, w, todo),
         \/ todo[1].do = "visit" /\ node_at(here).kind \in Literal \cup {"VariableLookup"}
         \/ todo[1].do \notin {"visit", "keep", "branch", "end_then"}
         \/ todo[1].do = "end_then" /\ ~ has_else(node_at(here))
  PROVE  /\ here \in DOMAIN ast.nodes /\ w[1].at \in Nat
         /\ here = w[1].at + 1 /\ w[2].at = here
<1>1. PICK a \in Nat, z \in Nat : a = w[1].at /\ z = w[2].at /\ Covers(ast, todo[1], a, z)
  BY HeadPoint, Points
<1>2. here = todo[1].node /\ here \in DOMAIN ast.nodes
  BY HeadFacts
<1>3. CASE todo[1].do = "visit" /\ node_at(here).kind \in Literal \cup {"VariableLookup"}
  <2>1. FirstOf(ast)[here] = here
    BY <1>2, <1>3, Leaf DEF node_at, GInv
  <2> QED BY <1>1, <1>2, <1>3, <2>1 DEF Covers
<1>4. CASE todo[1].do \notin {"visit", "keep", "branch", "end_then"}
  BY <1>1, <1>2, <1>4 DEF Covers
<1>5. CASE todo[1].do = "end_then" /\ ~ has_else(node_at(here))
  <2>1. Spans(FirstOf(ast), << >>, a, here - 1) /\ z = here
    BY <1>1, <1>2, <1>5 DEF Covers, has_else, node_at
  <2>2. a = here - 1 /\ here \in Nat
    BY <1>2, <2>1, TreeFacts DEF Spans, GInv
  <2> QED BY <1>1, <1>2, <2>1, <2>2
<1> QED BY <1>3, <1>4, <1>5

LEMMA DoneTypes ==
  ASSUME GInv, todo # << >>, Tree, Goes_on(<< >>), outcome # "idle", outcome' # "idle",
         NEW w, Walked(ast, w, todo), Bounded(w), AnswersKept,
         NEW n \in DOMAIN ast.nodes, n = here, NEW c \in Nat, c = w[1].at, n = c + 1, w[2].at = n,
         NEW t, TypesUpTo(t, c),
         NEW type, Completes(t, n, type),
         Len(kept') = Len(w[2].held),
         \A k \in 1 .. Len(kept') : /\ w[2].held[k] \in DOMAIN ast.nodes /\ w[2].held[k] <= c
                                    /\ kept'[k].type = t[w[2].held[k]],
         Yields(ast, todo[1]) => current_value_'.type = type
  PROVE  TypesInv'
<1>1. ast' = ast /\ result_type' = result_type /\ IsAst(ast)
  BY DEF Tree, GInv
<1>2. PICK u : /\ TypesUpTo(u, n)'
               /\ \A m \in DOMAIN ast.nodes : m <= c => u[m] = t[m]
               /\ node_at(n).kind \in Expression => u[n] = type
  BY <1>1, AdvanceTypes
<1>3. PICK p \in Point : p = w[2]
  BY HeadPoint
<1>4. p.at = n
  BY <1>3
<1>5. KeepsTypes(u, p)'
  <2>1. ASSUME NEW k \in 1 .. Len(kept')
        PROVE  /\ p.held[k] \in DOMAIN ast.nodes /\ p.held[k] <= p.at /\ kept'[k].type = u[p.held[k]]
    <3>1. p.held[k] \in DOMAIN ast.nodes /\ p.held[k] <= c /\ kept'[k].type = t[p.held[k]]
      BY <1>3
    <3>2. p.held[k] \in Nat
      BY <1>1, <3>1, OperandsBefore
    <3> QED BY <1>2, <1>4, <3>1, <3>2
  <2> QED BY <1>1, <1>3, <2>1 DEF KeepsTypes
<1>6. LastValue(u, p)'
  <2> SUFFICES ASSUME todo' # << >>, Needs(ast, todo'[1])
               PROVE  p.at \in DOMAIN ast.nodes /\ current_value_'.type = u[p.at]
    BY <1>1 DEF LastValue
  <2>1. Len(todo) \in Nat \ {0} /\ Len(todo') = Len(todo) - 1 /\ todo' \in Seq(Item)
        /\ \A j \in 1 .. Len(todo) - 1 : todo'[j] = todo[j + 1]
    BY HeadFacts, Popped
  <2>2. Len(todo') # 0
    BY <2>1
  <2>3. 1 \in 1 .. Len(todo) - 1 /\ 1 + 1 = 2
    BY <2>1, <2>2
  <2>4. Follows(ast, todo[1], todo[2]) /\ todo'[1] = todo[2]
    BY <2>1, <2>3 DEF GInv, ItemsInv, Chained
  <2>5. Yields(ast, todo[1])
    BY <2>4 DEF Follows
  <2>6. node_at(n).kind \in Expression
    BY <2>5, HeadFacts, Kinds DEF Yields, Fits, node_at
  <2> QED BY <1>2, <1>4, <2>5, <2>6
<1>7. AnswersKept'
  <2>1. PICK items \in Seq(Item) : items = << >>
    <3>1. << >> \in Seq(Item)
      OBVIOUS
    <3> QED BY <3>1
  <2>2. Goes_on(items) /\ Len(items) = 0
    BY <2>1
  <2>3. \A m \in DOMAIN ast.nodes : w[2].at < m => uses'[m] = uses[m]
    <3>1. \A m \in DOMAIN ast.nodes : n < m => m # n
      BY <1>1, TreeFacts
    <3> QED BY <1>3, <1>4, <3>1, Points DEF Completes
  <2>4. \A j \in 1 .. Len(items) : items[j].do \in Asks => uses'[items[j].node] = items[j].entry
    BY <2>2
  <2> QED BY <2>2, <2>3, <2>4, AnswersStep
<1> QED BY <1>3, <1>4, <1>2, <1>5, <1>6, <1>7, PopTypes

\* Nothing is kept or taken.
LEMMA KeptAsBefore ==
  ASSUME GInv, todo # << >>, NEW w, Walked(ast, w, todo), NEW t, KeepsTypes(t, w[1]), kept' = kept,
         todo[1].do \notin {"keep", "binary_op", "call"}
  PROVE  /\ w[2].held = w[1].held
         /\ Len(kept') = Len(w[2].held)
         /\ \A k \in 1 .. Len(kept') : /\ w[2].held[k] \in DOMAIN ast.nodes /\ w[2].held[k] <= w[1].at
                                        /\ kept'[k].type = t[w[2].held[k]]
<1>1. w[2].held = w[1].held
  BY HeadPoint DEF Passes
<1> QED BY <1>1 DEF KeepsTypes

-------------------------------------------------------------------------------
(* What is done for a node after its parts. *)

\* The last node before one that has operands is the last of them.
LEMMA LastOperand ==
  ASSUME IsAst(ast), NEW n \in DOMAIN ast.nodes, node_at(n).kind \notin {"FunctionDeclaration", "If"},
         node_at(n).operands # << >>
  PROVE  node_at(n).operands[Len(node_at(n).operands)] = n - 1
<1>1. Tiles(FirstOf(ast), Len(ast.nodes), Children(ast.nodes[n]), FirstOf(ast)[n] - 1, n - 1)
  BY ChildrenFacts
<1>2. Children(ast.nodes[n]) = node_at(n).operands
  BY NodeShape DEF node_at
<1> QED BY <1>1, <1>2 DEF Tiles, Spans

\* The operand of a node of one.
LEMMA SoleOperand ==
  ASSUME IsAst(ast), NEW n \in DOMAIN ast.nodes,
         node_at(n).kind \in {"UnaryOp", "VariableDeclaration", "VariableAssignment", "FunctionReturn", "If"}
  PROVE  /\ (has_value(node_at(n)) /\ node_at(n).kind # "If") => node_at(n).operands[1] = n - 1
         /\ node_at(n).kind \in {"UnaryOp", "VariableAssignment", "If"} => has_value(node_at(n))
<1> DEFINE S == {m \in 1 .. n - 1 : ast.nodes[m].kind \in Expression}
<1>1. node_at(n).operands \in Seq(S) /\ Len(node_at(n).operands) \in Operands(node_at(n).kind)
  BY DEF IsAst, node_at
<1> HIDE DEF S
<1>2. PICK o \in Seq(S) : o = node_at(n).operands
  BY <1>1
<1>3. Len(o) \in {0, 1} /\ (node_at(n).kind \in {"UnaryOp", "VariableAssignment", "If"} => Len(o) = 1)
  BY <1>1, <1>2 DEF Operands
<1>4. o # << >> => Len(o) = 1
  BY <1>3
<1>5. Len(o) = 1 => o # << >>
  <2>1. Len(<< >>) # 1
    OBVIOUS
  <2> QED BY <2>1, Zenon
<1>6. o # << >> /\ node_at(n).kind # "If" => o[1] = n - 1
  BY <1>2, <1>4, LastOperand
<1> QED BY <1>2, <1>3, <1>5, <1>6 DEF has_value

LEMMA PlainCompletes ==
  ASSUME IsAst(ast), Tree, NEW n \in DOMAIN ast.nodes, NEW t, NEW type, uses' = uses, refused \subseteq refused',
         node_at(n).kind \notin {"VariableLookup", "FunctionCall"},
         node_at(n).kind \in Expression => type = ValueTypeAt(t, n),
         (refused' = {} /\ node_at(n).kind = "FunctionReturn") => FitsItsPlace(t, n),
         \A s \in stores' : s \in stores \/ (s[1] = n /\ StoredAs(t, s))
  PROVE  Completes(t, n, type)
<1>1. ast' = ast /\ result_type' = result_type /\ node_at(n)' = node_at(n)
  BY DEF Tree, node_at
<1>2. ValueTypeAt(t, n)' = ValueTypeAt(t, n)
  BY <1>1, SameTypeAt
<1>3. Answered(n)'
  BY <1>1 DEF Answered
<1>4. refused' = {} => FitsItsPlace(t, n)'
  <2>1. CASE node_at(n).kind = "FunctionReturn"
    <3>1. FitsItsPlace(t, n)' <=> FitsItsPlace(t, n)
      BY <1>1, <2>1 DEF FitsItsPlace, allocated_type, node_at
    <3> QED BY <2>1, <3>1
  <2>2. CASE node_at(n).kind # "FunctionReturn"
    BY <1>1, <2>2 DEF FitsItsPlace
  <2> QED BY <2>1, <2>2
<1>5. \A s : StoredAs(t, s) => StoredAs(t, s)'
  BY <1>1 DEF StoredAs, allocated_type, node_at
<1> QED BY <1>2, <1>3, <1>4, <1>5 DEF Completes

\* Up to node c everything is done and has the types t, and node n is next.
Ready(w, t, c, n) ==
    /\ n = here /\ todo[1].node = n /\ n \in DOMAIN ast.nodes /\ c \in Nat /\ n = c + 1
    /\ Walked(ast, w, todo) /\ Bounded(w) /\ w[1].at = c /\ w[2].at = n
    /\ TypesUpTo(t, c) /\ KeepsTypes(t, w[1])
    /\ Needs(ast, todo[1]) => c \in DOMAIN ast.nodes /\ current_value_.type = t[c]

\* The step does node n.
Does(t, n) == \E type : Completes(t, n, type) /\ (Yields(ast, todo[1]) => current_value_'.type = type)

LEMMA IsReady ==
  ASSUME GInv, TypesInv, todo # << >>,
         \/ todo[1].do = "visit" /\ node_at(here).kind \in Literal \cup {"VariableLookup"}
         \/ todo[1].do \notin {"visit", "keep", "branch", "end_then"}
         \/ todo[1].do = "end_then" /\ ~ has_else(node_at(here))
  PROVE  \E w, t, c, n : Ready(w, t, c, n)
<1>1. PICK w, t : /\ Walked(ast, w, todo) /\ Bounded(w)
                  /\ TypesUpTo(t, w[1].at) /\ KeepsTypes(t, w[1]) /\ LastValue(t, w[1])
  BY DEF TypesInv
<1>2. here \in DOMAIN ast.nodes /\ w[1].at \in Nat /\ here = w[1].at + 1 /\ w[2].at = here
  BY <1>1, OneNode
<1>3. todo[1].node = here
  BY HeadFacts
<1>4. PICK n \in DOMAIN ast.nodes, c \in Nat : n = here /\ c = w[1].at
  BY <1>2
<1>5. Needs(ast, todo[1]) => c \in DOMAIN ast.nodes /\ current_value_.type = t[c]
  BY <1>1, <1>4 DEF LastValue
<1>6. Ready(w, t, c, n)
  BY <1>1, <1>2, <1>3, <1>4, <1>5 DEF Ready
<1> QED BY <1>6

LEMMA DoesTypes ==
  ASSUME GInv, TypesInv, Generating, todo # << >>, Tree, Goes_on(<< >>), outcome' = outcome,
         NEW w, NEW t, NEW c, NEW n, Ready(w, t, c, n), Does(t, n),
         Len(kept') = Len(w[2].held),
         \A k \in 1 .. Len(kept') : /\ w[2].held[k] \in DOMAIN ast.nodes /\ w[2].held[k] <= c
                                    /\ kept'[k].type = t[w[2].held[k]]
  PROVE  TypesInv'
<1>1. PICK type : Completes(t, n, type) /\ (Yields(ast, todo[1]) => current_value_'.type = type)
  BY DEF Does
<1>2. AnswersKept /\ outcome # "idle" /\ outcome' # "idle"
  BY DEF TypesInv, Generating
<1>3. /\ n = here /\ n \in DOMAIN ast.nodes /\ c \in Nat /\ n = c + 1
      /\ Walked(ast, w, todo) /\ Bounded(w) /\ w[1].at = c /\ w[2].at = n /\ TypesUpTo(t, c)
  BY DEF Ready
<1> QED BY <1>1, <1>2, <1>3, DoneTypes

\* Nothing is kept or taken.
LEMMA LeafKeeps ==
  ASSUME GInv, todo # << >>, kept' = kept, todo[1].do \notin {"keep", "binary_op", "call"},
         NEW w, NEW t, NEW c, NEW n, Ready(w, t, c, n)
  PROVE  /\ Len(kept') = Len(w[2].held)
         /\ \A k \in 1 .. Len(kept') : /\ w[2].held[k] \in DOMAIN ast.nodes /\ w[2].held[k] <= c
                                       /\ kept'[k].type = t[w[2].held[k]]
<1>1. Walked(ast, w, todo) /\ KeepsTypes(t, w[1]) /\ w[1].at = c
  BY DEF Ready
<1>2. w[2].held = w[1].held
  BY <1>1, HeadPoint DEF Passes
<1>3. /\ Len(kept) = Len(w[1].held)
      /\ \A k \in 1 .. Len(kept) : /\ w[1].held[k] \in DOMAIN ast.nodes /\ w[1].held[k] <= c
                                    /\ kept[k].type = t[w[1].held[k]]
  BY <1>1 DEF KeepsTypes
<1> QED BY <1>2, <1>3

LEMMA LeafTypes ==
  ASSUME GInv, TypesInv, Generating, todo # << >>, Tree, Goes_on(<< >>), outcome' = outcome,
         kept' = kept, todo[1].do \notin {"keep", "binary_op", "call"},
         \/ todo[1].do = "visit" /\ node_at(here).kind \in Literal \cup {"VariableLookup"}
         \/ todo[1].do \notin {"visit", "keep", "branch", "end_then"}
         \/ todo[1].do = "end_then" /\ ~ has_else(node_at(here)),
         \A w, t, c, n : Ready(w, t, c, n) => Does(t, n)
  PROVE  TypesInv'
<1>1. PICK w, t, c, n : Ready(w, t, c, n)
  BY IsReady
<1>2. Does(t, n)
  BY <1>1
<1> QED BY <1>1, <1>2, LeafKeeps, DoesTypes

LEMMA visit_literalTypes == ASSUME GInv, TypesInv, visit_literal PROVE TypesInv'
<1>1. /\ Generating /\ todo # << >> /\ todo[1].do = "visit" /\ node_at(here).kind \in Literal
      /\ Tree /\ Goes_on(<< >>) /\ current_value_' = literal_value(here)
      /\ uses' = uses /\ stores' = stores /\ refused' = refused /\ kept' = kept /\ outcome' = outcome
  <2>1. Generating /\ todo # << >> /\ Head(todo).do = "visit"
    BY DEF visit_literal, Next_is
  <2> QED BY <2>1, HeadFacts DEF visit_literal, KeepBuilder
<1>2. ASSUME NEW w, NEW t, NEW c, NEW n, Ready(w, t, c, n) PROVE Does(t, n)
  <2>1. n = here /\ n \in DOMAIN ast.nodes
    BY <1>2 DEF Ready
  <2>2. literal_value(n).type = ValueTypeAt(t, n)
    BY <1>1, <2>1 DEF ValueTypeAt, Literal
  <2>3. node_at(n).kind \notin {"VariableLookup", "FunctionCall", "FunctionReturn"}
    BY <1>1, <2>1 DEF Literal
  <2>4. Completes(t, n, literal_value(n).type)
    BY <1>1, <2>1, <2>2, <2>3, PlainCompletes DEF GInv
  <2> QED BY <1>1, <2>1, <2>4 DEF Does
<1> QED BY <1>1, <1>2, LeafTypes

LEMMA visit_variable_lookupTypes ==
  ASSUME GInv, TypesInv, visit_variable_lookup, outcome' = outcome
  PROVE  TypesInv'
<1>0. PICK d : d = named_values_[node_at(here).name]
  OBVIOUS
<1>1. /\ Generating /\ todo # << >> /\ todo[1].do = "visit" /\ node_at(here).kind = "VariableLookup" /\ Tree
      /\ todo[1].node = here /\ here \in DOMAIN ast.nodes
  <2>1. Generating /\ todo # << >> /\ Head(todo).do = "visit" /\ node_at(here).kind = "VariableLookup" /\ Tree
    BY DEF visit_variable_lookup, Visits, Next_is
  <2> QED BY <2>1, HeadFacts
<1>2. /\ d # NoNode
      /\ Goes_on(<< >>) /\ current_value_' = computed(allocated_type(d)) /\ uses' = [uses EXCEPT ![here] = d]
      /\ stores' = stores /\ refused' = refused /\ kept' = kept
  BY <1>0, <1>1 DEF visit_variable_lookup, Throw, Generating
<1>3. d \in Storage(ast)
  <2>1. current_function_ # NoNode
    <3>1. node_at(here).kind \notin Literal \cup TopLevel
      BY <1>1, Kinds
    <3> QED BY <1>1, <3>1, InFunction
  <2>2. node_at(here).kind \in Named
    BY <1>1, NamedKinds
  <2> QED BY <1>0, <1>1, <1>2, <2>1, <2>2, NamedValue
<1>4. ASSUME NEW w, NEW t, NEW c, NEW n, Ready(w, t, c, n) PROVE Does(t, n)
  <2>1. n = here /\ n \in DOMAIN ast.nodes
    BY <1>4 DEF Ready
  <2>2. uses'[n] = d /\ \A m \in DOMAIN ast.nodes : m # n => uses'[m] = uses[m]
    BY <1>2, <2>1 DEF GInv, RecordsInv
  <2>3. node_at(n)' = node_at(n) /\ node_at(n).kind = "VariableLookup" /\ allocated_type(d)' = allocated_type(d)
        /\ Storage(ast)' = Storage(ast)
    BY <1>1, <2>1 DEF node_at, allocated_type, Tree, Storage
  <2>4. ValueTypeAt(t, n)' = allocated_type(d)
    BY <2>2, <2>3 DEF ValueTypeAt, Literal
  <2>5. Answered(n)' /\ FitsItsPlace(t, n)'
    BY <1>3, <2>2, <2>3 DEF Answered, FitsItsPlace
  <2>6. Completes(t, n, allocated_type(d))
    BY <1>2, <2>2, <2>4, <2>5 DEF Completes
  <2> QED BY <1>2, <2>6 DEF Does, computed
<1> QED BY <1>1, <1>2, <1>4, LeafTypes

LEMMA unary_opTypes ==
  ASSUME GInv, TypesInv, unary_op, outcome' = outcome
  PROVE  TypesInv'
<1>1. Next_is("unary_op") /\ Tree
  BY DEF unary_op
<1>2. /\ Generating /\ todo # << >> /\ todo[1].do = "unary_op" /\ todo[1].node = here /\ here \in DOMAIN ast.nodes
      /\ Fits(ast, todo[1])
  BY <1>1, WorkFacts
<1>3. /\ Goes_on(<< >>) /\ current_value_' = current_value_ /\ uses' = uses /\ stores' = stores
      /\ kept' = kept /\ refused \subseteq refused'
  BY <1>2 DEF unary_op, Throw, Generating, Refuse_unless
<1>4. node_at(here).kind = "UnaryOp"
  BY <1>2 DEF Fits, node_at
<1>5. ASSUME NEW w, NEW t, NEW c, NEW n, Ready(w, t, c, n) PROVE Does(t, n)
  <2>1. n = here /\ n \in DOMAIN ast.nodes /\ c \in Nat /\ n = c + 1 /\ current_value_.type = t[c]
    BY <1>2, <1>5 DEF Ready, Needs
  <2>2. node_at(n).operands[1] = c /\ node_at(n).op \notin Comparison
    <3>1. node_at(n).op \in UnaryOperator
      BY <1>4, <2>1 DEF GInv, IsAst, node_at, Operators
    <3>4. node_at(n).operands[1] = n - 1
      BY <1>4, <2>1, SoleOperand DEF GInv
    <3>5. UnaryOperator \cap Comparison = {}
      BY DEF UnaryOperator, Comparison
    <3> QED BY <2>1, <3>1, <3>4, <3>5
  <2>3. current_value_.type = ValueTypeAt(t, n)
    BY <1>4, <2>1, <2>2 DEF ValueTypeAt, Literal
  <2>4. Completes(t, n, current_value_.type)
    BY <1>2, <1>1, <1>3, <1>4, <2>1, <2>3, PlainCompletes DEF GInv
  <2> QED BY <1>3, <2>4 DEF Does
<1> QED BY <1>1, <1>2, <1>3, <1>5, LeafTypes

LEMMA bind_variableTypes ==
  ASSUME GInv, TypesInv, bind_variable, outcome' = outcome
  PROVE  TypesInv'
<1>1. Next_is("bind") /\ Tree
  BY DEF bind_variable
<1>2. /\ Generating /\ todo # << >> /\ todo[1].do = "bind" /\ todo[1].node = here /\ here \in DOMAIN ast.nodes
      /\ Fits(ast, todo[1])
  BY <1>1, WorkFacts
<1>3. /\ Goes_on(<< >>) /\ uses' = uses /\ kept' = kept /\ refused \subseteq refused'
      /\ \/ stores' = stores
         \/ has_value(node_at(here)) /\ stored(here, here)
  BY <1>2 DEF bind_variable, Throw, Generating, Refuse_unless
<1>4. node_at(here).kind = "VariableDeclaration"
  BY <1>2 DEF Fits, node_at
<1>5. ASSUME NEW w, NEW t, NEW c, NEW n, Ready(w, t, c, n) PROVE Does(t, n)
  <2>1. /\ n = here /\ n \in DOMAIN ast.nodes /\ c \in Nat /\ n = c + 1
        /\ has_value(node_at(n)) => current_value_.type = t[c]
    BY <1>2, <1>5 DEF Ready, Needs, node_at
  <2>2. has_value(node_at(n)) => node_at(n).operands[1] = c
    <3>1. has_value(node_at(n)) => node_at(n).operands[1] = n - 1
      BY <1>4, <2>1, SoleOperand DEF GInv
    <3> QED BY <2>1, <3>1
  <2>3. \A s \in stores' : s \in stores \/ (s[1] = n /\ StoredAs(t, s))
    <3>1. CASE stores' = stores
      BY <3>1
    <3>2. CASE has_value(node_at(here)) /\ stored(here, here)
      <4>1. PICK s : s = << n, current_value_.type, allocated_type(n) >>
        OBVIOUS
      <4>2. s[1] = n /\ s[2] = current_value_.type /\ s[3] = allocated_type(n)
        BY <4>1
      <4>3. StoredAs(t, s)
        BY <1>4, <2>1, <2>2, <3>2, <4>2 DEF StoredAs
      <4> QED BY <2>1, <3>2, <4>1, <4>2, <4>3 DEF stored
    <3> QED BY <1>3, <3>1, <3>2
  <2>4. node_at(n).kind \notin Expression
    BY <1>4, <2>1, Kinds
  <2>5. Completes(t, n, "void")
    BY <1>1, <1>3, <1>4, <2>1, <2>3, <2>4, PlainCompletes DEF GInv
  <2> QED BY <1>2, <2>5 DEF Does, Yields
<1> QED BY <1>1, <1>2, <1>3, <1>5, LeafTypes

LEMMA store_valueTypes ==
  ASSUME GInv, TypesInv, store_value, outcome' = outcome
  PROVE  TypesInv'
<1>1. Next_is("store") /\ Tree
  BY DEF store_value
<1>2. /\ Generating /\ todo # << >> /\ todo[1].do = "store" /\ todo[1].node = here /\ here \in DOMAIN ast.nodes
      /\ Fits(ast, todo[1]) /\ todo[1].entry = entry_here
  BY <1>1, WorkFacts
<1>3. /\ Goes_on(<< >>) /\ uses' = uses /\ kept' = kept /\ refused \subseteq refused' /\ stored(here, entry_here)
  BY <1>2 DEF store_value, Throw, Generating, Refuse_unless
<1>4. node_at(here).kind = "VariableAssignment"
  BY <1>2 DEF Fits, node_at
<1>5. uses[here] = entry_here
  <2>1. 1 \in 1 .. Len(todo)
    BY <1>2, HeadFacts
  <2> QED BY <1>2, <2>1 DEF TypesInv, AnswersKept, Asks
<1>6. ASSUME NEW w, NEW t, NEW c, NEW n, Ready(w, t, c, n) PROVE Does(t, n)
  <2>1. /\ n = here /\ n \in DOMAIN ast.nodes /\ c \in Nat /\ n = c + 1 /\ current_value_.type = t[c]
    BY <1>2, <1>6 DEF Ready, Needs, node_at
  <2>2. node_at(n).operands[1] = c /\ has_value(node_at(n))
    <3>1. has_value(node_at(n)) /\ node_at(n).operands[1] = n - 1
      BY <1>4, <2>1, SoleOperand DEF GInv
    <3> QED BY <2>1, <3>1
  <2>3. StoredAs(t, << n, current_value_.type, allocated_type(entry_here) >>)
    BY <1>4, <1>5, <2>1, <2>2 DEF StoredAs
  <2>4. \A s \in stores' : s \in stores \/ (s[1] = n /\ StoredAs(t, s))
    BY <1>3, <2>1, <2>3 DEF stored
  <2>5. node_at(n).kind \notin Expression
    BY <1>4, <2>1, Kinds
  <2>6. Completes(t, n, "void")
    BY <1>1, <1>3, <1>4, <2>1, <2>4, <2>5, PlainCompletes DEF GInv
  <2> QED BY <1>2, <2>6 DEF Does, Yields
<1> QED BY <1>1, <1>2, <1>3, <1>6, LeafTypes

LEMMA returnTypes ==
  ASSUME GInv, NamingInv, TypesInv, return, outcome' = outcome
  PROVE  TypesInv'
<1>1. Next_is("return") /\ Tree
  BY DEF return
<1>2. /\ Generating /\ todo # << >> /\ todo[1].do = "return" /\ todo[1].node = here /\ here \in DOMAIN ast.nodes
      /\ Fits(ast, todo[1]) /\ current_function_ # NoNode
  BY <1>1, WorkFacts
<1>3. PICK type : type = IF has_value(node_at(here)) THEN current_value_.type ELSE "void"
  OBVIOUS
<1>4. /\ Goes_on(<< >>) /\ uses' = uses /\ kept' = kept /\ stores' = stores
      /\ Refuse_unless(type = allocated_type(current_function_))
  BY <1>2, <1>3 DEF return, Throw, Generating, allocated_type
<1>5. refused \subseteq refused' /\ (refused' = {} => type = allocated_type(current_function_))
  BY <1>4 DEF Refuse_unless
<1>6. node_at(here).kind = "FunctionReturn"
  BY <1>2 DEF Fits, node_at
<1>7. PICK f \in DOMAIN ast.nodes : f = current_function_ /\ is_function(node_at(f)) /\ Under(ast, here, f)
  <2>1. PICK b : Tiled(ast, b, todo) /\ Binds(b[1])
    BY DEF NamingInv
  <2>2. b[1] \in Nat /\ b[2] \in Nat /\ here = b[1] + 1 /\ b[2] = here
    BY <1>2, <2>1, HeadTile DEF Covers
  <2>3. b[2] < current_function_ /\ current_function_ \in DOMAIN ast.nodes
    BY <1>2, <2>1, BeforeItsEnd
  <2>4. FirstOf(ast)[current_function_] <= b[1] + 1
    BY <1>2, <2>1 DEF Binds
  <2>5. FirstOf(ast)[current_function_] \in Nat /\ current_function_ \in Nat
    BY <2>3, TreeFacts DEF GInv
  <2>6. Under(ast, here, current_function_)
    BY <2>2, <2>3, <2>4, <2>5 DEF Under
  <2>7. is_function(node_at(current_function_))
    <3>1. PICK k \in 0 .. Len(todo) : Generates(k)
      BY <1>2 DEF GInv, RegionInv
    <3>2. k \in DOMAIN todo /\ todo[k] = item("end_function", current_function_, NoNode)
      <4>1. k # 0 /\ todo \in Seq(Item)
        BY <3>1 DEF Generates, GInv, ItemsInv
      <4> QED BY <3>1, <4>1 DEF Generates
    <3> QED BY <3>2 DEF GInv, ItemsInv, Fits, item, is_function, node_at
  <2> QED BY <2>3, <2>6, <2>7
<1>8. ASSUME NEW w, NEW t, NEW c, NEW n, Ready(w, t, c, n) PROVE Does(t, n)
  <2>1. /\ n = here /\ n \in DOMAIN ast.nodes /\ c \in Nat /\ n = c + 1
        /\ has_value(node_at(n)) => current_value_.type = t[c]
    BY <1>2, <1>8 DEF Ready, Needs, node_at
  <2>2. has_value(node_at(n)) => node_at(n).operands[1] = c
    <3>1. has_value(node_at(n)) => node_at(n).operands[1] = n - 1
      BY <1>6, <2>1, SoleOperand DEF GInv
    <3> QED BY <2>1, <3>1
  <2>3. refused' = {} => FitsItsPlace(t, n)
    BY <1>3, <1>5, <1>6, <1>7, <2>1, <2>2 DEF FitsItsPlace
  <2>4. node_at(n).kind \notin Expression
    BY <1>6, <2>1, Kinds
  <2>5. Completes(t, n, "void")
    BY <1>1, <1>4, <1>5, <1>6, <2>1, <2>3, <2>4, PlainCompletes DEF GInv
  <2> QED BY <1>2, <2>5 DEF Does, Yields
<1> QED BY <1>1, <1>2, <1>4, <1>8, LeafTypes

\* The end of what has no value.
LEMMA EndTypes ==
  ASSUME GInv, TypesInv, Generating, todo # << >>, Tree, Goes_on(<< >>), outcome' = outcome,
         kept' = kept, uses' = uses, stores' = stores, refused' = refused,
         \/ todo[1].do \in {"end_function", "end_else", "define_constant"}
         \/ todo[1].do = "end_then" /\ ~ has_else(node_at(here))
  PROVE  TypesInv'
<1>1. here = todo[1].node /\ Fits(ast, todo[1])
  BY HeadFacts
<1>2. node_at(here).kind \in {"FunctionDeclaration", "If", "ConstantDeclaration"}
  BY <1>1 DEF Fits, node_at
<1>3. node_at(here).kind \notin Expression
  BY <1>2, Kinds DEF TopLevel
<1>4. ASSUME NEW w, NEW t, NEW c, NEW n, Ready(w, t, c, n) PROVE Does(t, n)
  <2>1. n = here /\ n \in DOMAIN ast.nodes
    BY <1>4 DEF Ready
  <2>2. Completes(t, n, "void")
    BY <1>2, <1>3, <2>1, PlainCompletes DEF GInv
  <2>3. ~ Yields(ast, todo[1])
    BY DEF Yields
  <2> QED BY <2>2, <2>3 DEF Does
<1> QED BY <1>4, LeafTypes

\* The values that stay kept are those held before the rest.
FirstHeld(p, h, rest) ==
    /\ Len(p.held) = Len(h) + Len(rest)
    /\ \A k \in 1 .. Len(h) : p.held[k] = h[k]
    /\ \A k \in 1 .. Len(rest) : p.held[Len(h) + k] = rest[k]

KeptFirst(t, h, rest, c) ==
    /\ Len(kept') = Len(h)
    /\ \A k \in 1 .. Len(kept') : h[k] \in DOMAIN ast.nodes /\ h[k] <= c /\ kept'[k].type = t[h[k]]
    /\ \A k \in 1 .. Len(rest) : kept[Len(h) + k].type = t[rest[k]]

LEMMA FirstKept ==
  ASSUME GInv, NEW t, NEW p \in Point, KeepsTypes(t, p), NEW h \in Seq(Nat), NEW rest \in Seq(Nat),
         FirstHeld(p, h, rest), kept' = SubSeq(kept, 1, Len(h))
  PROVE  KeptFirst(t, h, rest, p.at)
<1>1. kept \in Seq(Value)
  BY DEF GInv, KeptInv
<1>2. /\ Len(kept) = Len(p.held)
      /\ \A k \in 1 .. Len(kept) : /\ p.held[k] \in DOMAIN ast.nodes /\ p.held[k] <= p.at
                                   /\ kept[k].type = t[p.held[k]]
  BY DEF KeepsTypes
<1>3. PICK m \in Nat, n \in Nat : m = Len(h) /\ n = Len(rest)
  OBVIOUS
<1>4. Len(kept) = m + n
  BY <1>2, <1>3 DEF FirstHeld
<1>5. \A k \in 1 .. m : k \in 1 .. m + n /\ p.held[k] = h[k]
  BY <1>3 DEF FirstHeld
<1>6. \A k \in 1 .. n : m + k \in 1 .. m + n /\ p.held[m + k] = rest[k]
  BY <1>3 DEF FirstHeld
<1>7. Len(kept') = m /\ \A k \in 1 .. m : kept'[k] = kept[k]
  BY <1>1, <1>3, <1>4
<1>8. \A k \in 1 .. m : h[k] \in DOMAIN ast.nodes /\ h[k] <= p.at /\ kept'[k].type = t[h[k]]
  BY <1>2, <1>4, <1>5, <1>7
<1>9. \A k \in 1 .. n : kept[m + k].type = t[rest[k]]
  BY <1>2, <1>4, <1>6
<1> QED BY <1>3, <1>7, <1>8, <1>9 DEF KeptFirst

LEMMA binary_opTypes ==
  ASSUME GInv, TypesInv, binary_op, outcome' = outcome
  PROVE  TypesInv'
<1>1. Next_is("binary_op") /\ Tree
  BY DEF binary_op
<1>2. /\ Generating /\ todo # << >> /\ todo[1].do = "binary_op" /\ todo[1].node = here /\ here \in DOMAIN ast.nodes
      /\ Fits(ast, todo[1])
  BY <1>1, WorkFacts
<1>3. PICK type : type = binary_op_type(node_at(here).op, kept[Len(kept)])
  OBVIOUS
<1>4. /\ kept' = SubSeq(kept, 1, Len(kept) - 1)
      /\ Goes_on(<< >>) /\ uses' = uses /\ stores' = stores /\ refused \subseteq refused'
      /\ current_value_'.type = type
  BY <1>2, <1>3 DEF binary_op, Throw, Generating, constant, computed, Refuse_unless
<1>5. node_at(here).kind = "BinaryOp"
  BY <1>2 DEF Fits, node_at
<1>6. PICK w, t, c, n : Ready(w, t, c, n)
  BY <1>2, IsReady
<1>7. /\ n = here /\ n \in DOMAIN ast.nodes /\ KeepsTypes(t, w[1]) /\ w[1].at = c /\ Walked(ast, w, todo)
  BY <1>6 DEF Ready
<1>8. /\ w[1] \in Point /\ w[2] \in Point /\ w[1].held = Append(w[2].held, node_at(n).operands[1])
  BY <1>2, <1>7, HeadPoint DEF Passes, node_at
<1>9. PICK l \in Nat : l = node_at(n).operands[1]
  <2>1. 1 \in DOMAIN node_at(n).operands
    BY <1>5, <1>7, OperandsBefore DEF GInv
  <2> QED BY <1>7, <2>1, OperandsBefore DEF GInv
<1>10. PICK h \in Seq(Nat), rest \in Seq(Nat), p \in Point :
         /\ h = w[2].held /\ p = w[1] /\ p.held = Append(h, l)
         /\ Len(rest) = 1 /\ rest[1] = l
  <2>1. w[2].held \in Seq(Nat)
    BY <1>8, Points
  <2>2. << l >> \in Seq(Nat) /\ Len(<< l >>) = 1 /\ << l >>[1] = l
    OBVIOUS
  <2> QED BY <1>8, <1>9, <2>1, <2>2
<1>12. PICK m \in Nat : m = Len(h)
  OBVIOUS
<1>11. FirstHeld(p, h, rest) /\ Len(kept) = m + 1
  <2>1. Len(p.held) = m + 1 /\ p.held[m + 1] = l /\ \A k \in 1 .. m : p.held[k] = h[k]
    BY <1>10, <1>12
  <2>2. FirstHeld(p, h, rest)
    BY <1>10, <1>12, <2>1 DEF FirstHeld
  <2> QED BY <1>7, <1>10, <2>1, <2>2 DEF KeepsTypes
<1>13. Len(kept) = m + 1 /\ kept' = SubSeq(kept, 1, Len(h))
  <2>1. (m + 1) - 1 = m
    OBVIOUS
  <2> QED BY <1>4, <1>11, <1>12, <2>1
<1>14. KeptFirst(t, h, rest, p.at)
  <2>1. KeepsTypes(t, p)
    BY <1>7, <1>10
  <2> QED BY <1>11, <1>13, <2>1, FirstKept
<1>15. kept[Len(kept)].type = t[l]
  <2>1. 1 \in 1 .. Len(rest)
    BY <1>10
  <2> QED BY <1>10, <1>12, <1>13, <1>14, <2>1 DEF KeptFirst
<1>16. type = ValueTypeAt(t, n)
  BY <1>3, <1>5, <1>7, <1>9, <1>15 DEF binary_op_type, ValueTypeAt, Literal
<1>17. Completes(t, n, type)
  BY <1>1, <1>4, <1>5, <1>7, <1>16, PlainCompletes DEF GInv
<1>18. Does(t, n)
  BY <1>4, <1>17 DEF Does
<1>19. /\ Len(kept') = Len(w[2].held)
       /\ \A k \in 1 .. Len(kept') : /\ w[2].held[k] \in DOMAIN ast.nodes /\ w[2].held[k] <= c
                                     /\ kept'[k].type = t[w[2].held[k]]
  BY <1>7, <1>10, <1>14 DEF KeptFirst
<1>20. Goes_on(<< >>)
  BY <1>4
<1> QED BY <1>1, <1>2, <1>6, <1>18, <1>19, <1>20, DoesTypes

LEMMA callTypes ==
  ASSUME GInv, TypesInv, call, outcome' = outcome
  PROVE  TypesInv'
<1>1. Next_is("call") /\ Tree
  BY DEF call
<1>2. /\ Generating /\ todo # << >> /\ todo[1].do = "call" /\ todo[1].node = here /\ here \in DOMAIN ast.nodes
      /\ Fits(ast, todo[1]) /\ todo[1].entry = entry_here
  BY <1>1, WorkFacts
<1>3. PICK f : f = entry_here
  OBVIOUS
<1>4. /\ node_at(here).kind = "FunctionCall" /\ f \in Functions(ast, node_at(here).name) /\ f \in DOMAIN ast.nodes
      /\ Len(node_at(f).params) = Len(node_at(here).operands)
  BY <1>2, <1>3 DEF Fits, node_at, Functions
<1>5. uses[here] = f
  <2>1. 1 \in 1 .. Len(todo)
    BY <1>2, HeadFacts
  <2> QED BY <1>2, <1>3, <2>1 DEF TypesInv, AnswersKept, Asks
<1>6. PICK w, t, c, n : Ready(w, t, c, n)
  BY <1>2, IsReady
<1>7. /\ n = here /\ n \in DOMAIN ast.nodes /\ KeepsTypes(t, w[1]) /\ w[1].at = c /\ Walked(ast, w, todo)
  BY <1>6 DEF Ready
<1>8. /\ w[1] \in Point /\ w[2] \in Point /\ w[1].held = w[2].held \o node_at(n).operands
  BY <1>2, <1>7, HeadPoint DEF Passes, node_at
<1>9. PICK h \in Seq(Nat), rest \in Seq(Nat), params \in Seq(Nat), p \in Point :
        /\ h = w[2].held /\ rest = node_at(n).operands /\ params = node_at(f).params /\ p = w[1]
  <2>1. w[2].held \in Seq(Nat)
    BY <1>8, Points
  <2>2. node_at(n).operands \in Seq(Nat) /\ node_at(f).params \in Seq(Nat)
    BY <1>4, <1>7, NodeFacts DEF GInv, node_at, AstNode
  <2> QED BY <1>8, <2>1, <2>2
<1>10. PICK m \in Nat, k \in Nat :
         m = Len(h) /\ k = Len(rest) /\ Len(params) = k /\ Len(kept) = m + k /\ FirstHeld(p, h, rest)
  <2>1. p.held = h \o rest
    BY <1>8, <1>9
  <2>2. PICK m \in Nat, k \in Nat : m = Len(h) /\ k = Len(rest)
    OBVIOUS
  <2>3. /\ Len(p.held) = m + k /\ \A i \in 1 .. m : p.held[i] = h[i]
        /\ \A i \in 1 .. k : p.held[m + i] = rest[i]
    BY <2>1, <2>2
  <2>4. FirstHeld(p, h, rest)
    BY <2>2, <2>3 DEF FirstHeld
  <2>5. Len(kept) = m + k
    BY <1>7, <1>9, <2>3 DEF KeepsTypes
  <2>6. Len(params) = k
    BY <1>4, <1>7, <1>9, <2>2
  <2> QED BY <2>2, <2>4, <2>5, <2>6
<1>11. DOMAIN params = 1 .. k /\ DOMAIN rest = 1 .. k /\ (m + k) - k = m
  BY <1>10
<1>12. /\ current_value_' = computed(allocated_type(f)) /\ kept' = SubSeq(kept, 1, m)
       /\ Refuse_unless(/\ allocated_type(f) # "void"
                        /\ \A i \in DOMAIN params : kept[m + i].type = allocated_type(params[i]))
       /\ Goes_on(<< >>) /\ uses' = uses /\ stores' = stores
  <2>1. Len(kept) - Len(node_at(f).params) = m
    BY <1>9, <1>10, <1>11
  <2> QED BY <1>2, <1>3, <1>9, <2>1 DEF call, Throw, Generating, allocated_type
<1>13. /\ refused \subseteq refused'
       /\ refused' = {} => /\ allocated_type(f) # "void"
                           /\ \A i \in DOMAIN params : kept[m + i].type = allocated_type(params[i])
  BY <1>12 DEF Refuse_unless
<1>14. KeptFirst(t, h, rest, p.at)
  <2>1. FirstHeld(p, h, rest) /\ KeepsTypes(t, p) /\ kept' = SubSeq(kept, 1, Len(h))
    BY <1>7, <1>9, <1>10, <1>12
  <2> QED BY <2>1, FirstKept
<1>15. /\ node_at(n)' = node_at(n) /\ node_at(f)' = node_at(f) /\ Functions(ast, node_at(n).name)' = Functions(ast, node_at(n).name)
       /\ \A d : allocated_type(d)' = allocated_type(d)
       /\ uses'[n] = f
  BY <1>1, <1>5, <1>7, <1>12 DEF Tree, node_at, allocated_type
<1>16. Answered(n)'
  BY <1>4, <1>7, <1>15 DEF Answered
<1>17. ValueTypeAt(t, n)' = allocated_type(f)
  BY <1>4, <1>7, <1>15 DEF ValueTypeAt, Literal
<1>18. refused' = {} => FitsItsPlace(t, n)'
  <2>1. refused' = {} => \A i \in DOMAIN params : t[rest[i]] = allocated_type(params[i])
    BY <1>10, <1>11, <1>13, <1>14 DEF KeptFirst
  <2> QED BY <1>4, <1>7, <1>9, <1>13, <1>15, <2>1 DEF FitsItsPlace
<1>19. Completes(t, n, allocated_type(f))
  BY <1>12, <1>13, <1>16, <1>17, <1>18 DEF Completes
<1>20. Does(t, n)
  BY <1>12, <1>19 DEF Does, computed
<1>21. /\ Len(kept') = Len(w[2].held)
       /\ \A j \in 1 .. Len(kept') : /\ w[2].held[j] \in DOMAIN ast.nodes /\ w[2].held[j] <= c
                                     /\ kept'[j].type = t[w[2].held[j]]
  BY <1>7, <1>9, <1>14 DEF KeptFirst
<1>22. Goes_on(<< >>)
  BY <1>12
<1> QED BY <1>1, <1>2, <1>6, <1>20, <1>21, <1>22, DoesTypes

LEMMA keep_valueTypes ==
  ASSUME GInv, TypesInv, keep_value
  PROVE  TypesInv'
<1>1. Next_is("keep") /\ Tree
  BY DEF keep_value
<1>2. /\ Generating /\ todo # << >> /\ todo[1].do = "keep" /\ todo[1].node = here /\ here \in DOMAIN ast.nodes
  BY <1>1, WorkFacts
<1>3. /\ kept' = Append(kept, current_value_) /\ Goes_on(<< >>)
      /\ uses' = uses /\ stores' = stores /\ refused' = refused /\ outcome' = outcome
  BY DEF keep_value, KeepBuilder
<1>4. PICK w, t : /\ Walked(ast, w, todo) /\ Bounded(w)
                  /\ TypesUpTo(t, w[1].at) /\ KeepsTypes(t, w[1]) /\ LastValue(t, w[1])
  BY DEF TypesInv
<1>5. /\ w[1] \in Point /\ w[2] \in Point /\ w[2].held = Append(w[1].held, w[1].at) /\ w[2].at = w[1].at
  BY <1>2, <1>4, HeadPoint DEF Passes, Covers
<1>6. w[1].at \in DOMAIN ast.nodes /\ current_value_.type = t[w[1].at]
  BY <1>2, <1>4 DEF LastValue, Needs
<1>7. PICK c \in Nat, h \in Seq(Nat), p \in Point : c = w[1].at /\ h = w[1].held /\ p = w[2]
  BY <1>5, Points
<1>8. TypesUpTo(t, p.at)'
  <2>1. \A n \in DOMAIN ast.nodes :
          /\ ValueTypeAt(t, n)' = ValueTypeAt(t, n)
          /\ Answered(n)' <=> Answered(n)
          /\ FitsItsPlace(t, n)' <=> FitsItsPlace(t, n)
    BY <1>1, <1>3 DEF Tree, ValueTypeAt, Answered, FitsItsPlace, node_at, literal_value, allocated_type
  <2>2. \A s : StoredAs(t, s)' <=> StoredAs(t, s)
    BY <1>1, <1>3 DEF Tree, StoredAs, node_at, allocated_type
  <2>3. TypesUpTo(t, c)'
    BY <1>1, <1>3, <1>4, <1>7, <2>1, <2>2 DEF TypesUpTo, Tree, node_at
  <2> QED BY <1>5, <1>7, <2>3
<1>9. KeepsTypes(t, p)'
  <2>1. PICK m \in Nat : m = Len(h)
    OBVIOUS
  <2>2. Len(kept) = m /\ kept \in Seq(Value) /\ current_value_ \in Value
    <3>1. current_value_ \in Value
      BY <1>2 DEF GInv, ValueInv, Needs
    <3> QED BY <1>4, <1>7, <2>1, <3>1 DEF KeepsTypes, GInv, KeptInv
  <2>3. p.held = Append(h, c) /\ p.at = c
    BY <1>5, <1>7
  <2>4. /\ Len(kept') = m + 1 /\ Len(p.held) = m + 1
        /\ kept'[m + 1] = current_value_ /\ p.held[m + 1] = c
        /\ \A k \in 1 .. m : kept'[k] = kept[k] /\ p.held[k] = h[k]
    BY <1>3, <2>1, <2>2, <2>3
  <2>5. \A k \in 1 .. m : h[k] \in DOMAIN ast.nodes /\ h[k] <= c /\ kept[k].type = t[h[k]]
    BY <1>4, <1>7, <2>2 DEF KeepsTypes
  <2>6. \A k \in 1 .. m + 1 : k = m + 1 \/ k \in 1 .. m
    BY <2>1
  <2>7. ast' = ast /\ c <= c
    BY <1>1 DEF Tree
  <2>8. \A k \in 1 .. m + 1 : /\ p.held[k] \in DOMAIN ast.nodes /\ p.held[k] <= p.at
                              /\ kept'[k].type = t[p.held[k]]
    BY <1>6, <1>7, <2>3, <2>4, <2>5, <2>6, <2>7
  <2> QED BY <2>4, <2>7, <2>8 DEF KeepsTypes
<1>10. LastValue(t, p)'
  <2>1. current_value_' = current_value_ /\ p.at = w[1].at
    BY <1>5, <1>7 DEF keep_value
  <2> QED BY <1>1, <1>6, <2>1 DEF LastValue, Tree
<1>11. AnswersKept'
  <2>1. PICK items \in Seq(Item) : items = << >>
    <3>1. << >> \in Seq(Item)
      OBVIOUS
    <3> QED BY <3>1
  <2>2. Goes_on(items) /\ Len(items) = 0
    BY <1>3, <2>1
  <2>3. \A j \in 1 .. Len(items) : items[j].do \in Asks => uses'[items[j].node] = items[j].entry
    BY <2>2
  <2>4. AnswersKept
    BY DEF TypesInv
  <2> QED BY <1>2, <1>3, <1>4, <2>2, <2>3, <2>4, AnswersStep
<1> QED BY <1>1, <1>2, <1>3, <1>4, <1>7, <1>8, <1>9, <1>10, <1>11, PopTypes DEF Generating

-------------------------------------------------------------------------------
(* Visits that go on with parts. *)

\* What is found for a node that is not done says nothing of those that are.
LEMMA UpToStays ==
  ASSUME IsAst(ast), Tree, NEW t, NEW c \in Nat, TypesUpTo(t, c), stores' = stores, refused' = refused,
         NEW h \in Nat, c < h, \A m \in DOMAIN ast.nodes : m # h => uses'[m] = uses[m]
  PROVE  TypesUpTo(t, c)'
<1>1. ast' = ast /\ result_type' = result_type /\ \A m : node_at(m)' = node_at(m)
  BY DEF Tree, node_at
<1>2. /\ t = [m \in DOMAIN ast.nodes |-> t[m]]
      /\ \A m \in DOMAIN ast.nodes : m <= c \/ node_at(m).kind \notin Expression => t[m] = ValueTypeAt(t, m)
      /\ \A m \in DOMAIN ast.nodes : m <= c => Answered(m)
      /\ refused = {} => \A m \in DOMAIN ast.nodes : m <= c => FitsItsPlace(t, m)
      /\ \A s \in stores : s[1] <= c /\ StoredAs(t, s)
  BY DEF TypesUpTo
<1>3. \A m \in DOMAIN ast.nodes : m \in Nat /\ (m <= c => m # h)
  BY OperandsBefore
<1>4. ASSUME NEW m \in DOMAIN ast.nodes, m <= c \/ node_at(m).kind \notin Expression
      PROVE  t[m] = ValueTypeAt(t, m)'
  <2>1. CASE node_at(m).kind \notin Expression
    <3>1. ValueTypeAt(t, m) = "void" /\ ValueTypeAt(t, m)' = "void"
      BY <1>1, <2>1, Kinds DEF ValueTypeAt
    <3> QED BY <1>2, <2>1, <3>1
  <2>2. CASE m <= c
    <3>1. uses'[m] = uses[m]
      BY <1>3, <2>2
    <3>2. ValueTypeAt(t, m)' = ValueTypeAt(t, m)
      BY <1>1, <3>1, SameTypeAt
    <3> QED BY <1>2, <2>2, <3>2
  <2> QED BY <1>4, <2>1, <2>2
<1>5. ASSUME NEW m \in DOMAIN ast.nodes, m <= c
      PROVE  Answered(m)' /\ (refused = {} => FitsItsPlace(t, m)')
  <2>1. uses'[m] = uses[m] /\ Answered(m)
    BY <1>2, <1>3, <1>5
  <2>2. Answered(m)'
    BY <1>1, <2>1 DEF Answered
  <2>3. FitsItsPlace(t, m) => FitsItsPlace(t, m)'
    BY <1>1, <2>1 DEF FitsItsPlace, allocated_type
  <2> QED BY <1>2, <1>5, <2>2, <2>3
<1>6. ASSUME NEW s \in stores PROVE s[1] <= c /\ StoredAs(t, s)'
  <2>1. s[1] <= c /\ StoredAs(t, s) /\ s[1] \in DOMAIN ast.nodes
    BY <1>2, <1>6 DEF StoredAs
  <2>2. uses'[s[1]] = uses[s[1]]
    BY <1>3, <2>1
  <2> QED BY <1>1, <2>1, <2>2, SameStored
<1> QED BY <1>1, <1>2, <1>4, <1>5, <1>6 DEF TypesUpTo

\* What leads where an item leads.
WalksItsWay(items) ==
    \A p, q \in Point : Passes(ast, todo[1], p, q) =>
      \E e : Walked(ast, e, items) /\ e[1] = p /\ e[Len(items) + 1] = q

LEMMA ExpandTypes ==
  ASSUME GInv, TypesInv, Generating, todo # << >>, Tree, outcome' = outcome,
         kept' = kept, stores' = stores, refused' = refused,
         \/ uses' = uses
         \/ todo[1].do = "visit" /\ \A m \in DOMAIN ast.nodes : m # here => uses'[m] = uses[m],
         NEW items \in Seq(Item), Goes_on(items), WalksItsWay(items),
         Len(items) # 0, ~ Needs(ast, items[1]),
         \A j \in 1 .. Len(items) : items[j].do \in Asks => uses'[items[j].node] = items[j].entry
  PROVE  TypesInv'
<1>1. PICK w, t : /\ Walked(ast, w, todo) /\ Bounded(w)
                  /\ TypesUpTo(t, w[1].at) /\ KeepsTypes(t, w[1]) /\ LastValue(t, w[1])
  BY DEF TypesInv
<1>2. AnswersKept /\ IsAst(ast) /\ ast' = ast /\ outcome # "idle" /\ outcome' # "idle"
  BY DEF TypesInv, GInv, Tree, Generating
<1>3. /\ w[1] \in Point /\ w[2] \in Point
      /\ Passes(ast, todo[1], w[1], w[2]) /\ Covers(ast, todo[1], w[1].at, w[2].at)
  BY <1>1, HeadPoint
<1>4. PICK p \in Point, c \in Nat : p = w[1] /\ c = w[1].at
  BY <1>3, Points
<1>5. PICK e : Walked(ast, e, items) /\ e[1] = p /\ e[Len(items) + 1] = w[2]
  BY <1>3, <1>4 DEF WalksItsWay
<1>6. here = todo[1].node /\ here \in DOMAIN ast.nodes /\ here \in Nat
  BY <1>2, HeadFacts, TreeFacts
<1>7. todo[1].do = "visit" => c < here /\ w[2].at = here
  <2>1. todo[1].do = "visit" => FirstOf(ast)[here] = c + 1 /\ w[2].at = here
    BY <1>3, <1>4, <1>6 DEF Covers
  <2>2. FirstOf(ast)[here] \in 1 .. here
    BY <1>2, <1>6, TreeFacts
  <2> QED BY <1>6, <2>1, <2>2
<1>8. PICK h \in Nat : c < h /\ \A m \in DOMAIN ast.nodes : m # h => uses'[m] = uses[m]
  <2>1. CASE uses' = uses
    <3>1. c + 1 \in Nat /\ c < c + 1
      OBVIOUS
    <3> QED BY <2>1, <3>1
  <2>2. CASE todo[1].do = "visit" /\ \A m \in DOMAIN ast.nodes : m # here => uses'[m] = uses[m]
    BY <1>6, <1>7, <2>2
  <2> QED BY <2>1, <2>2
<1>9. TypesUpTo(t, p.at)'
  <2>1. TypesUpTo(t, c)'
    BY <1>1, <1>2, <1>4, <1>8, UpToStays
  <2> QED BY <1>4, <2>1
<1>10. KeepsTypes(t, p)'
  BY <1>1, <1>2, <1>4 DEF KeepsTypes
<1>11. LastValue(t, p)'
  <2>1. todo'[1] = items[1]
    BY NewTodo
  <2> QED BY <1>2, <2>1 DEF LastValue
<1>12. \A m \in DOMAIN ast.nodes : w[2].at < m => uses'[m] = uses[m]
  <2>1. \A m \in DOMAIN ast.nodes : here < m => m # here
    BY <1>2, <1>6, TreeFacts
  <2> QED BY <1>7, <2>1
<1>13. AnswersKept'
  BY <1>1, <1>2, <1>12, AnswersStep
<1> QED BY <1>1, <1>2, <1>5, <1>9, <1>10, <1>11, <1>13, ReplaceTypes

\* Visits, and one more item that does not keep.
LEMMA QuietWay ==
  ASSUME GInv, todo # << >>, NEW items, NEW list, NEW last, Extended(items, visit(list), last),
         items \in Seq(Item), Len(visit(list)) \in Nat,
         DOMAIN visit(list) = 1 .. Len(visit(list)),
         last.do \notin {"keep", "binary_op", "call"}, todo[1].do \notin {"keep", "binary_op", "call"},
         TakesItsPlace(items)
  PROVE  WalksItsWay(items)
<1>1. Quiet(items)
  <2>1. /\ Len(items) = Len(visit(list)) + 1
        /\ items[Len(visit(list)) + 1] = last
        /\ \A j \in 1 .. Len(visit(list)) : items[j] = visit(list)[j]
    BY DEF Extended
  <2>2. \A j \in 1 .. Len(visit(list)) : visit(list)[j].do = "visit"
    BY DEF visit, item
  <2>3. PICK n \in Nat : n = Len(visit(list))
    OBVIOUS
  <2>4. \A j \in 1 .. n + 1 : j \in 1 .. n \/ j = n + 1
    OBVIOUS
  <2> QED BY <2>1, <2>2, <2>3, <2>4 DEF Quiet
<1> SUFFICES ASSUME NEW p \in Point, NEW q \in Point, Passes(ast, todo[1], p, q)
             PROVE  \E e : Walked(ast, e, items) /\ e[1] = p /\ e[Len(items) + 1] = q
  BY DEF WalksItsWay
<1>2. /\ p.at \in Nat /\ q.at \in Nat /\ p.held \in Seq(Nat)
      /\ p = [at |-> p.at, held |-> p.held] /\ q = [at |-> q.at, held |-> q.held]
  BY Points
<1>3. Covers(ast, todo[1], p.at, q.at) /\ q.held = p.held
  BY DEF Passes
<1>4. PICK b : Tiled(ast, b, items) /\ b[1] = p.at /\ b[Len(items) + 1] = q.at
  BY <1>2, <1>3 DEF TakesItsPlace
<1>5. Len(items) \in Nat
  OBVIOUS
<1>6. PICK h \in Seq(Nat) : h = p.held
  BY <1>2
<1>7. PICK d : /\ Walked(ast, d, items) /\ d[1] = [at |-> b[1], held |-> h]
               /\ d[Len(items) + 1] = [at |-> b[Len(items) + 1], held |-> h]
  BY <1>1, <1>4, <1>5, QuietWalk
<1> QED BY <1>2, <1>3, <1>4, <1>6, <1>7

LEMMA ListTypes ==
  ASSUME GInv, TypesInv, Generating, todo # << >>, Tree, outcome' = outcome,
         kept' = kept, stores' = stores, refused' = refused,
         \/ uses' = uses
         \/ todo[1].do = "visit" /\ \A m \in DOMAIN ast.nodes : m # here => uses'[m] = uses[m],
         NEW list \in Seq(DOMAIN ast.nodes), NEW items \in Seq(Item), Goes_on(items), TakesItsPlace(items),
         NEW last, Extended(items, visit(list), last),
         last.do \notin {"keep", "binary_op", "call"}, todo[1].do \notin {"keep", "binary_op", "call"},
         last.do \in Asks => uses'[last.node] = last.entry,
         Needs(ast, last) => list # << >>
  PROVE  TypesInv'
<1>1. visit(list) \in Seq(Item) /\ \A j \in DOMAIN list : visit(list)[j].do = "visit"
  BY VisitList DEF GInv, visit, item
<1>2. DOMAIN visit(list) = DOMAIN list /\ DOMAIN list = 1 .. Len(list) /\ Len(list) \in Nat
  BY DEF visit
<1>3. PICK n \in Nat, s \in Seq(Item) : s = visit(list) /\ n = Len(s) /\ DOMAIN s = 1 .. n
  BY <1>1
<1>4. /\ Len(items) = n + 1 /\ items[n + 1] = last
      /\ \A j \in 1 .. n : items[j] = s[j] /\ s[j].do = "visit"
  BY <1>1, <1>2, <1>3 DEF Extended
<1>5. WalksItsWay(items)
  BY <1>3, QuietWay
<1>6. Len(items) # 0
  BY <1>4
<1>7. ~ Needs(ast, items[1])
  <2>1. CASE list = << >>
    <3>1. Len(list) = 0
      BY <2>1
    <3>2. n = 0
      BY <1>2, <1>3, <3>1
    <3> QED BY <1>4, <2>1, <3>2
  <2>2. CASE list # << >>
    <3>1. Len(list) # 0
      BY <2>2
    <3>2. 1 \in DOMAIN list
      BY <1>2, <3>1
    <3>3. items[1].do = "visit"
      BY <1>2, <1>3, <1>4, <3>2
    <3> QED BY <3>3 DEF Needs
  <2> QED BY <2>1, <2>2
<1>8. \A j \in 1 .. Len(items) : items[j].do \in Asks => uses'[items[j].node] = items[j].entry
  <2>1. \A j \in 1 .. Len(items) : j \in 1 .. n \/ j = n + 1
    BY <1>4
  <2> QED BY <1>4, <2>1 DEF Asks
<1> QED BY <1>5, <1>6, <1>7, <1>8, ExpandTypes

LEMMA OperandTypes ==
  ASSUME GInv, TypesInv, Generating, todo # << >>, Tree, outcome' = outcome,
         kept' = kept, stores' = stores, refused' = refused,
         \/ uses' = uses
         \/ todo[1].do = "visit" /\ \A m \in DOMAIN ast.nodes : m # here => uses'[m] = uses[m],
         todo[1].do = "visit",
         NEW what, NEW entry, item(what, here, entry) \in Item,
         \/ /\ what \notin {"visit", "keep", "branch", "end_then"}
            /\ node_at(here).kind \notin {"FunctionDeclaration", "If"}
         \/ what = "branch" /\ node_at(here).kind = "If",
         Goes_on(visit(node_at(here).operands) \o << item(what, here, entry) >>),
         what \notin {"binary_op", "call"},
         what = "store" => uses'[here] = entry,
         Needs(ast, item(what, here, entry)) => has_value(node_at(here))
  PROVE  TypesInv'
<1>1. PICK items \in Seq(Item) :
           /\ Goes_on(items) /\ TakesItsPlace(items)
           /\ Extended(items, visit(node_at(here).operands), item(what, here, entry))
  BY OperandTiles
<1>2. PICK list \in Seq(DOMAIN ast.nodes) : list = node_at(here).operands
  BY HeadFacts, OperandSeq DEF node_at, GInv
<1>3. PICK last : last = item(what, here, entry)
  OBVIOUS
<1>4. last.do = what /\ last.node = here /\ last.entry = entry
  BY <1>3 DEF item
<1>5. /\ last.do \notin {"keep", "binary_op", "call"}
      /\ last.do \in Asks => uses'[last.node] = last.entry
  BY <1>4 DEF Asks
<1>6. Needs(ast, last) => list # << >>
  BY <1>2, <1>3 DEF has_value
<1>7. Extended(items, visit(list), last)
  BY <1>1, <1>2, <1>3
<1> QED BY <1>1, <1>5, <1>6, <1>7, ListTypes

LEMMA visit_unary_opTypes ==
  ASSUME GInv, TypesInv, visit_unary_op
  PROVE  TypesInv'
<1>1. /\ Generating /\ todo # << >> /\ todo[1].do = "visit" /\ node_at(here).kind = "UnaryOp"
      /\ here \in DOMAIN ast.nodes /\ here \in Nat
  BY HeadFacts, TreeFacts DEF visit_unary_op, Visits, Next_is, GInv
<1>2. /\ Tree /\ outcome' = outcome /\ kept' = kept /\ stores' = stores /\ refused' = refused /\ uses' = uses
      /\ Goes_on(visit(node_at(here).operands) \o << item("unary_op", here, NoNode) >>)
  BY DEF visit_unary_op, KeepBuilder
<1>3. item("unary_op", here, NoNode) \in Item
  BY <1>1, AnItem DEF NoNode
<1>4. has_value(node_at(here))
  BY <1>1, SoleOperand DEF GInv
<1> QED BY <1>1, <1>2, <1>3, <1>4, OperandTypes

LEMMA visit_function_returnTypes ==
  ASSUME GInv, TypesInv, visit_function_return
  PROVE  TypesInv'
<1>1. /\ Generating /\ todo # << >> /\ todo[1].do = "visit" /\ node_at(here).kind = "FunctionReturn"
      /\ here \in DOMAIN ast.nodes /\ here \in Nat
  BY HeadFacts, TreeFacts DEF visit_function_return, Visits, Next_is, GInv
<1>2. /\ Tree /\ outcome' = outcome /\ kept' = kept /\ stores' = stores /\ refused' = refused /\ uses' = uses
      /\ Goes_on(visit(node_at(here).operands) \o << item("return", here, NoNode) >>)
  BY DEF visit_function_return, KeepBuilder
<1>3. item("return", here, NoNode) \in Item
  BY <1>1, AnItem DEF NoNode
<1>4. Needs(ast, item("return", here, NoNode)) => has_value(node_at(here))
  BY DEF Needs, item, node_at
<1> QED BY <1>1, <1>2, <1>3, <1>4, OperandTypes

LEMMA visit_variable_declarationTypes ==
  ASSUME GInv, TypesInv, visit_variable_declaration
  PROVE  TypesInv'
<1>1. /\ Generating /\ todo # << >> /\ todo[1].do = "visit" /\ node_at(here).kind = "VariableDeclaration"
      /\ here \in DOMAIN ast.nodes /\ here \in Nat
  BY HeadFacts, TreeFacts DEF visit_variable_declaration, Visits, Next_is, GInv
<1>2. /\ Tree /\ outcome' = outcome /\ kept' = kept /\ stores' = stores /\ refused' = refused /\ uses' = uses
      /\ Goes_on(visit(node_at(here).operands) \o << item("bind", here, NoNode) >>)
  BY DEF visit_variable_declaration
<1>3. item("bind", here, NoNode) \in Item
  BY <1>1, AnItem DEF NoNode
<1>4. Needs(ast, item("bind", here, NoNode)) => has_value(node_at(here))
  BY DEF Needs, item, node_at
<1> QED BY <1>1, <1>2, <1>3, <1>4, OperandTypes

LEMMA visit_ifTypes ==
  ASSUME GInv, TypesInv, visit_if
  PROVE  TypesInv'
<1>1. /\ Generating /\ todo # << >> /\ todo[1].do = "visit" /\ node_at(here).kind = "If"
      /\ here \in DOMAIN ast.nodes /\ here \in Nat
  BY HeadFacts, TreeFacts DEF visit_if, Visits, Next_is, GInv
<1>2. /\ Tree /\ outcome' = outcome /\ kept' = kept /\ stores' = stores /\ refused' = refused /\ uses' = uses
      /\ Goes_on(visit(node_at(here).operands) \o << item("branch", here, NoNode) >>)
  BY DEF visit_if, KeepBuilder
<1>3. item("branch", here, NoNode) \in Item
  BY <1>1, AnItem DEF NoNode
<1>4. has_value(node_at(here))
  BY <1>1, SoleOperand DEF GInv
<1> QED BY <1>1, <1>2, <1>3, <1>4, OperandTypes

LEMMA visit_constant_declarationTypes ==
  ASSUME GInv, TypesInv, visit_constant_declaration
  PROVE  TypesInv'
<1>1. /\ Generating /\ todo # << >> /\ todo[1].do = "visit" /\ node_at(here).kind = "ConstantDeclaration"
      /\ here \in DOMAIN ast.nodes /\ here \in Nat
  BY HeadFacts, TreeFacts DEF visit_constant_declaration, Visits, Next_is, GInv
<1>2. /\ Tree /\ outcome' = outcome /\ kept' = kept /\ stores' = stores /\ refused' = refused /\ uses' = uses
      /\ Goes_on(visit(node_at(here).operands) \o << item("define_constant", here, NoNode) >>)
  BY DEF visit_constant_declaration, KeepBuilder
<1>3. item("define_constant", here, NoNode) \in Item
  BY <1>1, AnItem DEF NoNode
<1>4. ~ Needs(ast, item("define_constant", here, NoNode))
  BY DEF Needs, item
<1> QED BY <1>1, <1>2, <1>3, <1>4, OperandTypes

LEMMA visit_variable_assignmentTypes ==
  ASSUME GInv, TypesInv, visit_variable_assignment, outcome' = outcome
  PROVE  TypesInv'
<1>0. PICK d : d = named_values_[node_at(here).name]
  OBVIOUS
<1>1. /\ Generating /\ todo # << >> /\ todo[1].do = "visit" /\ node_at(here).kind = "VariableAssignment"
      /\ here \in DOMAIN ast.nodes /\ here \in Nat
  <2>1. /\ Generating /\ todo # << >> /\ Head(todo).do = "visit"
        /\ node_at(here).kind = "VariableAssignment"
    BY DEF visit_variable_assignment, Visits, Next_is
  <2> QED BY <2>1, HeadFacts, TreeFacts DEF GInv
<1>2. /\ Tree /\ kept' = kept /\ stores' = stores /\ refused' = refused /\ uses' = [uses EXCEPT ![here] = d]
      /\ Goes_on(visit(node_at(here).operands) \o << item("store", here, d) >>) /\ d # NoNode
  BY <1>0, <1>1 DEF visit_variable_assignment, KeepBuilder, Throw, Generating
<1>3. d \in Nat
  <2>1. node_at(here).kind \notin Literal \cup TopLevel /\ node_at(here).kind \in Named
    BY <1>1, Kinds, NamedKinds
  <2>2. d \in Storage(ast)
    <3>1. current_function_ # NoNode
      BY <1>1, <2>1, InFunction
    <3> QED BY <1>0, <1>1, <1>2, <2>1, <3>1, NamedValue
  <2> QED BY <2>2, TreeFacts DEF Storage, GInv
<1>4. item("store", here, d) \in Item
  BY <1>1, <1>3, AnItem
<1>5. has_value(node_at(here))
  BY <1>1, SoleOperand DEF GInv
<1>6. uses'[here] = d /\ \A m \in DOMAIN ast.nodes : m # here => uses'[m] = uses[m]
  BY <1>1, <1>2 DEF GInv, RecordsInv
<1> QED BY <1>1, <1>2, <1>4, <1>5, <1>6, OperandTypes

LEMMA BlockTypes ==
  ASSUME GInv, TypesInv, Generating, todo # << >>, Tree, outcome' = outcome,
         kept' = kept, stores' = stores, refused' = refused, uses' = uses,
         NEW list, NEW what, NEW entry, item(what, here, entry) \in Item,
         \/ todo[1].do = "branch" /\ what = "end_then" /\ list = node_at(here).body
         \/ todo[1].do = "end_then" /\ what = "end_else" /\ list = node_at(here).orelse,
         Goes_on(visit(list) \o << item(what, here, entry) >>)
  PROVE  TypesInv'
<1>1. PICK items \in Seq(Item) :
           /\ Goes_on(items) /\ TakesItsPlace(items)
           /\ Extended(items, visit(list), item(what, here, entry))
  BY BlockTiles
<1>2. list \in Seq(DOMAIN ast.nodes)
  BY HeadFacts, OperandSeq DEF node_at, GInv
<1>3. PICK last : last = item(what, here, entry)
  OBVIOUS
<1>4. last.do = what
  BY <1>3 DEF item
<1>5. /\ last.do \notin {"keep", "binary_op", "call"}
      /\ last.do \in Asks => uses'[last.node] = last.entry
      /\ ~ Needs(ast, last)
  BY <1>4 DEF Asks, Needs
<1>6. Extended(items, visit(list), last)
  BY <1>1, <1>3
<1> QED BY <1>1, <1>2, <1>5, <1>6, ListTypes

LEMMA branchTypes ==
  ASSUME GInv, TypesInv, branch, outcome' = outcome
  PROVE  TypesInv'
<1>1. /\ Generating /\ todo # << >> /\ todo[1].do = "branch"
      /\ here \in DOMAIN ast.nodes /\ here \in Nat
  <2>1. Generating /\ todo # << >> /\ Head(todo).do = "branch"
    BY DEF branch, Next_is
  <2> QED BY <2>1, HeadFacts, TreeFacts DEF GInv
<1>2. Tree /\ kept' = kept /\ stores' = stores /\ refused' = refused /\ uses' = uses
      /\ Goes_on(visit(node_at(here).body) \o << item("end_then", here, Len(blocks) + 2) >>)
  BY <1>1 DEF branch, Throw, Generating
<1>3. item("end_then", here, Len(blocks) + 2) \in Item
  <2>1. Len(blocks) \in Nat
    BY DEF GInv, BlocksInv
  <2>2. Len(blocks) + 2 \in Nat
    BY <2>1
  <2> QED BY <1>1, <2>2, AnItem
<1> QED BY <1>1, <1>2, <1>3, BlockTypes

LEMMA end_thenTypes ==
  ASSUME GInv, TypesInv, end_then
  PROVE  TypesInv'
<1>1. /\ Generating /\ todo # << >> /\ todo[1].do = "end_then"
      /\ here \in DOMAIN ast.nodes /\ here \in Nat /\ entry_here \in Nat
  BY HeadFacts, TreeFacts DEF end_then, Next_is, GInv, Item
<1>2. Tree /\ outcome' = outcome /\ kept' = kept /\ stores' = stores /\ refused' = refused /\ uses' = uses
  BY DEF end_then
<1>3. CASE has_else(node_at(here))
  <2>1. Goes_on(visit(node_at(here).orelse) \o << item("end_else", here, entry_here) >>)
    BY <1>3 DEF end_then
  <2>2. item("end_else", here, entry_here) \in Item
    BY <1>1, AnItem
  <2> QED BY <1>1, <1>2, <2>1, <2>2, BlockTypes
<1>4. CASE ~ has_else(node_at(here))
  <2>1. Goes_on(<< >>)
    BY <1>4 DEF end_then
  <2> QED BY <1>1, <1>2, <1>4, <2>1, EndTypes
<1> QED BY <1>3, <1>4

LEMMA visit_binary_opTypes ==
  ASSUME GInv, TypesInv, visit_binary_op
  PROVE  TypesInv'
<1>1. /\ Generating /\ Tree /\ outcome' = outcome /\ kept' = kept /\ stores' = stores /\ refused' = refused
      /\ uses' = uses
  BY DEF visit_binary_op, Visits, Next_is, KeepBuilder
<1>2. /\ todo # << >> /\ todo[1].do = "visit" /\ todo[1].node = here /\ here \in DOMAIN ast.nodes
      /\ \E l \in Nat, r \in Nat, items \in Seq(Item) : AroundLeft(items, l, r)
  BY BinaryItems
<1>3. PICK l \in Nat, r \in Nat, items \in Seq(Item) : AroundLeft(items, l, r)
  BY <1>2
<1>4. /\ Goes_on(items) /\ Len(items) = 4
      /\ items[1] = item("visit", l, NoNode) /\ items[2] = item("keep", here, NoNode)
      /\ items[3] = item("visit", r, NoNode) /\ items[4] = item("binary_op", here, NoNode)
      /\ FirstOf(ast)[l] = FirstOf(ast)[here] /\ FirstOf(ast)[r] = l + 1 /\ here = r + 1
      /\ ast.nodes[here].operands[1] = l
  BY <1>3 DEF AroundLeft, node_at
<1>5. ASSUME NEW p \in Point, NEW q \in Point, Passes(ast, todo[1], p, q)
      PROVE  \E e : Walked(ast, e, items) /\ e[1] = p /\ e[Len(items) + 1] = q
  <2>1. /\ FirstOf(ast)[here] = p.at + 1 /\ q.at = here /\ q.held = p.held
        /\ p.held \in Seq(Nat) /\ p.at \in Nat
    BY <1>2, <1>5, Points DEF Passes, Covers
  <2>2. PICK h \in Seq(Nat) : h = p.held
    BY <2>1
  <2>14. Append(h, l) \in Seq(Nat)
    OBVIOUS
  <2>15. PICK g \in Seq(Nat) : g = Append(h, l)
    BY <2>14
  <2>3. PICK x \in Point, y \in Point, z \in Point :
          x = [at |-> l, held |-> h] /\ y = [at |-> l, held |-> g] /\ z = [at |-> r, held |-> g]
    BY DEF Point
  <2> DEFINE e == [j \in 1 .. 5 |-> IF j = 1 THEN p ELSE IF j = 2 THEN x ELSE IF j = 3 THEN y
                                    ELSE IF j = 4 THEN z ELSE q]
  <2>4. e \in [1 .. 5 -> Point] /\ e[1] = p /\ e[2] = x /\ e[3] = y /\ e[4] = z /\ e[5] = q
    OBVIOUS
  <2> HIDE DEF e
  <2>5. /\ x.at = l /\ x.held = h /\ y.at = l /\ y.held = g /\ z.at = r /\ z.held = g
    BY <2>3
  <2>6. Passes(ast, items[1], p, x)
    BY <1>4, <2>1, <2>2, <2>5 DEF Passes, Covers, item
  <2>7. Passes(ast, items[2], x, y)
    BY <1>4, <2>15, <2>5 DEF Passes, Covers, item
  <2>8. Passes(ast, items[3], y, z)
    BY <1>4, <2>5 DEF Passes, Covers, item
  <2>9. Passes(ast, items[4], z, q)
    BY <1>4, <2>1, <2>2, <2>15, <2>5 DEF Passes, Covers, item
  <2>10. \A j \in 1 .. 4 : j \in {1, 2, 3, 4}
    OBVIOUS
  <2>11. \A j \in 1 .. 4 : Passes(ast, items[j], e[j], e[j + 1])
    <3>1. /\ Passes(ast, items[1], e[1], e[1 + 1]) /\ Passes(ast, items[2], e[2], e[2 + 1])
          /\ Passes(ast, items[3], e[3], e[3 + 1]) /\ Passes(ast, items[4], e[4], e[4 + 1])
      BY <2>4, <2>6, <2>7, <2>8, <2>9
    <3> QED BY <2>10, <3>1
  <2>12. Len(items) + 1 = 5
    BY <1>4
  <2>13. Walked(ast, e, items)
    BY <1>4, <2>4, <2>11, <2>12 DEF Walked
  <2> QED BY <2>4, <2>12, <2>13
<1>6. WalksItsWay(items)
  BY <1>5 DEF WalksItsWay
<1>7. ~ Needs(ast, items[1])
  BY <1>4 DEF Needs, item
<1>8. \A j \in 1 .. Len(items) : items[j].do \notin Asks
  <2>1. \A j \in 1 .. 4 : j \in {1, 2, 3, 4}
    OBVIOUS
  <2> QED BY <1>4, <2>1 DEF Asks, item
<1>9. /\ Goes_on(items) /\ Len(items) # 0
      /\ \A j \in 1 .. Len(items) : items[j].do \in Asks => uses'[items[j].node] = items[j].entry
  BY <1>4, <1>8
<1> QED BY Zenon, <1>1, <1>2, <1>6, <1>7, <1>9, ExpandTypes

LEMMA SeqLength ==
  ASSUME NEW l \in Nat, NEW f \in [1 .. l -> Nat]
  PROVE  f \in Seq(Nat) /\ Len(f) = l
OBVIOUS

LEMMA AppendAt ==
  ASSUME NEW s \in Seq(Nat), NEW x \in Nat, NEW k \in 1 .. Len(s) + 1
  PROVE  Append(s, x)[k] = IF k = Len(s) + 1 THEN x ELSE s[k]
OBVIOUS

\* h, and the first i members of o.
Holding(h, o, i) == [k \in 1 .. Len(h) + i |-> IF k <= Len(h) THEN h[k] ELSE o[k - Len(h)]]

LEMMA HoldingFacts ==
  ASSUME NEW h \in Seq(Nat), NEW o \in Seq(Nat), NEW n \in Nat, n = Len(o)
  PROVE  /\ \A i \in 0 .. n : Holding(h, o, i) \in Seq(Nat)
         /\ Holding(h, o, 0) = h /\ Holding(h, o, n) = h \o o
         /\ \A i \in 1 .. n : Holding(h, o, i) = Append(Holding(h, o, i - 1), o[i])
<1>1. PICK m \in Nat : m = Len(h)
  OBVIOUS
<1>2. /\ \A k \in 1 .. m : h[k] \in Nat
      /\ \A k \in 1 .. n : o[k] \in Nat
  BY <1>1
<1>3. ASSUME NEW i \in 0 .. n PROVE Holding(h, o, i) \in Seq(Nat) /\ Len(Holding(h, o, i)) = m + i
  <2>1. \A k \in 1 .. m + i : (k <= m => k \in 1 .. m) /\ (~ (k <= m) => k - m \in 1 .. n)
    OBVIOUS
  <2>2. Holding(h, o, i) \in [1 .. m + i -> Nat]
    BY <1>1, <1>2, <2>1 DEF Holding
  <2>3. PICK l \in Nat : l = m + i
    OBVIOUS
  <2> QED BY <2>2, <2>3, SeqLength
<1>4. ASSUME NEW i \in 0 .. n, NEW k \in 1 .. m + i
      PROVE  Holding(h, o, i)[k] = IF k <= m THEN h[k] ELSE o[k - m]
  BY <1>1 DEF Holding
<1>5. Holding(h, o, 0) = h
  <2>1. 0 \in 0 .. n /\ m + 0 = m
    OBVIOUS
  <2>2. \A k \in 1 .. m : Holding(h, o, 0)[k] = h[k]
    BY <1>4, <2>1
  <2> QED BY <1>1, <1>3, <2>1, <2>2, SeqEqual
<1>6. Holding(h, o, n) = h \o o
  <2>1. n \in 0 .. n
    OBVIOUS
  <2>2. h \o o \in Seq(Nat) /\ Len(h \o o) = m + n
    BY <1>1
  <2>3. \A k \in 1 .. m + n : (h \o o)[k] = IF k <= m THEN h[k] ELSE o[k - m]
    BY <1>1
  <2>4. \A k \in 1 .. m + n : Holding(h, o, n)[k] = (h \o o)[k]
    BY <1>4, <2>1, <2>3
  <2> QED BY <1>3, <2>1, <2>2, <2>4, SeqEqual
<1>7. ASSUME NEW i \in 1 .. n PROVE Holding(h, o, i) = Append(Holding(h, o, i - 1), o[i])
  <2>1. i \in 0 .. n /\ i - 1 \in 0 .. n /\ m + (i - 1) + 1 = m + i
    OBVIOUS
  <2>2. PICK s \in Seq(Nat) : s = Holding(h, o, i - 1) /\ Len(s) = m + (i - 1)
    BY <1>3, <2>1
  <2>3. PICK x \in Nat : x = o[i]
    BY <1>2
  <2>4. Append(s, x) \in Seq(Nat) /\ Len(Append(s, x)) = m + i
    BY <2>1, <2>2
  <2>5. \A k \in 1 .. m + i : Append(s, x)[k] = IF k = m + i THEN x ELSE s[k]
    BY <2>1, <2>2, AppendAt
  <2>6. \A k \in 1 .. m + i : k # m + i => k \in 1 .. m + (i - 1)
    OBVIOUS
  <2>7. ~ (m + i <= m) /\ (m + i) - m = i
    OBVIOUS
  <2>8. \A k \in 1 .. m + i : Holding(h, o, i)[k] = Append(s, x)[k]
    <3> TAKE k \in 1 .. m + i
    <3>1. Holding(h, o, i)[k] = IF k <= m THEN h[k] ELSE o[k - m]
      BY <1>4, <2>1
    <3>2. CASE k = m + i
      BY <2>3, <2>5, <2>7, <3>1, <3>2
    <3>3. CASE k # m + i
      <4>1. k \in 1 .. m + (i - 1)
        BY <2>6, <3>3
      <4>2. s[k] = IF k <= m THEN h[k] ELSE o[k - m]
        BY <1>4, <2>1, <2>2, <4>1
      <4> QED BY <2>5, <3>1, <3>3, <4>2
    <3> QED BY <3>2, <3>3
  <2> QED BY <1>3, <2>1, <2>2, <2>3, <2>4, <2>8, SeqEqual
<1> QED BY <1>3, <1>5, <1>6, <1>7

LEMMA HeldSteps ==
  ASSUME NEW n \in Nat, NEW j \in 1 .. 2 * n
  PROVE  /\ j % 2 = 1 => (j - 1) \div 2 = j \div 2
         /\ j % 2 # 1 => j \div 2 \in 1 .. n /\ (j - 1) \div 2 = j \div 2 - 1
         /\ (j - 1) \div 2 \in 0 .. n /\ j \div 2 \in 0 .. n
OBVIOUS

\* What keeps the value of each argument.
Leads(tree, e, s, p, q) == Walked(tree, e, s) /\ e[1] = p /\ e[Len(s) + 1] = q

Keeping(tree, n, o, args, t, keep, s) ==
    /\ n = Len(o) /\ Len(args) = n
    /\ \A i \in 1 .. n : args[i].do = "visit" /\ args[i].node = o[i]
    /\ Tiled(tree, t, args) /\ keep.do = "keep" /\ Alternates(s, args, n, keep)

LEMMA KeptWalk ==
  ASSUME NEW tree, NEW n \in Nat, NEW o \in Seq(Nat), NEW args, NEW t, NEW keep, NEW s,
         Keeping(tree, n, o, args, t, keep, s), NEW h \in Seq(Nat)
  PROVE  \E e : Leads(tree, e, s, [at |-> t[1], held |-> h], [at |-> t[n + 1], held |-> h \o o])
<1>0. /\ n = Len(o) /\ Len(args) = n
      /\ \A i \in 1 .. n : args[i].do = "visit" /\ args[i].node = o[i]
      /\ Tiled(tree, t, args) /\ keep.do = "keep" /\ Alternates(s, args, n, keep)
  BY DEF Keeping
<1>1. /\ \A i \in 0 .. n : Holding(h, o, i) \in Seq(Nat)
      /\ Holding(h, o, 0) = h /\ Holding(h, o, n) = h \o o
      /\ \A i \in 1 .. n : Holding(h, o, i) = Append(Holding(h, o, i - 1), o[i])
  BY <1>0, HoldingFacts
<1>2. PICK g : g = [i \in 0 .. n |-> Holding(h, o, i)]
  OBVIOUS
<1>3. /\ \A i \in 0 .. n : g[i] \in Seq(Nat)
      /\ g[0] = h /\ g[n] = h \o o
      /\ \A i \in 1 .. n : g[i] = Append(g[i - 1], o[i])
  <2>1. \A i \in 1 .. n : i \in 0 .. n /\ i - 1 \in 0 .. n
    OBVIOUS
  <2>2. 0 \in 0 .. n /\ n \in 0 .. n
    OBVIOUS
  <2> QED BY <1>1, <1>2, <2>1, <2>2
<1>4. /\ t \in [1 .. n + 1 -> Nat]
      /\ \A i \in 1 .. n : Covers(tree, args[i], t[i], t[i + 1])
      /\ Len(s) = 2 * n /\ 2 * n \in Nat
      /\ \A j \in 1 .. 2 * n : s[j] = IF j % 2 = 1 THEN args[(j + 1) \div 2] ELSE keep
  BY <1>0 DEF Tiled, Alternates
<1>5. \A j \in 1 .. 2 * n + 1 : j \div 2 + 1 \in 1 .. n + 1 /\ (j - 1) \div 2 \in 0 .. n
  OBVIOUS
<1>6. /\ 1 \in 1 .. 2 * n + 1 /\ 1 \div 2 + 1 = 1 /\ (1 - 1) \div 2 = 0
      /\ 2 * n + 1 \in 1 .. 2 * n + 1 /\ (2 * n + 1) \div 2 + 1 = n + 1 /\ (2 * n + 1 - 1) \div 2 = n
  OBVIOUS
<1> DEFINE e == [j \in 1 .. 2 * n + 1 |-> [at |-> t[j \div 2 + 1], held |-> g[(j - 1) \div 2]]]
<1>7. e \in [1 .. 2 * n + 1 -> Point]
  BY <1>3, <1>4, <1>5 DEF Point
<1>8. e[1] = [at |-> t[1], held |-> h]
  BY <1>3, <1>6
<1>9. e[2 * n + 1] = [at |-> t[n + 1], held |-> h \o o]
  <2>1. PICK m \in 1 .. 2 * n + 1 : m = 2 * n + 1
    BY <1>6, Zenon
  <2>4. m \div 2 + 1 = n + 1 /\ (m - 1) \div 2 = n
    BY <2>1
  <2>2. e[m] = [at |-> t[m \div 2 + 1], held |-> g[(m - 1) \div 2]]
    OBVIOUS
  <2>3. e[m] = [at |-> t[n + 1], held |-> g[n]]
    <3> HIDE DEF e
    <3> QED BY <2>4, <2>2
  <2> HIDE DEF e
  <2> QED BY <1>3, <2>1, <2>3
<1>10. ASSUME NEW j \in 1 .. 2 * n
       PROVE  Passes(tree, s[j], e[j], e[j + 1])
  <2>1. /\ j \in 1 .. 2 * n + 1 /\ j + 1 \in 1 .. 2 * n + 1 /\ (j + 1) - 1 = j
    OBVIOUS
  <2>2. /\ e[j].at = t[j \div 2 + 1] /\ e[j].held = g[(j - 1) \div 2]
        /\ e[j + 1].at = t[(j + 1) \div 2 + 1] /\ e[j + 1].held = g[j \div 2]
    <3>1. e[j + 1] = [at |-> t[(j + 1) \div 2 + 1], held |-> g[((j + 1) - 1) \div 2]]
      BY <2>1
    <3>2. e[j] = [at |-> t[j \div 2 + 1], held |-> g[(j - 1) \div 2]]
      BY <2>1
    <3> HIDE DEF e
    <3> QED BY <2>1, <3>1, <3>2
  <2> HIDE DEF e
  <2>3. CASE j % 2 = 1
    <3>1. (j + 1) \div 2 \in 1 .. n /\ j \div 2 + 1 = (j + 1) \div 2 /\ (j - 1) \div 2 = j \div 2
      BY <2>3, HalfSteps, HeldSteps
    <3>2. PICK i \in 1 .. n : i = (j + 1) \div 2
      BY <3>1
    <3>3. s[j] = args[i] /\ e[j].at = t[i] /\ e[j + 1].at = t[i + 1] /\ e[j].held = e[j + 1].held
      BY <1>4, <2>2, <2>3, <3>1, <3>2
    <3>4. args[i].do = "visit" /\ Covers(tree, args[i], t[i], t[i + 1])
      BY <1>0, <1>4
    <3> QED BY <3>3, <3>4 DEF Passes
  <2>4. CASE j % 2 # 1
    <3>1. (j + 1) \div 2 = j \div 2 /\ j \div 2 \in 1 .. n /\ (j - 1) \div 2 = j \div 2 - 1
      BY <2>4, HalfSteps, HeldSteps
    <3>2. PICK i \in 1 .. n : i = j \div 2
      BY <3>1
    <3>3. s[j] = keep /\ e[j].at = t[i + 1] /\ e[j + 1].at = t[i + 1]
          /\ e[j].held = g[i - 1] /\ e[j + 1].held = g[i]
      BY <1>4, <2>2, <2>4, <3>1, <3>2
    <3>4. t[i + 1] = o[i]
      BY <1>0, <1>4 DEF Covers
    <3>5. g[i] = Append(g[i - 1], o[i])
      BY <1>3
    <3>6. Covers(tree, keep, e[j].at, e[j + 1].at)
      BY <1>0, <3>3 DEF Covers
    <3>7. e[j + 1].held = Append(e[j].held, e[j].at)
      BY <3>3, <3>4, <3>5
    <3> QED BY <1>0, <3>3, <3>6, <3>7 DEF Passes
  <2> QED BY <2>3, <2>4
<1> HIDE DEF e
<1>11. Walked(tree, e, s)
  BY <1>4, <1>7, <1>10 DEF Walked
<1> QED BY <1>4, <1>8, <1>9, <1>11 DEF Leads

\* One item more.
LEMMA ThenWalked ==
  ASSUME NEW tree, NEW n \in Nat, NEW s, Len(s) = n, NEW last, NEW e, Walked(tree, e, s), NEW q \in Point,
         NEW z, z = e[n + 1], Passes(tree, last, z, q), NEW items, Extended(items, s, last)
  PROVE  \E d : Leads(tree, d, items, e[1], q)
<1>2. /\ e \in [1 .. n + 1 -> Point] /\ \A j \in 1 .. n : Passes(tree, s[j], e[j], e[j + 1])
      /\ Len(items) = n + 1 /\ items[n + 1] = last /\ \A j \in 1 .. n : items[j] = s[j]
      /\ Passes(tree, last, e[n + 1], q)
  BY DEF Walked, Extended
<1> DEFINE d == [j \in 1 .. (n + 1) + 1 |-> IF j \in 1 .. n + 1 THEN e[j] ELSE q]
<1>3. /\ d \in [1 .. (n + 1) + 1 -> Point] /\ d[(n + 1) + 1] = q
      /\ \A j \in 1 .. n + 1 : d[j] = e[j]
  BY <1>2
<1> HIDE DEF d
<1>4. 1 \in 1 .. n + 1 /\ n + 1 \in 1 .. n + 1
      /\ \A j \in 1 .. n + 1 : j = n + 1 \/ (j \in 1 .. n /\ j + 1 \in 1 .. n + 1)
  OBVIOUS
<1>5. \A j \in 1 .. n + 1 : Passes(tree, items[j], d[j], d[j + 1])
  BY <1>2, <1>3, <1>4
<1>6. Walked(tree, d, items)
  BY <1>2, <1>3, <1>5 DEF Walked
<1> QED BY <1>2, <1>3, <1>4, <1>6 DEF Leads

LEMMA visit_function_callTypes ==
  ASSUME GInv, TypesInv, visit_function_call, outcome' = outcome
  PROVE  TypesInv'
<1>1. /\ todo # << >> /\ todo[1].do = "visit" /\ todo[1].node = here /\ here \in DOMAIN ast.nodes
      /\ \E n \in Nat, s \in Seq(Item), items \in Seq(Item) : \E t : Arguments_kept(items, s, n, t)
  BY ArgumentItems
<1>2. PICK n \in Nat, s \in Seq(Item), items \in Seq(Item) : \E t : Arguments_kept(items, s, n, t)
  BY <1>1
<1>3. PICK t : Arguments_kept(items, s, n, t)
  BY <1>2
<1>4. PICK f : f = functions_[node_at(here).name]
  OBVIOUS
<1>5. /\ Generating /\ Tree /\ outcome' = outcome /\ kept' = kept /\ stores' = stores /\ refused' = refused
      /\ uses' = [uses EXCEPT ![here] = f]
  BY <1>4 DEF visit_function_call, Visits, Next_is, Generating, KeepBuilder, Throw
<1>6. /\ uses'[here] = f /\ \A m \in DOMAIN ast.nodes : m # here => uses'[m] = uses[m]
  BY <1>1, <1>5 DEF GInv, RecordsInv
<1>7. PICK as, o, k, l : /\ as = visit(node_at(here).operands) /\ o = node_at(here).operands
                         /\ k = item("keep", here, NoNode) /\ l = item("call", here, f)
  OBVIOUS
<1>8. /\ Goes_on(items) /\ Extended(items, s, l) /\ Len(as) = n
      /\ Alternates(s, as, n, k) /\ Tiled(ast, t, as)
      /\ t[1] + 1 = FirstOf(ast)[here] /\ t[n + 1] + 1 = here
  BY <1>3, <1>4, <1>7 DEF Arguments_kept
<1>9. k.do = "keep" /\ l.do = "call" /\ l.node = here /\ l.entry = f
  BY <1>7 DEF item
<1>10. o \in Seq(Nat) /\ Len(o) = n /\ \A i \in 1 .. n : as[i] = item("visit", o[i], NoNode)
  <2>1. o \in Seq(Nat)
    BY <1>1, <1>7, NodeFacts DEF GInv, node_at, AstNode
  <2>2. o \in Seq(DOMAIN ast.nodes)
    BY <1>1, <1>7, NodeShape, TreeFacts DEF node_at, GInv
  <2>3. Len(as) = Len(o) /\ \A i \in 1 .. Len(o) : as[i] = item("visit", o[i], NoNode)
    BY <1>7, <2>2, VisitList DEF GInv
  <2> QED BY <1>8, <2>1, <2>3
<1>11. \A i \in 1 .. n : as[i].do = "visit" /\ as[i].node = o[i]
  <2> TAKE i \in 1 .. n
  <2>1. PICK x : x = o[i]
    OBVIOUS
  <2>2. as[i] = item("visit", x, NoNode)
    BY <1>10, <2>1
  <2> QED BY <2>1, <2>2 DEF item
<1>12. Len(s) = 2 * n /\ Len(items) = 2 * n + 1 /\ items[2 * n + 1] = l /\ 2 * n \in Nat
       /\ \A j \in 1 .. 2 * n : items[j] = s[j]
  BY <1>8 DEF Alternates, Extended
<1>13. ASSUME NEW p \in Point, NEW q \in Point, Passes(ast, todo[1], p, q)
       PROVE  \E e : Walked(ast, e, items) /\ e[1] = p /\ e[Len(items) + 1] = q
  <2>1. /\ FirstOf(ast)[here] = p.at + 1 /\ q.at = here /\ q.held = p.held
        /\ p.held \in Seq(Nat) /\ p.at \in Nat /\ p = [at |-> p.at, held |-> p.held]
    BY <1>1, <1>13, Points DEF Passes, Covers
  <2>2. PICK h \in Seq(Nat) : h = p.held
    BY <2>1
  <2>3. t \in [1 .. n + 1 -> Nat] /\ 1 \in 1 .. n + 1 /\ n + 1 \in 1 .. n + 1
    BY <1>8 DEF Tiled
  <2>4. t[1] = p.at
    <3>1. PICK x \in Nat, y \in Nat : x = t[1] /\ y = p.at
      BY <2>1, <2>3
    <3>2. x + 1 = y + 1
      BY <1>8, <2>1, <3>1
    <3> QED BY <3>1, <3>2
  <2>5. PICK e : /\ Walked(ast, e, s) /\ e[1] = [at |-> t[1], held |-> h]
                 /\ e[Len(s) + 1] = [at |-> t[n + 1], held |-> h \o o]
    <3>1. Keeping(ast, n, o, as, t, k, s)
      BY <1>8, <1>9, <1>10, <1>11 DEF Keeping
    <3>2. o \in Seq(Nat)
      BY <1>10
    <3>3. \E e : Leads(ast, e, s, [at |-> t[1], held |-> h], [at |-> t[n + 1], held |-> h \o o])
      BY <3>1, <3>2, <2>2, KeptWalk, Zenon
    <3> QED BY <3>3 DEF Leads
  <2>6. /\ e[1] = p /\ e[Len(s) + 1].at = t[n + 1] /\ e[Len(s) + 1].held = h \o o
    BY <2>1, <2>2, <2>4, <2>5
  <2>7. ast.nodes[here].operands = o
    BY <1>7 DEF node_at
  <2>8. Passes(ast, l, e[Len(s) + 1], q)
    BY <1>8, <1>9, <2>1, <2>2, <2>6, <2>7 DEF Passes, Covers
  <2>9. PICK m \in Nat : m = Len(s)
    BY <1>12
  <2>10. PICK z : z = e[m + 1]
    OBVIOUS
  <2>11. Extended(items, s, l) /\ Walked(ast, e, s) /\ Passes(ast, l, z, q)
    BY <1>8, <2>5, <2>8, <2>9, <2>10
  <2>12. \E d : Leads(ast, d, items, e[1], q)
    BY <2>9, <2>10, <2>11, ThenWalked, Zenon
  <2> QED BY <2>6, <2>12 DEF Leads
<1>14. WalksItsWay(items)
  BY <1>13 DEF WalksItsWay
<1>15. \A j \in 1 .. 2 * n : s[j].do \in {"visit", "keep"}
  <2> TAKE j \in 1 .. 2 * n
  <2>1. s[j] = IF j % 2 = 1 THEN as[(j + 1) \div 2] ELSE k
    BY <1>8 DEF Alternates
  <2>2. j % 2 = 1 => (j + 1) \div 2 \in 1 .. n
    BY HalfSteps
  <2> QED BY <1>9, <1>11, <2>1, <2>2
<1>16. \A j \in 1 .. Len(items) : items[j].do \in Asks => uses'[items[j].node] = items[j].entry
  <2> TAKE j \in 1 .. Len(items)
  <2>1. j \in 1 .. 2 * n \/ j = 2 * n + 1
    BY <1>12
  <2> QED BY <1>6, <1>9, <1>12, <1>15, <2>1 DEF Asks
<1>17. Len(items) # 0 /\ ~ Needs(ast, items[1])
  <2>1. CASE n = 0
    <3>1. items[1] = l
      BY <1>12, <2>1
    <3> QED BY <1>9, <1>12, <2>1, <3>1 DEF Needs
  <2>2. CASE n # 0
    <3>1. 1 \in 1 .. 2 * n /\ 1 % 2 = 1 /\ (1 + 1) \div 2 = 1 /\ 1 \in 1 .. n
      BY <2>2
    <3>2. items[1] = as[1]
      BY <1>8, <1>12, <3>1 DEF Alternates
    <3>3. items[1].do = "visit"
      BY <1>11, <3>1, <3>2
    <3> QED BY <1>12, <3>3 DEF Needs
  <2> QED BY <2>1, <2>2
<1> QED BY <1>1, <1>5, <1>6, <1>8, <1>14, <1>16, <1>17, ExpandTypes

LEMMA ArgumentsAsWell ==
  ASSUME IsAst(ast), NEW t, NEW a \in Nat, NEW m \in Nat, a <= m, TypesUpTo(t, a),
         \A n \in DOMAIN ast.nodes : a < n /\ n <= m => node_at(n).kind = "Argument"
  PROVE  TypesUpTo(t, m)
<1>1. /\ t = [n \in DOMAIN ast.nodes |-> t[n]]
      /\ \A n \in DOMAIN ast.nodes : n <= a \/ node_at(n).kind \notin Expression => t[n] = ValueTypeAt(t, n)
      /\ \A n \in DOMAIN ast.nodes : n <= a => Answered(n)
      /\ refused = {} => \A n \in DOMAIN ast.nodes : n <= a => FitsItsPlace(t, n)
      /\ \A s \in stores : s[1] <= a /\ StoredAs(t, s)
  BY DEF TypesUpTo
<1>2. \A n \in DOMAIN ast.nodes : n \in Nat
  BY OperandsBefore
<1>3. \A n \in DOMAIN ast.nodes : n <= m => n <= a \/ node_at(n).kind = "Argument"
  BY <1>2
<1>4. "Argument" \notin Expression
  BY Kinds DEF Expression, Literal
<1>5. ASSUME NEW n \in DOMAIN ast.nodes, node_at(n).kind = "Argument"
      PROVE  Answered(n) /\ FitsItsPlace(t, n)
  BY <1>5 DEF Answered, FitsItsPlace
<1>6. \A n \in DOMAIN ast.nodes : n <= m \/ node_at(n).kind \notin Expression => t[n] = ValueTypeAt(t, n)
  BY <1>1, <1>3, <1>4
<1>7. \A n \in DOMAIN ast.nodes : n <= m => Answered(n)
  BY <1>1, <1>3, <1>5
<1>8. refused = {} => \A n \in DOMAIN ast.nodes : n <= m => FitsItsPlace(t, n)
  BY <1>1, <1>3, <1>5
<1>9. ASSUME NEW s \in stores PROVE s[1] <= m /\ StoredAs(t, s)
  <2>1. s[1] <= a /\ s[1] \in Nat /\ StoredAs(t, s)
    BY <1>1, <1>2, <1>9 DEF StoredAs
  <2> QED BY <2>1
<1> QED BY <1>1, <1>6, <1>7, <1>8, <1>9 DEF TypesUpTo

LEMMA visit_function_declarationTypes ==
  ASSUME GInv, TypesInv, visit_function_declaration
  PROVE  TypesInv'
<1>1. /\ Next_is("visit") /\ node_at(here).kind = "FunctionDeclaration" /\ Tree /\ Generating
      /\ Goes_on(visit(node_at(here).body) \o << item("end_function", here, NoNode) >>)
      /\ outcome' = outcome /\ kept' = kept /\ stores' = stores /\ refused' = refused /\ uses' = uses
  BY DEF visit_function_declaration, Visits, Next_is
<1>2. /\ todo # << >> /\ todo[1].do = "visit" /\ here = todo[1].node /\ here \in DOMAIN ast.nodes
  BY <1>1, HeadFacts DEF Next_is
<1>3. PICK w, t : /\ Walked(ast, w, todo) /\ Bounded(w)
                  /\ TypesUpTo(t, w[1].at) /\ KeepsTypes(t, w[1]) /\ LastValue(t, w[1])
  BY DEF TypesInv
<1>4. AnswersKept /\ IsAst(ast) /\ ast' = ast /\ outcome # "idle" /\ outcome' # "idle"
  BY <1>1 DEF TypesInv, GInv, Tree, Generating
<1>5. /\ w[1] \in Point /\ w[2] \in Point
      /\ Passes(ast, todo[1], w[1], w[2]) /\ Covers(ast, todo[1], w[1].at, w[2].at)
  BY <1>2, <1>3, HeadPoint
<1>6. PICK a \in Nat, z \in Nat, h \in Seq(Nat) : a = w[1].at /\ z = w[2].at /\ h = w[1].held
  BY <1>5, Points
<1>7. FirstOf(ast)[here] = a + 1 /\ z = here /\ w[2].held = h /\ w[2] = [at |-> z, held |-> h]
  BY <1>2, <1>5, <1>6, Points DEF Passes, Covers
<1>8. /\ DOMAIN ast.nodes \subseteq Nat /\ here \in Nat
      /\ \A n \in DOMAIN ast.nodes : FirstOf(ast)[n] \in Nat
  BY <1>2, <1>4, TreeFacts
<1>9. PICK m \in Nat, items \in Seq(Item) :
        /\ a <= m /\ m < here
        /\ Tiles(FirstOf(ast), Len(ast.nodes), node_at(here).params, a, m)
        /\ Goes_on(items)
        /\ Extended(items, visit(node_at(here).body), item("end_function", here, NoNode))
        /\ \E e : Tiled(ast, e, items) /\ e[1] = m /\ e[Len(items) + 1] = here
  <2>1. Covers(ast, todo[1], a, z)
    BY <1>5, <1>6
  <2> QED BY <1>1, <1>2, <2>1, FunctionTiles
<1>10. PICK b : Tiled(ast, b, items) /\ b[1] = m /\ b[Len(items) + 1] = here
  BY <1>9
<1>11. \A n \in DOMAIN ast.nodes : a < n /\ n <= m => node_at(n).kind = "Argument"
  <2>1. PICK f \in DOMAIN ast.nodes : f = here
    BY <1>2
  <2>2. FirstOf(ast)[f] - 1 = a
    <3>1. PICK x : x = FirstOf(ast)[here]
      OBVIOUS
    <3>2. x - 1 = a
      BY <1>7, <3>1
    <3> QED BY <2>1, <3>1, <3>2
  <2>3. /\ ast.nodes[f].kind = "FunctionDeclaration"
        /\ Tiles(FirstOf(ast), Len(ast.nodes), ast.nodes[f].params, FirstOf(ast)[f] - 1, m)
    BY <1>1, <1>9, <2>1, <2>2 DEF node_at
  <2>4. ArgumentsUpTo(ast, f, m)
    BY <1>4, <2>3, ArgumentsFirst
  <2>5. \A n \in DOMAIN ast.nodes : a < n /\ n <= m => \E i \in DOMAIN ast.nodes[f].params : ast.nodes[f].params[i] = n
    BY <1>7, <1>8, <2>1, <2>4 DEF ArgumentsUpTo
  <2>6. ast.nodes[f].params \in Seq({n \in 1 .. f - 1 : ast.nodes[n].kind \in {"Argument"}})
    BY <1>4, <2>3 DEF IsAst
  <2>7. \A i \in DOMAIN ast.nodes[f].params : ast.nodes[ast.nodes[f].params[i]].kind = "Argument"
    <3>1. PICK S : S = {n \in 1 .. f - 1 : ast.nodes[n].kind \in {"Argument"}}
      OBVIOUS
    <3>2. PICK s \in Seq(S) : s = ast.nodes[f].params
      BY <2>6, <3>1
    <3>3. \A i \in DOMAIN s : s[i] \in S
      OBVIOUS
    <3> QED BY <3>1, <3>2, <3>3
  <2> QED BY <2>5, <2>7 DEF node_at
<1>12. TypesUpTo(t, m)
  BY <1>3, <1>4, <1>6, <1>9, <1>11, ArgumentsAsWell
<1>13. PICK p : p = [at |-> m, held |-> h]
  OBVIOUS
<1>14. TypesUpTo(t, p.at)'
  <2>1. m < m + 1 /\ m + 1 \in Nat
    OBVIOUS
  <2>2. TypesUpTo(t, m)'
    BY <1>1, <1>4, <1>12, <2>1, UpToStays
  <2> QED BY <1>13, <2>2
<1>15. KeepsTypes(t, p)'
  <2>1. \A k \in 1 .. Len(kept) : /\ h[k] \in DOMAIN ast.nodes /\ h[k] <= a
                                  /\ kept[k].type = t[h[k]]
    BY <1>3, <1>6 DEF KeepsTypes
  <2>2. Len(kept) = Len(h)
    BY <1>3, <1>6 DEF KeepsTypes
  <2>3. \A k \in 1 .. Len(kept) : h[k] <= m
    BY <1>8, <1>9, <2>1
  <2> QED BY <1>1, <1>4, <1>13, <2>1, <2>2, <2>3 DEF KeepsTypes
<1>16. PICK last : last = item("end_function", here, NoNode)
  OBVIOUS
<1>17. last.do = "end_function"
  BY <1>16 DEF item
<1>18. Len(items) \in Nat /\ Len(items) # 0 /\ \A j \in 1 .. Len(items) : items[j].do \in {"visit", "end_function"}
  <2>1. PICK n, s : s = visit(node_at(here).body) /\ n = Len(s)
    OBVIOUS
  <2>2. n \in Nat
    <3>1. node_at(here).body \in Seq(Nat)
      BY <1>2, <1>4, NodeFacts DEF node_at, AstNode
    <3> QED BY <2>1, <3>1 DEF visit
  <2>3. Len(items) = n + 1 /\ items[n + 1] = last /\ \A j \in 1 .. n : items[j] = s[j]
    BY <1>9, <1>16, <2>1 DEF Extended
  <2>4. \A j \in 1 .. n : s[j].do = "visit"
    <3>1. node_at(here).body \in Seq(Nat)
      BY <1>2, <1>4, NodeFacts DEF node_at, AstNode
    <3> QED BY <2>1, <3>1 DEF visit, item
  <2>5. \A j \in 1 .. n + 1 : j \in 1 .. n \/ j = n + 1
    BY <2>2
  <2> QED BY <1>17, <2>2, <2>3, <2>4, <2>5
<1>19. PICK e : Walked(ast, e, items) /\ e[1] = p /\ e[Len(items) + 1] = w[2]
  <2>1. Quiet(items)
    BY <1>18 DEF Quiet
  <2>2. PICK d : /\ Walked(ast, d, items) /\ d[1] = [at |-> b[1], held |-> h]
                 /\ d[Len(items) + 1] = [at |-> b[Len(items) + 1], held |-> h]
    BY <1>10, <1>18, <2>1, QuietWalk
  <2> QED BY <1>7, <1>10, <1>13, <2>2
<1>20. LastValue(t, p)'
  <2>1. todo'[1] = items[1]
    BY <1>2, <1>9, <1>18, NewTodo
  <2>2. 1 \in 1 .. Len(items)
    BY <1>18
  <2> QED BY <1>4, <1>18, <2>1, <2>2 DEF LastValue, Needs
<1>21. AnswersKept'
  <2>1. \A m1 \in DOMAIN ast.nodes : w[2].at < m1 => uses'[m1] = uses[m1]
    BY <1>1
  <2>2. \A j \in 1 .. Len(items) : items[j].do \in Asks => uses'[items[j].node] = items[j].entry
    BY <1>18 DEF Asks
  <2> QED BY <1>2, <1>3, <1>4, <1>9, <2>1, <2>2, AnswersStep
<1> QED BY <1>1, <1>2, <1>3, <1>4, <1>9, <1>14, <1>15, <1>19, <1>20, <1>21, ReplaceTypes

-------------------------------------------------------------------------------

LEMMA generateTypes ==
  ASSUME GInv, TypesInv, generate
  PROVE  TypesInv'
<1>1. /\ outcome = "idle" /\ outcome' = "running" /\ todo' = visit(ast.top) /\ Tree
      /\ kept' = kept /\ stores' = stores /\ refused' = refused /\ uses' = uses
  BY DEF generate, KeepBuilder
<1>2. todo = << >> /\ IsAst(ast) /\ ast' = ast
  BY <1>1 DEF GInv, RecordsInv, Tree
<1>3. PICK w, t : /\ Walked(ast, w, todo) /\ Bounded(w)
                  /\ TypesUpTo(t, w[1].at) /\ KeepsTypes(t, w[1])
  BY DEF TypesInv
<1>4. PICK h \in Seq(Nat), p \in {w[1]} : p = w[1] /\ h = << >> /\ p = [at |-> 0, held |-> h]
  <2>1. PICK h \in Seq(Nat) : h = << >>
    <3>1. << >> \in Seq(Nat)
      OBVIOUS
    <3> QED BY <3>1
  <2>2. w[1] = [at |-> 0, held |-> h]
    BY <1>1, <1>3, <2>1 DEF Bounded
  <2> QED BY <2>1, <2>2
<1>5. Tiles(FirstOf(ast), Len(ast.nodes), ast.top, 0, Len(ast.nodes))
  BY <1>2, TreeFacts
<1>6. PICK e : Tiled(ast, e, visit(ast.top)) /\ e[1] = 0 /\ e[Len(visit(ast.top)) + 1] = Len(ast.nodes)
               /\ Len(visit(ast.top)) = Len(ast.top)
  BY <1>5, ListTiled
<1>7. ast.top \in Seq(DOMAIN ast.nodes) /\ Len(ast.top) \in Nat
  <2>1. ast.top \in Seq(1 .. Len(ast.nodes)) /\ DOMAIN ast.nodes = 1 .. Len(ast.nodes)
    BY <1>2, <1>5, TreeFacts DEF Tiles
  <2> QED BY <2>1
<1>8. PICK s : s = visit(ast.top)
  OBVIOUS
<1>9. Len(s) \in Nat /\ \A j \in 1 .. Len(s) : s[j].do = "visit"
  BY <1>6, <1>7, <1>8 DEF visit, item
<1>10. Quiet(s)
  BY <1>9 DEF Quiet
<1>18. Tiled(ast, e, s)
  BY <1>6, <1>8
<1>11. PICK d : Walked(ast, d, s) /\ d[1] = [at |-> e[1], held |-> h]
                /\ d[Len(s) + 1] = [at |-> e[Len(s) + 1], held |-> h]
  BY <1>9, <1>10, <1>18, QuietWalk
<1>12. Walked(ast, d, todo)' /\ d[1] = p /\ d[Len(todo') + 1].at = Len(ast.nodes)
  BY <1>1, <1>2, <1>4, <1>6, <1>8, <1>11
<1>13. Bounded(d)'
  BY <1>1, <1>2, <1>12 DEF Bounded
<1>14. TypesUpTo(t, p.at)'
  <2>1. 0 \in Nat /\ 1 \in Nat /\ 0 < 1 /\ p.at = 0
    BY <1>4
  <2>2. TypesUpTo(t, 0)
    BY <1>3, <1>4, <2>1
  <2>3. TypesUpTo(t, 0)'
    BY <1>1, <1>2, <2>1, <2>2, UpToStays
  <2> QED BY <2>1, <2>3
<1>15. KeepsTypes(t, p)'
  BY <1>1, <1>2, <1>3, <1>4 DEF KeepsTypes
<1>16. LastValue(t, p)'
  <2>1. todo' # << >> => 1 \in 1 .. Len(s) /\ todo'[1] = s[1]
    <3>1. s \in Seq(Item)
      BY <1>2, <1>7, <1>8, VisitList
    <3> QED BY <1>1, <1>8, <3>1
  <2> QED BY <1>2, <1>9, <2>1 DEF LastValue, Needs
<1>17. AnswersKept'
  BY <1>1, <1>8, <1>9 DEF AnswersKept, Asks
<1> QED BY <1>12, <1>13, <1>14, <1>15, <1>16, <1>17 DEF TypesInv

\* Throws, and what comes after the last node.
LEMMA SameTypes ==
  ASSUME GInv, TypesInv, Tree, todo' = todo, kept' = kept, stores' = stores, refused' = refused, uses' = uses,
         current_value_' = current_value_, outcome' = outcome \/ (outcome # "idle" /\ outcome' # "idle")
  PROVE  TypesInv'
<1>1. PICK w, t : /\ Walked(ast, w, todo) /\ Bounded(w)
                  /\ TypesUpTo(t, w[1].at) /\ KeepsTypes(t, w[1]) /\ LastValue(t, w[1])
  BY DEF TypesInv
<1>2. IsAst(ast) /\ ast' = ast /\ Len(todo) \in Nat
  BY DEF GInv, Tree, ItemsInv
<1>3. PICK c \in Nat, p \in {w[1]} : p = w[1] /\ c = w[1].at
  <2>1. w[1] \in Point
    BY <1>1, <1>2 DEF Walked
  <2>2. w[1].at \in Nat
    BY <2>1, Points
  <2> QED BY <2>2
<1>4. Walked(ast, w, todo)' /\ w[1] = p
  BY <1>1, <1>2, <1>3
<1>5. Bounded(w)'
  BY <1>1, <1>2 DEF Bounded
<1>6. TypesUpTo(t, p.at)'
  <2>1. c + 1 \in Nat /\ c < c + 1
    OBVIOUS
  <2>2. TypesUpTo(t, c)'
    BY <1>1, <1>2, <1>3, <2>1, UpToStays
  <2> QED BY <1>3, <2>2
<1>7. KeepsTypes(t, p)' /\ LastValue(t, p)'
  BY <1>1, <1>2, <1>3 DEF KeepsTypes, LastValue
<1>8. AnswersKept'
  BY DEF TypesInv, AnswersKept
<1> QED BY <1>4, <1>5, <1>6, <1>7, <1>8 DEF TypesInv

LEMMA TypesStart ==
  ASSUME IsAst(ast), todo = << >>, kept = << >>, stores = {}, outcome = "idle", refused = {}
  PROVE  TypesInv
<1>1. PICK p \in Point : p = [at |-> 0, held |-> << >>]
  <2>1. << >> \in Seq(Nat)
    OBVIOUS
  <2> QED BY <2>1 DEF Point
<1>2. p.at = 0 /\ p.held = << >>
  BY <1>1
<1> DEFINE w == [j \in 1 .. 0 + 1 |-> p]
           t == [n \in DOMAIN ast.nodes |-> "void"]
<1>3. w \in [1 .. 0 + 1 -> Point] /\ w[1] = p
  OBVIOUS
<1> HIDE DEF w
<1>4. Len(todo) = 0 /\ Len(kept) = 0
  OBVIOUS
<1>5. Walked(ast, w, todo)
  BY <1>3, <1>4 DEF Walked
<1>6. Bounded(w)
  BY <1>1, <1>3 DEF Bounded
<1>7. \A n \in DOMAIN ast.nodes : n \in Nat /\ ~ (n <= 0)
  BY TreeFacts
<1>8. t = [n \in DOMAIN ast.nodes |-> t[n]] /\ \A n \in DOMAIN ast.nodes : t[n] = "void"
  OBVIOUS
<1> HIDE DEF t
<1>9. \A n \in DOMAIN ast.nodes : node_at(n).kind \notin Expression => ValueTypeAt(t, n) = "void"
  BY Kinds DEF ValueTypeAt
<1>10. TypesUpTo(t, 0)
  BY <1>7, <1>8, <1>9 DEF TypesUpTo
<1>11. KeepsTypes(t, p)
  BY <1>2, <1>4 DEF KeepsTypes
<1>12. AnswersKept
  BY <1>4 DEF AnswersKept
<1> QED BY <1>2, <1>3, <1>5, <1>6, <1>10, <1>11, <1>12 DEF TypesInv, LastValue

LEMMA ThrowTypes ==
  ASSUME GInv, TypesInv, Tree, Generating, NEW reason, reason # "idle", Throw(reason)
  PROVE  TypesInv'
BY SameTypes DEF Throw, Generating

LEMMA MayThrowTypes ==
  ASSUME GInv, NamingInv, TypesInv,
         \/ binary_op \/ unary_op \/ bind_variable \/ visit_variable_assignment \/ store_value
         \/ visit_variable_lookup \/ visit_function_call \/ call \/ return \/ branch \/ define_constant
  PROVE  TypesInv'
<1>1. Generating /\ Tree
  BY DEF binary_op, unary_op, bind_variable, visit_variable_assignment, store_value, visit_variable_lookup,
     visit_function_call, call, return, branch, define_constant, Visits, Next_is
<1>2. CASE \E reason : reason # "idle" /\ Throw(reason)
  BY <1>1, <1>2, ThrowTypes
<1>3. CASE ~ \E reason : reason # "idle" /\ Throw(reason)
  <2>1. CASE binary_op
    <3>1. outcome' = outcome
      BY <1>3, <2>1 DEF binary_op
    <3> QED BY <2>1, <3>1, binary_opTypes
  <2>2. CASE unary_op
    <3>1. outcome' = outcome
      BY <1>3, <2>2 DEF unary_op
    <3> QED BY <2>2, <3>1, unary_opTypes
  <2>3. CASE bind_variable
    <3>1. outcome' = outcome
      BY <1>3, <2>3 DEF bind_variable
    <3> QED BY <2>3, <3>1, bind_variableTypes
  <2>4. CASE visit_variable_assignment
    <3>1. outcome' = outcome
      BY <1>3, <2>4 DEF visit_variable_assignment
    <3> QED BY <2>4, <3>1, visit_variable_assignmentTypes
  <2>5. CASE store_value
    <3>1. outcome' = outcome
      BY <1>3, <2>5 DEF store_value
    <3> QED BY <2>5, <3>1, store_valueTypes
  <2>6. CASE visit_variable_lookup
    <3>1. outcome' = outcome
      BY <1>3, <2>6 DEF visit_variable_lookup
    <3> QED BY <2>6, <3>1, visit_variable_lookupTypes
  <2>7. CASE visit_function_call
    <3>1. outcome' = outcome
      BY <1>3, <2>7 DEF visit_function_call
    <3> QED BY <2>7, <3>1, visit_function_callTypes
  <2>8. CASE call
    <3>1. outcome' = outcome
      BY <1>3, <2>8 DEF call
    <3> QED BY <2>8, <3>1, callTypes
  <2>9. CASE return
    <3>1. outcome' = outcome
      BY <1>3, <2>9 DEF return
    <3> QED BY <2>9, <3>1, returnTypes
  <2>10. CASE branch
    <3>1. outcome' = outcome
      BY <1>3, <2>10 DEF branch
    <3> QED BY <2>10, <3>1, branchTypes
  <2>11. CASE define_constant
    <3>1. /\ Goes_on(<< >>) /\ outcome' = outcome /\ Next_is("define_constant")
          /\ kept' = kept /\ uses' = uses /\ stores' = stores /\ refused' = refused
      BY <1>3, <2>11 DEF define_constant, KeepBuilder
    <3>2. todo # << >> /\ todo[1].do = "define_constant"
      BY <3>1, HeadFacts DEF Next_is
    <3> QED BY <1>1, <3>1, <3>2, EndTypes
  <2> QED BY <2>1, <2>2, <2>3, <2>4, <2>5, <2>6, <2>7, <2>8, <2>9, <2>10, <2>11
<1> QED BY <1>2, <1>3

\* Whatever step the generator makes, the values have the types that the
\* names they were found under give them.
LEMMA TypesStay ==
  ASSUME GInv, NamingInv, TypesInv, [Next]_vars
  PROVE  TypesInv'
<1>1. CASE UNCHANGED vars
  BY <1>1, SameTypes DEF vars, Tree
<1>2. CASE end_function \/ end_else
  <2>1. /\ Generating /\ Tree /\ Goes_on(<< >>) /\ outcome' = outcome
        /\ kept' = kept /\ uses' = uses /\ stores' = stores /\ refused' = refused
        /\ Next_is("end_function") \/ Next_is("end_else")
    BY <1>2 DEF end_function, end_else, Next_is
  <2>2. todo # << >> /\ todo[1].do \in {"end_function", "end_else"}
    BY <2>1, HeadFacts DEF Next_is
  <2> QED BY <2>1, <2>2, EndTypes
<1>3. CASE create_main_wrapper
  BY <1>3, SameTypes DEF create_main_wrapper
<1>4. CASE verify_module
  BY <1>4, SameTypes DEF verify_module, KeepBuilder, Generating
<1>5. CASE generate \/ visit_literal \/ keep_value \/ visit_binary_op \/ visit_unary_op \/ visit_variable_declaration
  BY <1>5, generateTypes, visit_literalTypes, keep_valueTypes, visit_binary_opTypes, visit_unary_opTypes,
     visit_variable_declarationTypes
<1>6. CASE visit_function_declaration \/ visit_function_return \/ visit_if \/ end_then \/ visit_constant_declaration
  BY <1>6, visit_function_declarationTypes, visit_function_returnTypes, visit_ifTypes, end_thenTypes,
     visit_constant_declarationTypes
<1> QED BY <1>1, <1>2, <1>3, <1>4, <1>5, <1>6, MayThrowTypes DEF Next

\* What LLVM has accepted it refused nothing of.
VerifiedInv == outcome = "verified" => refused = {}

LEMMA VerifiedStays ==
  ASSUME VerifiedInv, [Next]_vars
  PROVE  VerifiedInv'
<1> SUFFICES ASSUME outcome' = "verified" PROVE refused' = {}
  BY DEF VerifiedInv
<1>1. CASE UNCHANGED vars
  BY <1>1 DEF vars, VerifiedInv
<1>2. CASE verify_module
  BY <1>2 DEF verify_module, KeepBuilder
<1>3. CASE generate
  BY <1>3 DEF generate
<1>4. CASE binary_op \/ unary_op \/ bind_variable \/ visit_variable_assignment \/ store_value \/ visit_variable_lookup
  BY <1>4 DEF binary_op, unary_op, bind_variable, visit_variable_assignment, store_value, visit_variable_lookup,
     Throw, Visits, Next_is, Generating
<1>5. CASE visit_function_call \/ call \/ return \/ branch \/ define_constant
  BY <1>5 DEF visit_function_call, call, return, branch, define_constant, Throw, Visits, Next_is, Generating
<1>6. CASE visit_literal \/ keep_value \/ visit_binary_op \/ visit_unary_op \/ visit_variable_declaration
  BY <1>6 DEF visit_literal, keep_value, visit_binary_op, visit_unary_op, visit_variable_declaration,
     Visits, Next_is, Generating
<1>7. CASE visit_function_declaration \/ visit_function_return \/ visit_if \/ end_then \/ end_else
           \/ visit_constant_declaration
  BY <1>7 DEF visit_function_declaration, visit_function_return, visit_if, end_then, end_else,
     visit_constant_declaration, Visits, Next_is, Generating
<1>8. CASE end_function \/ create_main_wrapper
  BY <1>8 DEF end_function, create_main_wrapper, Next_is, Generating
<1> QED BY <1>1, <1>2, <1>3, <1>4, <1>5, <1>6, <1>7, <1>8 DEF Next

\* Every value of a program that is generated has a type that fits.
LEMMA VerifiedTypes ==
  ASSUME GInv, TypesInv, VerifiedInv, outcome = "verified"
  PROVE  \E t : /\ t = [n \in DOMAIN ast.nodes |-> t[n]]
                /\ \A n \in DOMAIN ast.nodes : t[n] = ValueTypeAt(t, n) /\ Answered(n) /\ FitsItsPlace(t, n)
<1>1. PICK w, t : Bounded(w) /\ TypesUpTo(t, w[1].at)
  BY DEF TypesInv
<1>2. todo = << >> /\ refused = {} /\ IsAst(ast)
  BY DEF GInv, RecordsInv, VerifiedInv
<1>3. Len(todo) + 1 = 1
  BY <1>2
<1>4. w[1].at = Len(ast.nodes)
  BY <1>1, <1>3 DEF Bounded
<1>5. \A n \in DOMAIN ast.nodes : n <= Len(ast.nodes)
  BY <1>2, TreeFacts
<1> QED BY <1>1, <1>2, <1>4, <1>5 DEF TypesUpTo
================================================================================
