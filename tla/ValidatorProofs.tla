---------------------------- MODULE ValidatorProofs ----------------------------
(***************************************************************************)
(* For any programs, names and number of validations: the Validator keeps  *)
(* its types, every stack frame owns and releases the table at its depth,  *)
(* a literal whose type is fixed keeps it, a tree without errors is one    *)
(* the code generator can be given, and the table of a frame holds what    *)
(* was declared where the frame is.                                        *)
(***************************************************************************)
EXTENDS Validator, CheckedTree, TreeProofs

TableProofs == INSTANCE SymbolTableProofs WITH Decl <- Nat \ {NoNode}, NoEntry <- NoNode

-------------------------------------------------------------------------------
(***************************************************************************)
(* The inductive invariant.  What may be left to do in a frame depends on  *)
(* its depth: only instructions in the first, which no list opened, only   *)
(* statements and expressions above it; so the frame above the first is a  *)
(* function's and those above that are an if's.                            *)
(***************************************************************************)

TopItem(tree) ==
    {item \in Item : /\ item.node \in DOMAIN tree.nodes
                     /\ tree.nodes[item.node].kind \in TopLevel
                     /\ item.do \in {"register", "visit"}}

\* An item is for a node of the kind that its visitor left it for.
Fits(tree, item) ==
    LET kind == tree.nodes[item.node].kind IN
    /\ kind \notin TopLevel
    /\ item.do # "register"
    /\ item.do = "declare_variable" => kind = "VariableDeclaration"
    /\ item.do = "check_assignment" => kind = "VariableAssignment"
    /\ item.do = "type_binary_op" => kind = "BinaryOp"
    /\ item.do = "type_unary_op" => kind = "UnaryOp"
    /\ item.do = "check_return" => kind = "FunctionReturn"
    /\ item.do \in {"check_condition", "else_block"} => kind = "If"
    /\ item.do \in {"check_assignment", "argument", "check_argument"}
         => item.entry \in DOMAIN tree.nodes

InnerItem(tree) == {item \in Item : item.node \in DOMAIN tree.nodes /\ Fits(tree, item)}

ItemAt(tree, k) == IF k = 1 THEN TopItem(tree) ELSE InnerItem(tree)

OwnerAt(tree, k) ==
    IF k = 1 THEN {NoNode}
    ELSE {n \in DOMAIN tree.nodes :
            tree.nodes[n].kind = IF k = 2 THEN "FunctionDeclaration" ELSE "If"}

FramesInv ==
    /\ frames \in Seq(Frame)
    /\ \A k \in DOMAIN frames : /\ frames[k].owner \in OwnerAt(ast, k)
                                /\ frames[k].todo \in Seq(ItemAt(ast, k))

\* The conjuncts of TypeOK that a step changes independently of the others.
TypesInv == result_type \in [DOMAIN ast.nodes -> ResultType]

ErrorsInv == errors \in Seq([node : DOMAIN ast.nodes, message : Message])

ResolvedInv == resolved \in [DOMAIN ast.nodes -> {NoNode} \cup DOMAIN ast.nodes]

HistoryInv ==
    /\ round \in 0 .. MaxRounds
    /\ verdict_before \in BOOLEAN
    /\ types_before \in [DOMAIN ast.nodes -> ResultType]

ScopesInv ==
    /\ TableProofs!Inv
    /\ scopes \in Seq([Name -> {NoNode} \cup DOMAIN ast.nodes])

FunctionInv == current_function_ \in {NoNode} \cup DOMAIN ast.nodes

IInv ==
    /\ IsAst(ast)
    /\ TypesInv
    /\ ErrorsInv
    /\ ResolvedInv
    /\ HistoryInv
    /\ ScopesInv
    /\ FunctionInv
    /\ FramesInv
    /\ FramesOwnScopes

-------------------------------------------------------------------------------
(* The tree. *)

LEMMA ResultTypes ==
  /\ PrimitiveType \subseteq ResultType
  /\ ConstType \subseteq PrimitiveType
  /\ {UNDEF, CONST_INT, CONST_UINT, CONST_FLOAT, BOOL} \subseteq PrimitiveType
  /\ NoType \in ResultType
BY DEF ResultType, PrimitiveType, ConstType, UNDEF, CONST_INT, CONST_UINT, CONST_FLOAT, BOOL, NoType

LEMMA AstFacts ==
  ASSUME IsAst(ast), NEW n \in DOMAIN ast.nodes
  PROVE  /\ DOMAIN ast.nodes \subseteq Nat \ {NoNode}
         /\ at(n) \in AstNode
         /\ \A i \in DOMAIN at(n).operands :
              /\ at(n).operands[i] \in DOMAIN ast.nodes
              /\ at(at(n).operands[i]).kind \in Expression
         /\ \A i \in DOMAIN at(n).params :
              /\ at(n).params[i] \in DOMAIN ast.nodes
              /\ at(at(n).params[i]).kind = "Argument"
         /\ \A i \in DOMAIN at(n).body :
              /\ at(n).body[i] \in DOMAIN ast.nodes
              /\ at(at(n).body[i]).kind \in Statement
         /\ \A i \in DOMAIN at(n).orelse :
              /\ at(n).orelse[i] \in DOMAIN ast.nodes
              /\ at(at(n).orelse[i]).kind \in Statement
         /\ Len(at(n).operands) \in Operands(at(n).kind)
         /\ at(n).kind \in Named => at(n).name \in Name
<1>1. ast.nodes \in Seq(AstNode)
  BY DEF IsAst
<1>2. n \in 1 .. Len(ast.nodes) /\ DOMAIN ast.nodes = 1 .. Len(ast.nodes) /\ Len(ast.nodes) \in Nat
  BY <1>1
<1>3. 1 .. n - 1 \subseteq DOMAIN ast.nodes
  BY <1>2
<1>4. at(n) \in AstNode
  BY <1>1, <1>2 DEF at
<1>5. /\ at(n).operands \in Seq({m \in 1 .. n - 1 : ast.nodes[m].kind \in Expression})
      /\ at(n).params \in Seq({m \in 1 .. n - 1 : ast.nodes[m].kind \in {"Argument"}})
      /\ at(n).body \in Seq({m \in 1 .. n - 1 : ast.nodes[m].kind \in Statement})
      /\ at(n).orelse \in Seq({m \in 1 .. n - 1 : ast.nodes[m].kind \in Statement})
      /\ Len(at(n).operands) \in Operands(at(n).kind)
      /\ at(n).kind \in Named => at(n).name \in Name
  BY DEF IsAst, at
<1>6. \A i \in DOMAIN at(n).operands :
         at(n).operands[i] \in DOMAIN ast.nodes /\ at(at(n).operands[i]).kind \in Expression
  BY <1>3, <1>5 DEF at
<1>7. \A i \in DOMAIN at(n).params :
         at(n).params[i] \in DOMAIN ast.nodes /\ at(at(n).params[i]).kind = "Argument"
  BY <1>3, <1>5 DEF at
<1>8. \A i \in DOMAIN at(n).body :
         at(n).body[i] \in DOMAIN ast.nodes /\ at(at(n).body[i]).kind \in Statement
  BY <1>3, <1>5 DEF at
<1>9. \A i \in DOMAIN at(n).orelse :
         at(n).orelse[i] \in DOMAIN ast.nodes /\ at(at(n).orelse[i]).kind \in Statement
  BY <1>3, <1>5 DEF at
<1>10. DOMAIN ast.nodes \subseteq Nat \ {NoNode}
  BY <1>2 DEF NoNode
<1> QED BY <1>4, <1>5, <1>6, <1>7, <1>8, <1>9, <1>10

\* Which kinds are disjoint from which.
LEMMA Kinds ==
  /\ Expression \cap TopLevel = {}
  /\ Statement \cap TopLevel = {}
  /\ Literal \cap TopLevel = {}
  /\ "Argument" \notin TopLevel
  /\ TopLevel \subseteq Named
  /\ {"Argument", "VariableDeclaration", "VariableLookup", "VariableAssignment", "FunctionCall"}
       \subseteq Named
BY DEF Expression, Statement, Literal, TopLevel, Named, Declaration

LEMMA InitialTypes ==
  ASSUME NEW node \in AstNode
  PROVE  initial_type(node) \in ResultType
BY ResultTypes DEF initial_type, Literal

-------------------------------------------------------------------------------
(* The head of the current frame. *)

LEMMA HeadFacts ==
  ASSUME IInv, Running, Current.todo # << >>
  PROVE  /\ Len(frames) \in Nat \ {0}
         /\ Len(frames) \in DOMAIN frames
         /\ Current.todo \in Seq(ItemAt(ast, Len(frames)))
         /\ Head(Current.todo) \in ItemAt(ast, Len(frames))
         /\ Head(Current.todo) \in Item
         /\ this \in DOMAIN ast.nodes
         /\ Len(frames) = 1 => at(this).kind \in TopLevel
         /\ Len(frames) # 1 => Fits(ast, Head(Current.todo))
<1>1. Len(frames) \in Nat \ {0} /\ Len(frames) \in DOMAIN frames
  BY DEF IInv, FramesInv, Running
<1>2. Current.todo \in Seq(ItemAt(ast, Len(frames)))
  BY <1>1 DEF IInv, FramesInv, Current
<1>3. Head(Current.todo) \in ItemAt(ast, Len(frames))
  BY <1>2
<1>4. ItemAt(ast, Len(frames)) \subseteq Item
  BY DEF ItemAt, TopItem, InnerItem
<1>5. this \in DOMAIN ast.nodes
  BY <1>3 DEF ItemAt, TopItem, InnerItem, this
<1>6. Len(frames) = 1 => at(this).kind \in TopLevel
  BY <1>3 DEF ItemAt, TopItem, this, at
<1>7. Len(frames) # 1 => Fits(ast, Head(Current.todo))
  BY <1>3 DEF ItemAt, InnerItem
<1> QED BY <1>1, <1>2, <1>3, <1>4, <1>5, <1>6, <1>7

-------------------------------------------------------------------------------
(* How the two ways of going on change the frames. *)

LEMMA ItemSetsAreItems ==
  ASSUME NEW tree, NEW k
  PROVE  ItemAt(tree, k) \subseteq Item
BY DEF ItemAt, TopItem, InnerItem

LEMMA NewTodo ==
  ASSUME NEW frame \in Frame, NEW todo
  PROVE  [frame EXCEPT !.todo = todo] = [owner |-> frame.owner, todo |-> todo]
BY DEF Frame

LEMMA ThenFrames ==
  ASSUME IInv, Running, Current.todo # << >>, ast' = ast,
         NEW items \in Seq(ItemAt(ast, Len(frames))), Then(items)
  PROVE  /\ FramesInv'
         /\ Len(frames') = Len(frames)
         /\ Running'
         /\ \A k \in DOMAIN frames : frames'[k].owner = frames[k].owner
<1> DEFINE L == Len(frames)
           todo == items \o Tail(Current.todo)
<1>1. /\ L \in Nat \ {0} /\ L \in DOMAIN frames
      /\ Current.todo \in Seq(ItemAt(ast, L))
  BY HeadFacts
<1>2. todo \in Seq(ItemAt(ast, L))
  BY <1>1
<1>3. todo \in Seq(Item)
  BY <1>2, ItemSetsAreItems
<1>4. frames \in Seq(Frame)
  BY DEF IInv, FramesInv
<1>5. frames[L] \in Frame
  BY <1>1, <1>4
<1>6. frames' = [frames EXCEPT ![L] = [frames[L] EXCEPT !.todo = todo]]
  BY <1>1, <1>4 DEF Then, Current
<1>7. [frames[L] EXCEPT !.todo = todo] = [owner |-> frames[L].owner, todo |-> todo]
  BY <1>5, NewTodo
<1>8. [owner |-> frames[L].owner, todo |-> todo] \in Frame
  BY <1>3, <1>5 DEF Frame
<1> HIDE DEF todo, L
<1>9. /\ frames' \in Seq(Frame)
      /\ Len(frames') = Len(frames)
      /\ DOMAIN frames' = DOMAIN frames
      /\ frames'[L] = [owner |-> frames[L].owner, todo |-> todo]
      /\ \A k \in DOMAIN frames : k # L => frames'[k] = frames[k]
  BY <1>1, <1>4, <1>6, <1>7, <1>8 DEF L
<1>10. \A k \in DOMAIN frames : frames'[k].owner = frames[k].owner
  BY <1>9
<1>11. \A k \in DOMAIN frames : /\ frames'[k].owner \in OwnerAt(ast, k)
                                /\ frames'[k].todo \in Seq(ItemAt(ast, k))
  <2> TAKE k \in DOMAIN frames
  <2>1. CASE k = L
    BY <1>1, <1>2, <1>9, <2>1 DEF IInv, FramesInv
  <2>2. CASE k # L
    BY <1>9, <2>2 DEF IInv, FramesInv
  <2> QED BY <2>1, <2>2
<1>12. FramesInv'
  BY <1>9, <1>11 DEF FramesInv
<1>13. Running'
  BY <1>1, <1>9 DEF Running, L
<1> QED BY <1>9, <1>10, <1>12, <1>13

LEMMA EnterFrames ==
  ASSUME IInv, Running, Current.todo # << >>, ast' = ast,
         NEW list, visits(list) \in Seq(InnerItem(ast)),
         this \in OwnerAt(ast, Len(frames) + 1),
         NEW items \in Seq(ItemAt(ast, Len(frames))), Enter(list, items)
  PROVE  /\ FramesInv'
         /\ Len(frames') = Len(frames) + 1
         /\ Running'
         /\ \A k \in DOMAIN frames : frames'[k].owner = frames[k].owner
         /\ frames'[Len(frames) + 1].owner = this
<1> DEFINE L == Len(frames)
           todo == items \o Tail(Current.todo)
           opened == [owner |-> this, todo |-> visits(list)]
<1>1. /\ L \in Nat \ {0} /\ L \in DOMAIN frames
      /\ Current.todo \in Seq(ItemAt(ast, L))
      /\ this \in DOMAIN ast.nodes
  BY HeadFacts
<1>2. todo \in Seq(ItemAt(ast, L))
  BY <1>1
<1>3. todo \in Seq(Item) /\ visits(list) \in Seq(Item)
  BY <1>2, ItemSetsAreItems DEF InnerItem
<1>4. frames \in Seq(Frame)
  BY DEF IInv, FramesInv
<1>5. frames[L] \in Frame
  BY <1>1, <1>4
<1>6. frames' = Append([frames EXCEPT ![L] = [frames[L] EXCEPT !.todo = todo]], opened)
  BY <1>1, <1>4 DEF Enter, Current
<1>7. [frames[L] EXCEPT !.todo = todo] = [owner |-> frames[L].owner, todo |-> todo]
  BY <1>5, NewTodo
<1>8. /\ [owner |-> frames[L].owner, todo |-> todo] \in Frame
      /\ opened \in Frame
  <2>1. IsAst(ast)
    BY DEF IInv
  <2>2. this \in Nat
    BY <1>1, <2>1, AstFacts
  <2> QED BY <1>3, <1>5, <2>2 DEF Frame
<1>9. opened.owner = this /\ opened.todo = visits(list)
  OBVIOUS
<1> HIDE DEF todo, L, opened
<1>10. /\ frames' \in Seq(Frame)
       /\ Len(frames') = L + 1
       /\ DOMAIN frames' = DOMAIN frames \cup {L + 1}
       /\ frames'[L + 1] = opened
       /\ frames'[L] = [owner |-> frames[L].owner, todo |-> todo]
       /\ \A k \in DOMAIN frames : k # L => frames'[k] = frames[k]
  BY <1>1, <1>4, <1>6, <1>7, <1>8 DEF L
<1>11. \A k \in DOMAIN frames : frames'[k].owner = frames[k].owner
  BY <1>10
<1>12. ItemAt(ast, L + 1) = InnerItem(ast)
  BY <1>1 DEF ItemAt
<1>13. \A k \in DOMAIN frames' : /\ frames'[k].owner \in OwnerAt(ast, k)
                                 /\ frames'[k].todo \in Seq(ItemAt(ast, k))
  <2> TAKE k \in DOMAIN frames'
  <2>1. CASE k = L
    BY <1>1, <1>2, <1>10, <2>1 DEF IInv, FramesInv
  <2>2. CASE k = L + 1
    BY <1>9, <1>10, <1>12, <2>2 DEF L
  <2>3. CASE k # L /\ k # L + 1
    <3>1. k \in DOMAIN frames
      BY <1>10, <2>3
    <3> QED BY <1>10, <2>3, <3>1 DEF IInv, FramesInv
  <2> QED BY <2>1, <2>2, <2>3
<1>14. FramesInv'
  BY <1>10, <1>13 DEF FramesInv
<1>15. Running'
  BY <1>1, <1>10 DEF Running
<1> QED BY <1>9, <1>10, <1>11, <1>14, <1>15 DEF L

\* Visits of nodes that are no instructions may be left in any inner frame.
LEMMA VisitsAreInner ==
  ASSUME NEW list, list \in Seq(DOMAIN ast.nodes), DOMAIN ast.nodes \subseteq Nat,
         \A i \in DOMAIN list : at(list[i]).kind \notin TopLevel
  PROVE  visits(list) \in Seq(InnerItem(ast))
<1>1. \A i \in DOMAIN list : do("visit", list[i]) \in InnerItem(ast)
  BY DEF do, InnerItem, Item, Todo, Fits, at, NoNode
<1> QED BY <1>1 DEF visits

LEMMA OperandVisits ==
  ASSUME IInv, NEW n \in DOMAIN ast.nodes
  PROVE  visits(at(n).operands) \in Seq(InnerItem(ast))
<1>1. IsAst(ast)
  BY DEF IInv
<1>2. /\ at(n).operands \in Seq(Nat)
      /\ DOMAIN ast.nodes \subseteq Nat
      /\ \A i \in DOMAIN at(n).operands :
           at(n).operands[i] \in DOMAIN ast.nodes /\ at(at(n).operands[i]).kind \in Expression
  BY <1>1, AstFacts DEF AstNode
<1>3. at(n).operands \in Seq(DOMAIN ast.nodes)
  BY <1>2
<1> QED BY <1>2, <1>3, Kinds, VisitsAreInner

-------------------------------------------------------------------------------
(* The symbol table under the validator. *)

LEMMA TableAssumption == TableProofs!NoEntryIsNoDecl
BY DEF TableProofs!NoEntryIsNoDecl

LEMMA TableStep ==
  ASSUME TableProofs!Inv, [Table!Next]_scopes
  PROVE  TableProofs!Inv'
BY TableAssumption, TableProofs!StepInv
   DEF Table!Next, Table!reset, Table!insert, Table!create_stack_frame, Table!release_stack_frame,
       Table!EmptyTable, Table!is_new,
       TableProofs!Next, TableProofs!reset, TableProofs!insert, TableProofs!create_stack_frame,
       TableProofs!release_stack_frame, TableProofs!EmptyTable, TableProofs!is_new

LEMMA ScopesFacts ==
  ASSUME IInv
  PROVE  /\ scopes \in Seq([Name -> {NoNode} \cup DOMAIN ast.nodes])
         /\ Len(scopes) \in Nat \ {0}
         /\ Len(scopes) \in DOMAIN scopes
BY DEF IInv, ScopesInv, TableProofs!Inv

\* A lookup answers a node of the tree or nothing.
LEMMA LookupInTree ==
  ASSUME IInv, NEW x \in Name
  PROVE  Table!lookup(x) \in {NoNode} \cup DOMAIN ast.nodes
<1> DEFINE L == Len(scopes)
<1>1. /\ scopes \in Seq([Name -> {NoNode} \cup DOMAIN ast.nodes])
      /\ L \in Nat \ {0} /\ L \in DOMAIN scopes
  BY ScopesFacts
<1>2. Table!lookup(x) = IF Table!holders(L, x) = {} THEN NoNode
                        ELSE scopes[Table!Max(Table!holders(L, x))][x]
  BY DEF Table!lookup, Table!lookup_from
<1>3. CASE Table!holders(L, x) = {}
  BY <1>2, <1>3
<1>4. CASE Table!holders(L, x) # {}
  <2>1. TableProofs!Inv
    BY DEF IInv, ScopesInv
  <2>2. Table!holders(L, x) = TableProofs!holders(L, x)
    BY DEF Table!holders, TableProofs!holders
  <2>3. TableProofs!Max(TableProofs!holders(L, x)) \in 1 .. L
    BY <1>1, <1>4, <2>1, <2>2, TableAssumption, TableProofs!LookupFromLast
  <2>4. Table!Max(Table!holders(L, x)) \in DOMAIN scopes
    BY <1>1, <2>2, <2>3 DEF Table!Max, TableProofs!Max
  <2> QED BY <1>1, <1>2, <1>4, <2>4
<1> QED BY <1>3, <1>4

LEMMA InsertScopes ==
  ASSUME IInv, NEW n \in DOMAIN ast.nodes, NEW x \in Name, Table!insert(x, n), ast' = ast
  PROVE  ScopesInv' /\ Len(scopes') = Len(scopes)
<1>1. DOMAIN ast.nodes \subseteq Nat \ {NoNode}
  BY AstFacts DEF IInv
<1>2. TableProofs!Inv'
  BY <1>1, TableStep DEF IInv, ScopesInv, Table!Next
<1>3. scopes \in Seq([Name -> {NoNode} \cup DOMAIN ast.nodes])
  BY ScopesFacts
<1>4. CASE ~ Table!is_new(x)
  BY <1>2, <1>3, <1>4 DEF ScopesInv, Table!insert
<1>5. CASE Table!is_new(x)
  <2> DEFINE L == Len(scopes)
             T == [Name -> {NoNode} \cup DOMAIN ast.nodes]
  <2>1. L \in DOMAIN scopes /\ scopes[L] \in T
    BY <1>3, ScopesFacts
  <2>2. scopes' = [scopes EXCEPT ![L] = [scopes[L] EXCEPT ![x] = n]]
    BY <1>5, <2>1 DEF Table!insert
  <2>3. [scopes[L] EXCEPT ![x] = n] \in T
    BY <2>1
  <2> HIDE DEF T, L
  <2>4. scopes' \in Seq(T) /\ Len(scopes') = Len(scopes)
    BY <1>3, <2>1, <2>2, <2>3 DEF T
  <2> QED BY <1>2, <2>4 DEF ScopesInv, T
<1> QED BY <1>4, <1>5

LEMMA CreateScopes ==
  ASSUME IInv, Table!create_stack_frame, ast' = ast
  PROVE  ScopesInv' /\ Len(scopes') = Len(scopes) + 1
<1>1. TableProofs!Inv'
  BY TableStep DEF IInv, ScopesInv, Table!Next
<1>2. Table!EmptyTable \in [Name -> {NoNode} \cup DOMAIN ast.nodes]
  BY DEF Table!EmptyTable
<1> QED BY <1>1, <1>2, ScopesFacts DEF ScopesInv, Table!create_stack_frame

LEMMA ReleaseScopes ==
  ASSUME IInv, Table!release_stack_frame, Len(scopes) > 1, ast' = ast
  PROVE  ScopesInv' /\ Len(scopes') = Len(scopes) - 1
<1>1. TableProofs!Inv'
  BY TableStep DEF IInv, ScopesInv, Table!Next
<1> QED BY <1>1, ScopesFacts DEF ScopesInv, Table!release_stack_frame

-------------------------------------------------------------------------------
(* The shapes of a step of the visitors. *)

LEMMA AddError ==
  ASSUME IInv, NEW n \in DOMAIN ast.nodes, NEW message \in Message, add_error(n, message), ast' = ast
  PROVE  ErrorsInv'
BY DEF IInv, ErrorsInv, add_error

LEMMA RunningScopes ==
  ASSUME IInv, Running
  PROVE  Len(scopes) = Len(frames)
BY DEF IInv, FramesOwnScopes

LEMMA SameFunction ==
  ASSUME IInv, Running, Running', ast' = ast, Len(frames') = Len(frames), Len(scopes') = Len(scopes),
         \A k \in DOMAIN frames : frames'[k].owner = frames[k].owner,
         current_function_' = current_function_
  PROVE  FramesOwnScopes'
<1>1. Len(frames) > 1 => 2 \in DOMAIN frames
  BY DEF IInv, FramesInv
<1> QED BY <1>1 DEF IInv, FramesOwnScopes

\* It changes types, errors or resolutions, and goes on in the same frame.
LEMMA QuietStep ==
  ASSUME IInv, Running, Current.todo # << >>, KeepScope,
         NEW items \in Seq(ItemAt(ast, Len(frames))), Then(items),
         TypesInv', ErrorsInv', ResolvedInv'
  PROVE  IInv'
<1>1. ast' = ast /\ scopes' = scopes /\ current_function_' = current_function_
  BY DEF KeepScope
<1>2. FramesInv' /\ Len(frames') = Len(frames) /\ Running'
      /\ \A k \in DOMAIN frames : frames'[k].owner = frames[k].owner
  BY <1>1, ThenFrames
<1>3. FramesOwnScopes'
  BY <1>1, <1>2, SameFunction
<1>4. ScopesInv'
  BY <1>1, TableStep DEF IInv, ScopesInv
<1>5. HistoryInv'
  BY <1>1 DEF KeepScope, history, IInv, HistoryInv
<1> QED BY <1>1, <1>2, <1>3, <1>4, <1>5 DEF IInv, FunctionInv

\* It declares its node.
LEMMA DeclareStep ==
  ASSUME IInv, Running, Current.todo # << >>, at(this).name \in Name,
         NEW message \in Message, insert_or_fail(this, message)
  PROVE  IInv'
<1>1. /\ ast' = ast /\ current_function_' = current_function_
      /\ result_type' = result_type /\ resolved' = resolved /\ history' = history
      /\ Then(<< >>) /\ Table!insert(at(this).name, this)
      /\ errors' = errors \/ add_error(this, message)
  BY DEF insert_or_fail
<1>2. this \in DOMAIN ast.nodes /\ << >> \in Seq(ItemAt(ast, Len(frames)))
  BY HeadFacts
<1>3. ScopesInv' /\ Len(scopes') = Len(scopes)
  BY <1>1, <1>2, InsertScopes
<1>4. FramesInv' /\ Len(frames') = Len(frames) /\ Running'
      /\ \A k \in DOMAIN frames : frames'[k].owner = frames[k].owner
  BY <1>1, <1>2, ThenFrames
<1>5. FramesOwnScopes'
  BY <1>1, <1>3, <1>4, SameFunction
<1>6. ErrorsInv'
  <2>1. CASE errors' = errors
    BY <1>1, <2>1 DEF IInv, ErrorsInv
  <2>2. CASE add_error(this, message)
    BY <1>1, <1>2, <2>2, AddError
  <2> QED BY <1>1, <2>1, <2>2
<1>7. HistoryInv' /\ TypesInv' /\ ResolvedInv' /\ FunctionInv'
  BY <1>1 DEF history, IInv, HistoryInv, TypesInv, ResolvedInv, FunctionInv
<1> QED BY <1>1, <1>3, <1>4, <1>5, <1>6, <1>7 DEF IInv

\* It opens a frame: a function's over the first, an if's over any other.
LEMMA EnterStep ==
  ASSUME IInv, Running, Current.todo # << >>, Table!create_stack_frame,
         NEW list, visits(list) \in Seq(InnerItem(ast)),
         this \in OwnerAt(ast, Len(frames) + 1),
         NEW items \in Seq(ItemAt(ast, Len(frames))), Enter(list, items),
         UNCHANGED << ast, history, result_type, resolved >>, ErrorsInv',
         Len(frames) = 1 => current_function_' = this,
         Len(frames) # 1 => current_function_' = current_function_
  PROVE  IInv'
<1>1. this \in DOMAIN ast.nodes /\ Len(frames) \in Nat \ {0}
  BY HeadFacts
<1>2. ScopesInv' /\ Len(scopes') = Len(scopes) + 1
  BY CreateScopes
<1>3. /\ FramesInv' /\ Len(frames') = Len(frames) + 1 /\ Running'
      /\ \A k \in DOMAIN frames : frames'[k].owner = frames[k].owner
      /\ frames'[Len(frames) + 1].owner = this
  BY EnterFrames
<1>4. FramesOwnScopes'
  <2>1. Len(frames) # 1 => 2 \in DOMAIN frames
    <3>1. DOMAIN frames = 1 .. Len(frames)
      BY DEF IInv, FramesInv
    <3>2. \A k \in Nat \ {0} : k # 1 => 2 \in 1 .. k
      OBVIOUS
    <3> QED BY <1>1, <3>1, <3>2
  <2> QED BY <1>1, <1>2, <1>3, <2>1, RunningScopes DEF IInv, FramesOwnScopes
<1>5. HistoryInv' /\ TypesInv' /\ ResolvedInv' /\ FunctionInv'
  BY <1>1 DEF history, IInv, HistoryInv, TypesInv, ResolvedInv, FunctionInv
<1> QED BY <1>2, <1>3, <1>4, <1>5 DEF IInv

-------------------------------------------------------------------------------
(* What the visitors do to errors_ and to the result types. *)

LEMMA SetConst ==
  ASSUME NEW types \in [DOMAIN ast.nodes -> ResultType], NEW n \in DOMAIN ast.nodes, NEW type \in ResultType
  PROVE  set_type_on_const(types, n, type) \in [DOMAIN ast.nodes -> ResultType]
BY DEF set_type_on_const

LEMMA AssignTypes ==
  ASSUME IInv, NEW n \in DOMAIN ast.nodes, this \in DOMAIN ast.nodes, NEW type \in ResultType,
         NEW message \in Message, Assign(n, type, message), ast' = ast
  PROVE  TypesInv' /\ ErrorsInv'
<1>1. CASE check_type_assignment(result_type[n], type)
  BY <1>1, SetConst DEF Assign, IInv, TypesInv, ErrorsInv
<1>2. CASE ~ check_type_assignment(result_type[n], type)
  BY <1>2, AddError DEF Assign, IInv, TypesInv
<1> QED BY <1>1, <1>2

LEMMA TypeRules ==
  ASSUME NEW left \in ResultType, NEW right \in ResultType, NEW op,
         NoType \notin {left, right}
  PROVE  /\ binary_result(op, left, right) \in ResultType
         /\ operand_types(op, left, right, binary_result(op, left, right))
              \in Seq(ResultType)
         /\ Len(operand_types(op, left, right, binary_result(op, left, right))) = 2
<1>1. binary_result(op, left, right) \in {left, right, UNDEF, BOOL}
  BY DEF binary_result, convert_arithmetic_types
<1>2. binary_result(op, left, right) \in ResultType
  BY <1>1, ResultTypes
<1> HIDE DEF binary_result
<1> QED BY <1>2 DEF operand_types

\* An item that only visitors of statements and expressions leave is in an
\* inner frame.
LEMMA InnerHead ==
  ASSUME IInv, NEW what, Now(what), at(this).kind \notin TopLevel \/ what \notin {"register", "visit"}
  PROVE  /\ ItemAt(ast, Len(frames)) = InnerItem(ast)
         /\ Len(frames) # 1
         /\ Fits(ast, Head(Current.todo))
         /\ at(this).kind \notin TopLevel
<1>1. Running /\ Current.todo # << >> /\ Head(Current.todo).do = what
  BY DEF Now
<1>2. Len(frames) # 1
  BY <1>1, HeadFacts DEF ItemAt, TopItem
<1> QED BY <1>1, <1>2, HeadFacts DEF ItemAt, Fits, this, at

\* The visits of the operands, and then what the visitor does after them.
LEMMA InnerTodo ==
  ASSUME IInv, NEW what, Now(what), at(this).kind \notin TopLevel,
         NEW item \in Item, item.node = this, Fits(ast, item)
  PROVE  visits(at(this).operands) \o << item >> \in Seq(ItemAt(ast, Len(frames)))
<1>1. Running /\ Current.todo # << >>
  BY DEF Now
<1>2. this \in DOMAIN ast.nodes
  BY <1>1, HeadFacts
<1>3. visits(at(this).operands) \in Seq(InnerItem(ast))
  BY <1>2, OperandVisits
<1>4. item \in InnerItem(ast)
  BY <1>2 DEF InnerItem
<1> QED BY <1>3, <1>4, InnerHead

LEMMA ItemType ==
  ASSUME IInv, NEW what, Now(what), NEW next \in Todo, NEW entry \in {NoNode} \cup DOMAIN ast.nodes
  PROVE  [do |-> next, node |-> this, entry |-> entry] \in Item
<1>1. this \in DOMAIN ast.nodes
  BY HeadFacts DEF Now
<1>2. DOMAIN ast.nodes \subseteq Nat
  BY <1>1, AstFacts DEF IInv
<1> QED BY <1>1, <1>2 DEF Item, NoNode

\* The visitor reports its node and returns.
LEMMA FailStep ==
  ASSUME IInv, NEW what, Now(what), KeepScope, NEW message \in Message, Fail(message), ResolvedInv'
  PROVE  IInv'
<1>1. Running /\ Current.todo # << >> /\ ast' = ast /\ this \in DOMAIN ast.nodes
  BY HeadFacts DEF Now, KeepScope
<1>2. ErrorsInv'
  BY <1>1, AddError DEF Fail
<1>3. TypesInv'
  BY <1>1 DEF Fail, IInv, TypesInv
<1>4. Then(<< >>) /\ << >> \in Seq(ItemAt(ast, Len(frames)))
  BY DEF Fail
<1> QED BY <1>1, <1>2, <1>3, <1>4, QuietStep

\* It only leaves items.
LEMMA ItemsStep ==
  ASSUME IInv, NEW what, Now(what), KeepScope, UNCHANGED << errors, result_type >>, ResolvedInv',
         NEW items \in Seq(ItemAt(ast, Len(frames))), Then(items)
  PROVE  IInv'
<1>1. Running /\ Current.todo # << >> /\ ast' = ast
  BY DEF Now, KeepScope
<1>2. ErrorsInv' /\ TypesInv'
  BY <1>1 DEF IInv, TypesInv, ErrorsInv
<1> QED BY <1>1, <1>2, QuietStep

\* It gives its node a type and returns.
LEMMA TypeStep ==
  ASSUME IInv, NEW what, Now(what), KeepScope, UNCHANGED errors, ResolvedInv', TypesInv', Then(<< >>)
  PROVE  IInv'
<1>1. Running /\ Current.todo # << >> /\ ast' = ast
  BY DEF Now, KeepScope
<1>2. ErrorsInv'
  BY <1>1 DEF IInv, ErrorsInv
<1>3. << >> \in Seq(ItemAt(ast, Len(frames)))
  OBVIOUS
<1> QED BY <1>1, <1>2, <1>3, QuietStep

LEMMA SameResolved ==
  ASSUME IInv, ast' = ast, resolved' = resolved
  PROVE  ResolvedInv'
BY DEF IInv, ResolvedInv

LEMMA NewResolved ==
  ASSUME IInv, ast' = ast, NEW entry \in {NoNode} \cup DOMAIN ast.nodes,
         this \in DOMAIN ast.nodes, resolved' = [resolved EXCEPT ![this] = entry]
  PROVE  ResolvedInv'
BY DEF IInv, ResolvedInv

-------------------------------------------------------------------------------
(* Every action keeps the invariant. *)

LEMMA variable_declarationStep ==
  ASSUME IInv, validate_variable_declaration
  PROVE  IInv'
<1>1. /\ Now("visit") /\ at(this).kind = "VariableDeclaration" /\ KeepScope /\ UNCHANGED << errors, result_type, resolved >>
      /\ Then(visits(at(this).operands) \o << do("declare_variable", this) >>)
  BY DEF validate_variable_declaration, Visiting
<1>2. at(this).kind \notin TopLevel
  BY <1>1 DEF TopLevel
<1>3. do("declare_variable", this) \in Item
  BY <1>1, ItemType DEF do, Todo
<1>4. Fits(ast, do("declare_variable", this))
  BY <1>1, <1>2 DEF Fits, do, at
<1>5. visits(at(this).operands) \o << do("declare_variable", this) >> \in Seq(ItemAt(ast, Len(frames)))
  <2>1. do("declare_variable", this).node = this
    BY DEF do
  <2> QED BY <1>1, <1>2, <1>3, <1>4, <2>1, InnerTodo
<1>6. ResolvedInv'
  BY <1>1, SameResolved DEF KeepScope
<1> QED BY <1>1, <1>5, <1>6, ItemsStep

LEMMA binary_opStep ==
  ASSUME IInv, validate_binary_op
  PROVE  IInv'
<1>1. /\ Now("visit") /\ at(this).kind = "BinaryOp" /\ KeepScope /\ UNCHANGED << errors, result_type, resolved >>
      /\ Then(visits(at(this).operands) \o << do("type_binary_op", this) >>)
  BY DEF validate_binary_op, Visiting
<1>2. at(this).kind \notin TopLevel
  BY <1>1 DEF TopLevel
<1>3. do("type_binary_op", this) \in Item
  BY <1>1, ItemType DEF do, Todo
<1>4. Fits(ast, do("type_binary_op", this))
  BY <1>1, <1>2 DEF Fits, do, at
<1>5. visits(at(this).operands) \o << do("type_binary_op", this) >> \in Seq(ItemAt(ast, Len(frames)))
  <2>1. do("type_binary_op", this).node = this
    BY DEF do
  <2> QED BY <1>1, <1>2, <1>3, <1>4, <2>1, InnerTodo
<1>6. ResolvedInv'
  BY <1>1, SameResolved DEF KeepScope
<1> QED BY <1>1, <1>5, <1>6, ItemsStep

LEMMA unary_opStep ==
  ASSUME IInv, validate_unary_op
  PROVE  IInv'
<1>1. /\ Now("visit") /\ at(this).kind = "UnaryOp" /\ KeepScope /\ UNCHANGED << errors, result_type, resolved >>
      /\ Then(visits(at(this).operands) \o << do("type_unary_op", this) >>)
  BY DEF validate_unary_op, Visiting
<1>2. at(this).kind \notin TopLevel
  BY <1>1 DEF TopLevel
<1>3. do("type_unary_op", this) \in Item
  BY <1>1, ItemType DEF do, Todo
<1>4. Fits(ast, do("type_unary_op", this))
  BY <1>1, <1>2 DEF Fits, do, at
<1>5. visits(at(this).operands) \o << do("type_unary_op", this) >> \in Seq(ItemAt(ast, Len(frames)))
  <2>1. do("type_unary_op", this).node = this
    BY DEF do
  <2> QED BY <1>1, <1>2, <1>3, <1>4, <2>1, InnerTodo
<1>6. ResolvedInv'
  BY <1>1, SameResolved DEF KeepScope
<1> QED BY <1>1, <1>5, <1>6, ItemsStep

LEMMA function_returnStep ==
  ASSUME IInv, validate_function_return
  PROVE  IInv'
<1>1. /\ Now("visit") /\ at(this).kind = "FunctionReturn" /\ KeepScope /\ UNCHANGED << errors, result_type, resolved >>
      /\ Then(visits(at(this).operands) \o << do("check_return", this) >>)
  BY DEF validate_function_return, Visiting
<1>2. at(this).kind \notin TopLevel
  BY <1>1 DEF TopLevel
<1>3. do("check_return", this) \in Item
  BY <1>1, ItemType DEF do, Todo
<1>4. Fits(ast, do("check_return", this))
  BY <1>1, <1>2 DEF Fits, do, at
<1>5. visits(at(this).operands) \o << do("check_return", this) >> \in Seq(ItemAt(ast, Len(frames)))
  <2>1. do("check_return", this).node = this
    BY DEF do
  <2> QED BY <1>1, <1>2, <1>3, <1>4, <2>1, InnerTodo
<1>6. ResolvedInv'
  BY <1>1, SameResolved DEF KeepScope
<1> QED BY <1>1, <1>5, <1>6, ItemsStep

LEMMA ifStep ==
  ASSUME IInv, validate_if
  PROVE  IInv'
<1>1. /\ Now("visit") /\ at(this).kind = "If" /\ KeepScope /\ UNCHANGED << errors, result_type, resolved >>
      /\ Then(visits(at(this).operands) \o << do("check_condition", this) >>)
  BY DEF validate_if, Visiting
<1>2. at(this).kind \notin TopLevel
  BY <1>1 DEF TopLevel
<1>3. do("check_condition", this) \in Item
  BY <1>1, ItemType DEF do, Todo
<1>4. Fits(ast, do("check_condition", this))
  BY <1>1, <1>2 DEF Fits, do, at
<1>5. visits(at(this).operands) \o << do("check_condition", this) >> \in Seq(ItemAt(ast, Len(frames)))
  <2>1. do("check_condition", this).node = this
    BY DEF do
  <2> QED BY <1>1, <1>2, <1>3, <1>4, <2>1, InnerTodo
<1>6. ResolvedInv'
  BY <1>1, SameResolved DEF KeepScope
<1> QED BY <1>1, <1>5, <1>6, ItemsStep

LEMMA register_functionStep ==
  ASSUME IInv, register_function
  PROVE  IInv'
<1>1. Now("register") /\ Running /\ Current.todo # << >>
  BY DEF register_function, Now
<1>2. at(this).name \in Name
  <2>1. IsAst(ast) /\ this \in DOMAIN ast.nodes
    BY <1>1, HeadFacts DEF IInv
  <2>2. Len(frames) = 1
    BY <1>1, HeadFacts DEF Now, Fits
  <2>3. at(this).kind \in TopLevel
    BY <1>1, <2>2, HeadFacts
  <2> QED BY <2>1, <2>3, AstFacts, Kinds
<1>3. CASE insert_or_fail(this, "already defined")
  BY <1>1, <1>2, <1>3, DeclareStep DEF Message
<1>4. CASE Then(<< >>) /\ UNCHANGED << errors, result_type, resolved >> /\ KeepScope
  <2>1. ResolvedInv'
    BY <1>4, SameResolved DEF KeepScope
  <2>2. << >> \in Seq(ItemAt(ast, Len(frames)))
    OBVIOUS
  <2> QED BY <1>1, <1>4, <2>1, <2>2, ItemsStep
<1> QED BY <1>3, <1>4 DEF register_function

\* The three visitors that declare their node, and the declaration of a
\* variable after its value.
LEMMA DeclareSteps ==
  ASSUME IInv,
         validate_constant_declaration \/ validate_argument \/ declare_variable
  PROVE  IInv'
<1>1. /\ Running /\ Current.todo # << >>
      /\ insert_or_fail(this, "already defined")
  BY DEF validate_constant_declaration, validate_argument, declare_variable, Visiting, Now
<1>2. at(this).kind \in Named
  <2>1. CASE validate_constant_declaration \/ validate_argument
    BY <2>1 DEF validate_constant_declaration, validate_argument, Visiting, Named, Declaration
  <2>2. CASE declare_variable
    <3>1. Now("declare_variable")
      BY <2>2 DEF declare_variable
    <3>2. Fits(ast, Head(Current.todo)) /\ Head(Current.todo).do = "declare_variable"
      BY <3>1, InnerHead DEF Now
    <3> QED BY <3>2 DEF Fits, at, this, Named, Declaration
  <2> QED BY <2>1, <2>2
<1>3. at(this).name \in Name
  BY <1>1, <1>2, HeadFacts, AstFacts DEF IInv
<1> QED BY <1>1, <1>3, DeclareStep DEF Message

LEMMA validate_literalStep ==
  ASSUME IInv, validate_literal
  PROVE  IInv'
<1>1. Now("visit") /\ KeepScope /\ UNCHANGED << errors, result_type, resolved >> /\ Then(<< >>)
  BY DEF validate_literal
<1>2. ResolvedInv' /\ << >> \in Seq(ItemAt(ast, Len(frames)))
  BY <1>1, SameResolved DEF KeepScope
<1> QED BY <1>1, <1>2, ItemsStep

LEMMA validate_call_argumentStep ==
  ASSUME IInv, validate_call_argument
  PROVE  IInv'
<1> DEFINE check == [do |-> "check_argument", node |-> this, entry |-> held_entry]
<1>1. /\ Now("argument") /\ KeepScope /\ UNCHANGED << errors, result_type, resolved >>
      /\ Then(<< do("visit", this), check >>)
  BY DEF validate_call_argument
<1>2. /\ ItemAt(ast, Len(frames)) = InnerItem(ast)
      /\ Fits(ast, Head(Current.todo))
      /\ Head(Current.todo).do = "argument"
      /\ this \in DOMAIN ast.nodes
  BY <1>1, InnerHead, HeadFacts DEF Now
<1>3. held_entry \in DOMAIN ast.nodes /\ at(this).kind \notin TopLevel
  BY <1>2 DEF Fits, held_entry, at, this
<1>4. do("visit", this) \in Item /\ check \in Item
  BY <1>1, <1>3, ItemType DEF do, Todo
<1>5. do("visit", this) \in InnerItem(ast) /\ check \in InnerItem(ast)
  BY <1>2, <1>3, <1>4 DEF InnerItem, Fits, do, at
<1>6. << do("visit", this), check >> \in Seq(ItemAt(ast, Len(frames)))
  BY <1>2, <1>5
<1>7. ResolvedInv'
  BY <1>1, SameResolved DEF KeepScope
<1> HIDE DEF check
<1> QED BY <1>1, <1>6, <1>7, ItemsStep

\* A visitor of a name looks it up and remembers what it found.
LEMMA LooksUp ==
  ASSUME IInv, NEW kind \in {"VariableAssignment", "VariableLookup", "FunctionCall"}, Visiting(kind)
  PROVE  /\ this \in DOMAIN ast.nodes
         /\ Table!lookup(at(this).name) \in {NoNode} \cup DOMAIN ast.nodes
         /\ at(this).kind \notin TopLevel
<1>1. this \in DOMAIN ast.nodes /\ at(this).kind = kind
  BY HeadFacts DEF Visiting, Now
<1>2. at(this).name \in Name
  BY <1>1, AstFacts DEF IInv, Named
<1> QED BY <1>1, <1>2, LookupInTree DEF TopLevel

LEMMA validate_variable_assignmentStep ==
  ASSUME IInv, validate_variable_assignment
  PROVE  IInv'
<1> DEFINE found == Table!lookup(at(this).name)
           check == [do |-> "check_assignment", node |-> this, entry |-> found]
<1>1. /\ Now("visit") /\ at(this).kind = "VariableAssignment" /\ KeepScope
      /\ resolved' = [resolved EXCEPT ![this] = found]
      /\ \/ found = NoNode /\ Fail("not found")
         \/ /\ found # NoNode /\ Then(visits(at(this).operands) \o << check >>)
            /\ UNCHANGED << errors, result_type >>
  BY DEF validate_variable_assignment, Visiting
<1>2. /\ this \in DOMAIN ast.nodes
      /\ found \in {NoNode} \cup DOMAIN ast.nodes
      /\ at(this).kind \notin TopLevel
  BY LooksUp DEF validate_variable_assignment
<1>3. check \in Item
  BY <1>1, <1>2, ItemType DEF Todo
<1> HIDE DEF found
<1>4. ResolvedInv'
  BY <1>1, <1>2, NewResolved DEF KeepScope
<1>5. CASE found = NoNode /\ Fail("not found")
  BY <1>1, <1>4, <1>5, FailStep DEF Message
<1>6. CASE /\ found # NoNode /\ Then(visits(at(this).operands) \o << check >>)
           /\ UNCHANGED << errors, result_type >>
  <2>1. Fits(ast, check)
    BY <1>1, <1>2, <1>6 DEF Fits, at
  <2>2. visits(at(this).operands) \o << check >> \in Seq(ItemAt(ast, Len(frames)))
    BY <1>1, <1>2, <1>3, <2>1, InnerTodo
  <2> HIDE DEF check
  <2> QED BY <1>1, <1>4, <1>6, <2>2, ItemsStep
<1> QED BY <1>1, <1>5, <1>6

LEMMA EntryType ==
  ASSUME IInv, NEW entry \in DOMAIN ast.nodes
  PROVE  entry_type(entry) \in ResultType
<1>1. IsAst(ast) /\ at(entry) \in AstNode
  BY AstFacts DEF IInv
<1>2. CASE at(entry).kind # "ConstantDeclaration"
  BY <1>1, <1>2 DEF entry_type, AstNode
<1>3. CASE at(entry).kind = "ConstantDeclaration"
  <2>1. 1 \in DOMAIN at(entry).operands
    <3>1. Len(at(entry).operands) = 1
      BY <1>1, <1>3, AstFacts DEF Operands
    <3>2. at(entry).operands \in Seq(Nat)
      BY <1>1 DEF AstNode
    <3> QED BY <3>1, <3>2
  <2>2. at(entry).operands[1] \in DOMAIN ast.nodes
    BY <1>1, <2>1, AstFacts
  <2>3. at(at(entry).operands[1]) \in AstNode
    BY <1>1, <2>2, AstFacts
  <2> QED BY <1>3, <2>3, InitialTypes DEF entry_type
<1> QED BY <1>2, <1>3

LEMMA validate_variable_lookupStep ==
  ASSUME IInv, validate_variable_lookup
  PROVE  IInv'
<1> DEFINE found == Table!lookup(at(this).name)
<1>1. /\ Now("visit") /\ at(this).kind = "VariableLookup" /\ KeepScope
      /\ resolved' = [resolved EXCEPT ![this] = found]
      /\ \/ found = NoNode /\ Fail("not found")
         \/ found # NoNode /\ Fail("incompatible element found")
         \/ /\ found # NoNode
            /\ result_type' = [result_type EXCEPT ![this] = entry_type(found)]
            /\ Then(<< >>) /\ UNCHANGED errors
  BY DEF validate_variable_lookup, Visiting
<1>2. this \in DOMAIN ast.nodes /\ found \in {NoNode} \cup DOMAIN ast.nodes
  BY LooksUp DEF validate_variable_lookup
<1> HIDE DEF found
<1>3. ResolvedInv' /\ ast' = ast
  BY <1>1, <1>2, NewResolved DEF KeepScope
<1>4. CASE Fail("not found") \/ Fail("incompatible element found")
  BY <1>1, <1>3, <1>4, FailStep DEF Message
<1>5. CASE /\ found # NoNode
           /\ result_type' = [result_type EXCEPT ![this] = entry_type(found)]
           /\ Then(<< >>) /\ UNCHANGED errors
  <2>1. entry_type(found) \in ResultType
    BY <1>2, <1>5, EntryType
  <2>2. TypesInv'
    BY <1>2, <1>3, <1>5, <2>1 DEF IInv, TypesInv
  <2> QED BY <1>1, <1>3, <1>5, <2>2, TypeStep
<1> QED BY <1>1, <1>4, <1>5

LEMMA validate_function_callStep ==
  ASSUME IInv, validate_function_call
  PROVE  IInv'
<1> DEFINE found == Table!lookup(at(this).name)
           args == at(this).operands
           params == at(found).params
           items == [i \in DOMAIN args |-> [do |-> "argument", node |-> args[i], entry |-> params[i]]]
<1>1. /\ Now("visit") /\ at(this).kind = "FunctionCall" /\ KeepScope
      /\ resolved' = [resolved EXCEPT ![this] = found]
      /\ \/ found = NoNode /\ Fail("not found")
         \/ found # NoNode /\ Fail("is not a function")
         \/ /\ found # NoNode
            /\ result_type' = [result_type EXCEPT ![this] = at(found).type]
            /\ \/ /\ Len(args) # Len(params)
                  /\ add_error(this, "wrong argument count") /\ Then(<< >>)
               \/ /\ Len(args) = Len(params)
                  /\ Then(items) /\ UNCHANGED errors
  BY DEF validate_function_call, Visiting
<1>2. /\ this \in DOMAIN ast.nodes /\ found \in {NoNode} \cup DOMAIN ast.nodes
      /\ at(this).kind \notin TopLevel
  BY LooksUp DEF validate_function_call
<1> HIDE DEF found
<1>3. ResolvedInv' /\ ast' = ast /\ Running /\ Current.todo # << >>
  BY <1>1, <1>2, NewResolved DEF KeepScope, Now
<1>4. CASE Fail("not found") \/ Fail("is not a function")
  BY <1>1, <1>3, <1>4, FailStep DEF Message
<1>5. CASE /\ found # NoNode
           /\ result_type' = [result_type EXCEPT ![this] = at(found).type]
           /\ \/ /\ Len(args) # Len(params)
                 /\ add_error(this, "wrong argument count") /\ Then(<< >>)
              \/ /\ Len(args) = Len(params)
                 /\ Then(items) /\ UNCHANGED errors
  <2>1. IsAst(ast) /\ found \in DOMAIN ast.nodes
    BY <1>2, <1>5 DEF IInv
  <2>2. at(found).type \in ResultType /\ params \in Seq(Nat) /\ args \in Seq(Nat)
    BY <1>2, <2>1, AstFacts DEF AstNode
  <2>3. TypesInv'
    BY <1>2, <1>3, <1>5, <2>2 DEF IInv, TypesInv
  <2>4. CASE add_error(this, "wrong argument count") /\ Then(<< >>)
    <3>1. ErrorsInv'
      BY <1>2, <1>3, <2>4, AddError DEF Message
    <3>2. << >> \in Seq(ItemAt(ast, Len(frames)))
      OBVIOUS
    <3> QED BY <1>1, <1>3, <2>3, <2>4, <3>1, <3>2, QuietStep
  <2>5. CASE Len(args) = Len(params) /\ Then(items) /\ UNCHANGED errors
    <3>1. ErrorsInv'
      BY <1>3, <2>5 DEF IInv, ErrorsInv
    <3>2. ASSUME NEW i \in DOMAIN args
          PROVE  items[i] \in InnerItem(ast)
      <4>1. args[i] \in DOMAIN ast.nodes /\ at(args[i]).kind \in Expression
        BY <1>2, <2>1, <3>2, AstFacts
      <4>2. i \in DOMAIN params
        BY <2>2, <2>5, <3>2
      <4>3. params[i] \in DOMAIN ast.nodes
        BY <2>1, <4>2, AstFacts
      <4>4. DOMAIN ast.nodes \subseteq Nat
        BY <2>1, AstFacts
      <4> HIDE DEF args, params
      <4>5. items[i] = [do |-> "argument", node |-> args[i], entry |-> params[i]]
        OBVIOUS
      <4>6. at(args[i]).kind \notin TopLevel
        BY <4>1, Kinds
      <4> QED BY <4>1, <4>3, <4>4, <4>5, <4>6 DEF InnerItem, Item, Todo, Fits, at
    <3>3. items \in Seq(InnerItem(ast))
      <4>1. DOMAIN items = 1 .. Len(args) /\ Len(args) \in Nat
        BY <2>2
      <4>2. items = [i \in 1 .. Len(args) |-> items[i]]
        BY <2>2
      <4>3. DOMAIN args = 1 .. Len(args)
        BY <2>2
      <4> HIDE DEF items, args, params
      <4>4. \A i \in 1 .. Len(args) : items[i] \in InnerItem(ast)
        BY <3>2, <4>3
      <4> QED BY <4>1, <4>2, <4>4
    <3>4. ItemAt(ast, Len(frames)) = InnerItem(ast)
      BY <1>1, <1>2, InnerHead
    <3> HIDE DEF items
    <3> QED BY <1>1, <1>3, <2>3, <2>5, <3>1, <3>3, <3>4, QuietStep
  <2> QED BY <1>5, <2>4, <2>5
<1> QED BY <1>1, <1>4, <1>5

\* What an operator of the tree is applied to.
LEMMA OperandOf ==
  ASSUME IInv, NEW n \in DOMAIN ast.nodes
  PROVE  /\ at(n).kind = "BinaryOp"
              => at(n).operands[1] \in DOMAIN ast.nodes /\ at(n).operands[2] \in DOMAIN ast.nodes
         /\ at(n).kind \in {"UnaryOp", "VariableAssignment", "If"}
              => at(n).operands[1] \in DOMAIN ast.nodes
         /\ has_value(at(n)) => at(n).operands[1] \in DOMAIN ast.nodes
<1>1. /\ IsAst(ast) /\ at(n).operands \in Seq(Nat)
      /\ Len(at(n).operands) \in Operands(at(n).kind)
  BY AstFacts DEF IInv, AstNode
<1>2. at(n).kind = "BinaryOp" => 1 \in DOMAIN at(n).operands /\ 2 \in DOMAIN at(n).operands
  BY <1>1 DEF Operands
<1>3. at(n).kind \in {"UnaryOp", "VariableAssignment", "If"} => 1 \in DOMAIN at(n).operands
  BY <1>1 DEF Operands
<1>4. has_value(at(n)) => 1 \in DOMAIN at(n).operands
  BY <1>1 DEF has_value
<1> QED BY <1>1, <1>2, <1>3, <1>4, AstFacts

\* An item of an inner frame is of the kind it was left for.
LEMMA HeadFits ==
  ASSUME IInv, NEW what \in Todo \ {"register", "visit"}, Now(what)
  PROVE  /\ Fits(ast, Head(Current.todo))
         /\ Head(Current.todo).do = what
         /\ this \in DOMAIN ast.nodes
         /\ what = "type_binary_op" => at(this).kind = "BinaryOp"
         /\ what = "type_unary_op" => at(this).kind = "UnaryOp"
         /\ what = "check_assignment" => at(this).kind = "VariableAssignment"
         /\ what \in {"check_condition", "else_block"} => at(this).kind = "If"
         /\ what \in {"check_assignment", "check_argument"} => held_entry \in DOMAIN ast.nodes
<1>1. /\ Fits(ast, Head(Current.todo)) /\ Head(Current.todo).do = what
      /\ this \in DOMAIN ast.nodes
  BY InnerHead, HeadFacts DEF Now
<1> QED BY <1>1 DEF Fits, at, this, held_entry

\* It may give a constant its type, or report its node.
LEMMA AssignStep ==
  ASSUME IInv, NEW what, Now(what), KeepScope, UNCHANGED resolved,
         NEW n \in DOMAIN ast.nodes, NEW type \in ResultType, NEW message \in Message,
         Assign(n, type, message)
  PROVE  IInv'
<1>1. Running /\ Current.todo # << >> /\ ast' = ast /\ this \in DOMAIN ast.nodes
  BY HeadFacts DEF Now, KeepScope
<1>2. TypesInv' /\ ErrorsInv'
  BY <1>1, AssignTypes
<1>3. Then(<< >>) /\ << >> \in Seq(ItemAt(ast, Len(frames)))
  BY DEF Assign
<1>4. ResolvedInv'
  BY <1>1, SameResolved
<1> QED BY <1>1, <1>2, <1>3, <1>4, QuietStep

LEMMA check_assignmentStep ==
  ASSUME IInv, check_assignment
  PROVE  IInv'
<1>1. Now("check_assignment") /\ UNCHANGED resolved /\ KeepScope
  BY DEF check_assignment
<1>2. /\ this \in DOMAIN ast.nodes /\ held_entry \in DOMAIN ast.nodes
      /\ at(this).kind = "VariableAssignment"
  BY <1>1, HeadFits DEF Todo
<1>3. at(this).operands[1] \in DOMAIN ast.nodes /\ at(held_entry).type \in ResultType
  BY <1>2, OperandOf, AstFacts DEF IInv, AstNode
<1>4. CASE Assign(at(this).operands[1], at(held_entry).type, "type mismatch")
  BY <1>1, <1>3, <1>4, AssignStep DEF Message
<1>5. CASE Then(<< >>) /\ UNCHANGED << errors, result_type >>
  <2>1. ResolvedInv' /\ << >> \in Seq(ItemAt(ast, Len(frames)))
    BY <1>1, SameResolved DEF KeepScope
  <2> QED BY <1>1, <1>5, <2>1, ItemsStep
<1> QED BY <1>4, <1>5 DEF check_assignment

LEMMA check_argumentStep ==
  ASSUME IInv, check_argument
  PROVE  IInv'
<1>1. /\ Now("check_argument") /\ UNCHANGED resolved /\ KeepScope
      /\ Assign(this, at(held_entry).type, "type mismatch")
  BY DEF check_argument
<1>2. this \in DOMAIN ast.nodes /\ held_entry \in DOMAIN ast.nodes
  BY <1>1, HeadFits DEF Todo
<1>3. at(held_entry).type \in ResultType
  BY <1>2, AstFacts DEF IInv, AstNode
<1> QED BY <1>1, <1>2, <1>3, AssignStep DEF Message

LEMMA check_returnStep ==
  ASSUME IInv, check_return
  PROVE  IInv'
<1>1. Now("check_return") /\ UNCHANGED resolved /\ KeepScope
  BY DEF check_return
<1>2. ResolvedInv' /\ this \in DOMAIN ast.nodes
  BY <1>1, SameResolved, HeadFits DEF KeepScope, Todo
<1>3. CASE \E message \in Message : Fail(message)
  BY <1>1, <1>2, <1>3, FailStep
<1>4. CASE /\ has_value(at(this)) /\ current_function_ # NoNode
           /\ Assign(at(this).operands[1], at(current_function_).type, "return type mismatch")
  <2>1. current_function_ \in DOMAIN ast.nodes
    BY <1>4 DEF IInv, FunctionInv
  <2>2. at(this).operands[1] \in DOMAIN ast.nodes /\ at(current_function_).type \in ResultType
    BY <1>2, <1>4, <2>1, OperandOf, AstFacts DEF IInv, AstNode
  <2> QED BY <1>1, <1>4, <2>2, AssignStep DEF Message
<1>5. CASE Then(<< >>) /\ UNCHANGED << errors, result_type >>
  <2>1. << >> \in Seq(ItemAt(ast, Len(frames)))
    OBVIOUS
  <2> QED BY <1>1, <1>2, <1>5, <2>1, ItemsStep
<1> QED BY <1>3, <1>4, <1>5 DEF check_return, Message

LEMMA type_binary_opStep ==
  ASSUME IInv, type_binary_op
  PROVE  IInv'
<1> DEFINE l == at(this).operands[1]
           r == at(this).operands[2]
           left == result_type[l]
           right == result_type[r]
           result == binary_result(at(this).op, left, right)
           asked == operand_types(at(this).op, left, right, result)
           typed == [result_type EXCEPT ![this] = result]
<1>1. /\ Now("type_binary_op") /\ UNCHANGED resolved /\ KeepScope
      /\ \/ Fail("invalid operand types") \/ Fail("incompatible types")
         \/ /\ NoType \notin {left, right}
            /\ result_type' = set_type_on_const(set_type_on_const(typed, l, asked[1]), r, asked[2])
            /\ Then(<< >>) /\ UNCHANGED errors
  BY DEF type_binary_op
<1>2. this \in DOMAIN ast.nodes /\ at(this).kind = "BinaryOp"
  BY <1>1, HeadFits DEF Todo
<1>3. ResolvedInv' /\ ast' = ast
  BY <1>1, SameResolved DEF KeepScope
<1>4. CASE Fail("invalid operand types") \/ Fail("incompatible types")
  BY <1>1, <1>3, <1>4, FailStep DEF Message
<1>5. CASE /\ NoType \notin {left, right}
           /\ result_type' = set_type_on_const(set_type_on_const(typed, l, asked[1]), r, asked[2])
           /\ Then(<< >>) /\ UNCHANGED errors
  <2>1. l \in DOMAIN ast.nodes /\ r \in DOMAIN ast.nodes
    BY <1>2, OperandOf
  <2>2. result_type \in [DOMAIN ast.nodes -> ResultType]
    BY DEF IInv, TypesInv
  <2>3. left \in ResultType /\ right \in ResultType
    BY <2>1, <2>2
  <2> HIDE DEF l, r, left, right
  <2>4. result \in ResultType /\ asked[1] \in ResultType /\ asked[2] \in ResultType
    <3>1. result \in ResultType /\ asked \in Seq(ResultType) /\ Len(asked) = 2
      BY <1>5, <2>3, TypeRules
    <3> QED BY <3>1
  <2> HIDE DEF result, asked
  <2>5. typed \in [DOMAIN ast.nodes -> ResultType]
    BY <2>2, <2>4
  <2> HIDE DEF typed
  <2>6. set_type_on_const(typed, l, asked[1]) \in [DOMAIN ast.nodes -> ResultType]
    BY <2>1, <2>4, <2>5, SetConst
  <2>7. result_type' \in [DOMAIN ast.nodes -> ResultType]
    BY <1>5, <2>1, <2>4, <2>6, SetConst
  <2> QED BY <1>1, <1>3, <1>5, <2>7, TypeStep DEF TypesInv
<1> QED BY <1>1, <1>4, <1>5

LEMMA type_unary_opStep ==
  ASSUME IInv, type_unary_op
  PROVE  IInv'
<1> DEFINE type == result_type[at(this).operands[1]]
<1>1. /\ Now("type_unary_op") /\ UNCHANGED resolved /\ KeepScope
      /\ \/ Fail("invalid operand types") \/ Fail("incompatible types")
         \/ /\ result_type' = [result_type EXCEPT ![this] = type]
            /\ Then(<< >>) /\ UNCHANGED errors
  BY DEF type_unary_op
<1>2. this \in DOMAIN ast.nodes /\ at(this).kind = "UnaryOp"
  BY <1>1, HeadFits DEF Todo
<1>3. ResolvedInv' /\ ast' = ast
  BY <1>1, SameResolved DEF KeepScope
<1>4. CASE Fail("invalid operand types") \/ Fail("incompatible types")
  BY <1>1, <1>3, <1>4, FailStep DEF Message
<1>5. CASE /\ result_type' = [result_type EXCEPT ![this] = type]
           /\ Then(<< >>) /\ UNCHANGED errors
  <2>1. result_type \in [DOMAIN ast.nodes -> ResultType] /\ type \in ResultType
    BY <1>2, OperandOf DEF IInv, TypesInv
  <2> HIDE DEF type
  <2>2. TypesInv'
    BY <1>2, <1>3, <1>5, <2>1 DEF TypesInv
  <2> QED BY <1>1, <1>3, <1>5, <2>2, TypeStep
<1> QED BY <1>1, <1>4, <1>5

LEMMA SeqOf ==
  ASSUME NEW S, NEW list \in Seq(Nat), \A i \in DOMAIN list : list[i] \in S
  PROVE  list \in Seq(S)
OBVIOUS

\* A list of statements, which a new frame may be given.
LEMMA StatementVisits ==
  ASSUME IInv, NEW n \in DOMAIN ast.nodes
  PROVE  /\ visits(at(n).params \o at(n).body) \in Seq(InnerItem(ast))
         /\ visits(at(n).body) \in Seq(InnerItem(ast))
         /\ visits(at(n).orelse) \in Seq(InnerItem(ast))
<1>1. /\ IsAst(ast) /\ DOMAIN ast.nodes \subseteq Nat
      /\ at(n).params \in Seq(Nat) /\ at(n).body \in Seq(Nat) /\ at(n).orelse \in Seq(Nat)
  BY AstFacts DEF IInv, AstNode
<1>2. /\ \A i \in DOMAIN at(n).params :
           at(n).params[i] \in DOMAIN ast.nodes /\ at(at(n).params[i]).kind \notin TopLevel
      /\ \A i \in DOMAIN at(n).body :
           at(n).body[i] \in DOMAIN ast.nodes /\ at(at(n).body[i]).kind \notin TopLevel
      /\ \A i \in DOMAIN at(n).orelse :
           at(n).orelse[i] \in DOMAIN ast.nodes /\ at(at(n).orelse[i]).kind \notin TopLevel
  BY <1>1, AstFacts, Kinds
<1> DEFINE Inner == {m \in DOMAIN ast.nodes : at(m).kind \notin TopLevel}
<1>3. at(n).params \in Seq(Inner) /\ at(n).body \in Seq(Inner) /\ at(n).orelse \in Seq(Inner)
  <2>1. /\ \A i \in DOMAIN at(n).params : at(n).params[i] \in Inner
        /\ \A i \in DOMAIN at(n).body : at(n).body[i] \in Inner
        /\ \A i \in DOMAIN at(n).orelse : at(n).orelse[i] \in Inner
    BY <1>2
  <2> HIDE DEF Inner
  <2> QED BY <1>1, <2>1, SeqOf
<1>4. \A list \in Seq(Inner) :
         list \in Seq(DOMAIN ast.nodes) /\ \A i \in DOMAIN list : at(list[i]).kind \notin TopLevel
  OBVIOUS
<1>5. at(n).params \o at(n).body \in Seq(Inner)
  BY <1>3
<1> HIDE DEF Inner
<1> QED BY <1>1, <1>3, <1>4, <1>5, VisitsAreInner

LEMMA validate_function_declarationStep ==
  ASSUME IInv, validate_function_declaration
  PROVE  IInv'
<1>1. /\ Now("visit") /\ at(this).kind = "FunctionDeclaration" /\ Table!create_stack_frame
      /\ current_function_' = this /\ Enter(at(this).params \o at(this).body, << >>)
      /\ UNCHANGED << ast, history, errors, result_type, resolved >>
  BY DEF validate_function_declaration, Visiting
<1>2. Running /\ Current.todo # << >>
  BY <1>1 DEF Now
<1>3. this \in DOMAIN ast.nodes /\ Len(frames) = 1
  <2>1. at(this).kind \in TopLevel
    BY <1>1 DEF TopLevel
  <2> QED BY <1>2, <2>1, HeadFacts DEF Fits, at, this
<1>4. visits(at(this).params \o at(this).body) \in Seq(InnerItem(ast))
  BY <1>3, StatementVisits
<1>5. this \in OwnerAt(ast, Len(frames) + 1)
  BY <1>1, <1>3 DEF OwnerAt, at
<1>6. ErrorsInv' /\ << >> \in Seq(ItemAt(ast, Len(frames)))
  BY <1>1 DEF IInv, ErrorsInv
<1> QED BY <1>1, <1>2, <1>3, <1>4, <1>5, <1>6, EnterStep

\* An if's lists open their frames in a function.
LEMMA IfOpens ==
  ASSUME IInv, NEW what \in {"check_condition", "else_block"}, Now(what)
  PROVE  /\ this \in DOMAIN ast.nodes
         /\ at(this).kind = "If"
         /\ Len(frames) # 1
         /\ ItemAt(ast, Len(frames)) = InnerItem(ast)
         /\ this \in OwnerAt(ast, Len(frames) + 1)
<1>1. this \in DOMAIN ast.nodes /\ at(this).kind = "If"
  BY HeadFits DEF Todo
<1>2. Len(frames) # 1 /\ ItemAt(ast, Len(frames)) = InnerItem(ast)
  BY InnerHead
<1>3. Len(frames) \in Nat \ {0}
  BY HeadFacts DEF Now
<1>4. Len(frames) + 1 # 1 /\ Len(frames) + 1 # 2
  <2>1. \A k \in Nat \ {0} : k # 1 => k + 1 # 1 /\ k + 1 # 2
    OBVIOUS
  <2> QED BY <1>2, <1>3, <2>1
<1> QED BY <1>1, <1>2, <1>4 DEF OwnerAt, at

LEMMA check_conditionStep ==
  ASSUME IInv, check_condition
  PROVE  IInv'
<1> DEFINE condition == at(this).operands[1]
           items == IF has_else(at(this)) THEN << do("else_block", this) >> ELSE << >>
<1>1. /\ Now("check_condition") /\ Table!create_stack_frame
      /\ Enter(at(this).body, items)
      /\ UNCHANGED << ast, history, current_function_, result_type, resolved >>
      /\ UNCHANGED errors \/ add_error(condition, "condition should return bool")
  BY DEF check_condition
<1>2. Running /\ Current.todo # << >>
  BY <1>1 DEF Now
<1>3. /\ this \in DOMAIN ast.nodes /\ at(this).kind = "If" /\ Len(frames) # 1
      /\ ItemAt(ast, Len(frames)) = InnerItem(ast)
      /\ this \in OwnerAt(ast, Len(frames) + 1)
  BY <1>1, IfOpens
<1>4. items \in Seq(ItemAt(ast, Len(frames)))
  <2>1. do("else_block", this) \in Item
    BY <1>1, ItemType DEF do, Todo
  <2>2. Fits(ast, do("else_block", this))
    BY <1>3 DEF Fits, do, at, TopLevel
  <2>3. do("else_block", this) \in InnerItem(ast)
    BY <1>3, <2>1, <2>2 DEF InnerItem, do
  <2> QED BY <1>3, <2>3
<1>5. ErrorsInv'
  <2>1. condition \in DOMAIN ast.nodes
    BY <1>3, OperandOf
  <2> HIDE DEF condition
  <2>2. CASE add_error(condition, "condition should return bool")
    BY <1>1, <2>1, <2>2, AddError DEF Message
  <2>3. CASE UNCHANGED errors
    BY <1>1, <2>3 DEF IInv, ErrorsInv
  <2> QED BY <1>1, <2>2, <2>3
<1>6. visits(at(this).body) \in Seq(InnerItem(ast))
  BY <1>3, StatementVisits
<1> HIDE DEF items
<1> QED BY <1>1, <1>2, <1>3, <1>4, <1>5, <1>6, EnterStep

LEMMA validate_else_blockStep ==
  ASSUME IInv, validate_else_block
  PROVE  IInv'
<1>1. /\ Now("else_block") /\ Table!create_stack_frame /\ Enter(at(this).orelse, << >>)
      /\ UNCHANGED << ast, history, current_function_, errors, result_type, resolved >>
  BY DEF validate_else_block
<1>2. Running /\ Current.todo # << >>
  BY <1>1 DEF Now
<1>3. /\ this \in DOMAIN ast.nodes /\ Len(frames) # 1
      /\ this \in OwnerAt(ast, Len(frames) + 1)
  BY <1>1, IfOpens
<1>4. visits(at(this).orelse) \in Seq(InnerItem(ast))
  BY <1>3, StatementVisits
<1>5. ErrorsInv' /\ << >> \in Seq(ItemAt(ast, Len(frames)))
  BY <1>1 DEF IInv, ErrorsInv
<1> QED BY <1>1, <1>2, <1>3, <1>4, <1>5, EnterStep

LEMMA release_stack_frameStep ==
  ASSUME IInv, release_stack_frame
  PROVE  IInv'
<1> DEFINE L == Len(frames)
<1>1. /\ L > 1 /\ Table!release_stack_frame
      /\ frames' = SubSeq(frames, 1, L - 1)
      /\ current_function_' = IF is_function(at(frames[L].owner)) THEN NoNode ELSE current_function_
      /\ UNCHANGED << ast, history, errors, result_type, resolved >>
  BY DEF release_stack_frame, Current
<1>2. /\ frames \in Seq(Frame) /\ L \in Nat /\ DOMAIN frames = 1 .. L
      /\ \A k \in DOMAIN frames : /\ frames[k].owner \in OwnerAt(ast, k)
                                  /\ frames[k].todo \in Seq(ItemAt(ast, k))
  BY DEF IInv, FramesInv
<1>3. Running /\ Len(scopes) = L /\ current_function_ = frames[2].owner
  <2>1. Running
    BY <1>1, <1>2 DEF Running
  <2> QED BY <1>1, <2>1 DEF IInv, FramesOwnScopes
<1>4. ScopesInv' /\ Len(scopes') = L - 1
  BY <1>1, <1>3, ReleaseScopes
<1>5. /\ frames' \in Seq(Frame) /\ Len(frames') = L - 1 /\ DOMAIN frames' = 1 .. L - 1
      /\ \A k \in 1 .. L - 1 : frames'[k] = frames[k]
  BY <1>1, <1>2
<1>6. FramesInv'
  <2>1. \A k \in DOMAIN frames' : k \in DOMAIN frames /\ frames'[k] = frames[k]
    BY <1>2, <1>5
  <2>2. ast' = ast
    BY <1>1
  <2> QED BY <1>2, <1>5, <2>1, <2>2 DEF FramesInv
<1>7. FramesOwnScopes'
  <2>1. Running'
    BY <1>1, <1>2, <1>5 DEF Running
  <2>2. CASE L = 2
    <3>1. is_function(at(frames[L].owner))
      BY <1>2, <2>2 DEF OwnerAt, is_function, at
    <3> QED BY <1>1, <1>4, <1>5, <2>1, <2>2, <3>1 DEF FramesOwnScopes
  <2>3. CASE L # 2
    <3>1. L \in DOMAIN frames /\ L # 1
      BY <1>1, <1>2
    <3>2. ~ is_function(at(frames[L].owner))
      BY <1>2, <2>3, <3>1 DEF OwnerAt, is_function, at
    <3>3. L - 1 > 1 /\ 2 \in 1 .. L - 1
      BY <1>1, <1>2, <2>3
    <3>4. frames'[2] = frames[2] /\ current_function_' = frames[2].owner
      BY <1>1, <1>3, <1>5, <3>2, <3>3
    <3> QED BY <1>4, <1>5, <2>1, <3>3, <3>4 DEF FramesOwnScopes
  <2> QED BY <2>2, <2>3
<1>8. ErrorsInv' /\ HistoryInv' /\ TypesInv' /\ ResolvedInv'
  BY <1>1 DEF history, IInv, HistoryInv, TypesInv, ResolvedInv, ErrorsInv
<1>9. FunctionInv'
  BY <1>1 DEF IInv, FunctionInv
<1> QED BY <1>1, <1>4, <1>6, <1>7, <1>8, <1>9 DEF IInv

LEMMA finishStep ==
  ASSUME IInv, finish
  PROVE  IInv'
<1>1. /\ Len(frames) = 1 /\ frames' = << >>
      /\ UNCHANGED << ast, history, scopes, current_function_, errors, result_type, resolved >>
  BY DEF finish
<1>2. Running
  BY <1>1 DEF Running
<1>3. FramesInv'
  BY <1>1 DEF FramesInv
<1>4. FramesOwnScopes'
  <2>1. Len(scopes) = 1 /\ current_function_ = NoNode
    BY <1>1, <1>2 DEF IInv, FramesOwnScopes
  <2>2. ~ Running' /\ Len(frames') = 0
    BY <1>1 DEF Running
  <2>3. scopes' = scopes /\ current_function_' = current_function_
    BY <1>1
  <2> QED BY <2>1, <2>2, <2>3 DEF FramesOwnScopes
<1>5. ScopesInv'
  BY <1>1, TableStep DEF IInv, ScopesInv
<1>6. ErrorsInv' /\ HistoryInv' /\ TypesInv' /\ ResolvedInv' /\ FunctionInv'
  BY <1>1 DEF history, IInv, HistoryInv, TypesInv, ResolvedInv, ErrorsInv, FunctionInv
<1> QED BY <1>1, <1>3, <1>4, <1>5, <1>6 DEF IInv

\* The instructions are all the first frame is ever given.
LEMMA TopLevelItems ==
  ASSUME IInv
  PROVE  top_level_items \in Seq(TopItem(ast))
<1>1. /\ ast.top \in Seq({n \in 1 .. Len(ast.nodes) : ast.nodes[n].kind \in TopLevel})
      /\ DOMAIN ast.nodes = 1 .. Len(ast.nodes)
  BY DEF IInv, IsAst
<1>2. \A i \in DOMAIN ast.top :
        /\ do("register", ast.top[i]) \in TopItem(ast)
        /\ do("visit", ast.top[i]) \in TopItem(ast)
  <2> TAKE i \in DOMAIN ast.top
  <2>1. ast.top[i] \in DOMAIN ast.nodes /\ ast.nodes[ast.top[i]].kind \in TopLevel
    BY <1>1
  <2>2. ast.top[i] \in Nat
    BY <2>1, AstFacts DEF IInv
  <2> QED BY <2>1, <2>2 DEF do, TopItem, Item, Todo, NoNode
<1>3. /\ [i \in DOMAIN ast.top |-> do("register", ast.top[i])] \in Seq(TopItem(ast))
      /\ visits(ast.top) \in Seq(TopItem(ast))
  <2> DEFINE n == Len(ast.top)
  <2>1. DOMAIN ast.top = 1 .. n /\ n \in Nat
    BY <1>1
  <2> HIDE DEF n
  <2> QED BY <1>2, <2>1 DEF visits
<1> QED BY <1>3 DEF top_level_items

LEMMA validateStep ==
  ASSUME IInv, validate
  PROVE  IInv'
<1>1. /\ round < MaxRounds /\ round' = round + 1 /\ errors' = << >>
      /\ Table!reset /\ current_function_' = NoNode
      /\ frames' = << [owner |-> NoNode, todo |-> top_level_items] >>
      /\ verdict_before' = (errors = << >>) /\ types_before' = result_type
      /\ resolved' = [n \in DOMAIN ast.nodes |-> NoNode]
      /\ ast' = ast /\ result_type' = result_type
  BY DEF validate
<1>2. ScopesInv' /\ Len(scopes') = 1
  <2>1. TableProofs!Inv'
    BY <1>1, TableStep DEF IInv, ScopesInv, Table!Next
  <2>2. scopes' = << [x \in Name |-> NoNode] >>
    BY <1>1 DEF Table!reset, Table!EmptyTable
  <2>3. [x \in Name |-> NoNode] \in [Name -> {NoNode} \cup DOMAIN ast.nodes]
    OBVIOUS
  <2> QED BY <1>1, <2>1, <2>2, <2>3 DEF ScopesInv
<1>3. FramesInv'
  <2>1. top_level_items \in Seq(ItemAt(ast, 1))
    BY TopLevelItems DEF ItemAt
  <2>2. top_level_items \in Seq(Item)
    BY <2>1, ItemSetsAreItems
  <2> DEFINE first == [owner |-> NoNode, todo |-> top_level_items]
  <2>3. first \in Frame /\ first.owner = NoNode /\ first.todo = top_level_items
    BY <2>2 DEF Frame, NoNode
  <2> HIDE DEF first
  <2>4. frames' = << first >>
    BY <1>1 DEF first
  <2>5. frames' \in Seq(Frame) /\ DOMAIN frames' = {1} /\ frames'[1] = first
    BY <2>3, <2>4
  <2> QED BY <1>1, <2>1, <2>3, <2>5 DEF FramesInv, OwnerAt
<1>4. FramesOwnScopes'
  BY <1>1, <1>2 DEF FramesOwnScopes, Running
<1>5. HistoryInv'
  <2>1. round' \in 0 .. MaxRounds
    BY <1>1, MaxRoundsIsPositive DEF IInv, HistoryInv
  <2> QED BY <1>1, <2>1 DEF IInv, HistoryInv, TypesInv
<1>6. TypesInv' /\ ErrorsInv' /\ ResolvedInv' /\ FunctionInv'
  BY <1>1 DEF IInv, TypesInv, ErrorsInv, ResolvedInv, FunctionInv
<1> QED BY <1>1, <1>2, <1>3, <1>4, <1>5, <1>6 DEF IInv

-------------------------------------------------------------------------------

\* A Validator begins with an empty table, no frame and no error.
THEOREM InitInv == Init => IInv
<1> SUFFICES ASSUME Init PROVE IInv
  OBVIOUS
<1>1. IsAst(ast)
  BY ProgramsAreAsts DEF Init
<1>2. TypesInv
  <2>1. \A n \in DOMAIN ast.nodes : initial_type(at(n)) \in ResultType
    BY <1>1, AstFacts, InitialTypes
  <2> QED BY <2>1 DEF Init, TypesInv
<1>3. ScopesInv /\ Len(scopes) = 1
  <2>1. TableProofs!Inv
    BY TableAssumption, TableProofs!InitInv
       DEF Init, Table!Init, Table!EmptyTable, TableProofs!Init, TableProofs!EmptyTable
  <2>2. scopes = << [x \in Name |-> NoNode] >>
    BY DEF Init, Table!Init, Table!EmptyTable
  <2> QED BY <2>1, <2>2 DEF ScopesInv
<1>4. FramesInv /\ FramesOwnScopes
  BY <1>3 DEF Init, FramesInv, FramesOwnScopes, Running
<1>5. HistoryInv
  BY <1>2, MaxRoundsIsPositive DEF Init, HistoryInv, TypesInv
<1>6. ErrorsInv /\ ResolvedInv /\ FunctionInv
  BY DEF Init, ErrorsInv, ResolvedInv, FunctionInv
<1> QED BY <1>1, <1>2, <1>3, <1>4, <1>5, <1>6 DEF IInv

LEMMA StutterInv ==
  ASSUME IInv, UNCHANGED vars
  PROVE  IInv'
<1>1. ScopesInv'
  BY TableStep DEF IInv, ScopesInv, vars
<1>2. FramesInv' /\ FramesOwnScopes'
  BY DEF IInv, FramesInv, FramesOwnScopes, Running, vars
<1>3. /\ IsAst(ast)' /\ TypesInv' /\ ErrorsInv' /\ ResolvedInv' /\ HistoryInv' /\ FunctionInv'
  BY DEF IInv, TypesInv, ErrorsInv, ResolvedInv, HistoryInv, FunctionInv, vars
<1> QED BY <1>1, <1>2, <1>3 DEF IInv

\* Every step of a visitor keeps the types and the frames over the table.
THEOREM StepInv == IInv /\ [Next]_vars => IInv'
<1> SUFFICES ASSUME IInv, [Next]_vars PROVE IInv'
  OBVIOUS
<1>1. CASE validate                        BY <1>1, validateStep
<1>2. CASE register_function               BY <1>2, register_functionStep
<1>3. CASE validate_function_declaration   BY <1>3, validate_function_declarationStep
<1>4. CASE validate_constant_declaration   BY <1>4, DeclareSteps
<1>5. CASE validate_argument               BY <1>5, DeclareSteps
<1>6. CASE validate_variable_declaration   BY <1>6, variable_declarationStep
<1>7. CASE declare_variable                BY <1>7, DeclareSteps
<1>8. CASE validate_variable_assignment    BY <1>8, validate_variable_assignmentStep
<1>9. CASE check_assignment                BY <1>9, check_assignmentStep
<1>10. CASE validate_variable_lookup       BY <1>10, validate_variable_lookupStep
<1>11. CASE validate_literal               BY <1>11, validate_literalStep
<1>12. CASE validate_binary_op             BY <1>12, binary_opStep
<1>13. CASE type_binary_op                 BY <1>13, type_binary_opStep
<1>14. CASE validate_unary_op              BY <1>14, unary_opStep
<1>15. CASE type_unary_op                  BY <1>15, type_unary_opStep
<1>16. CASE validate_function_call         BY <1>16, validate_function_callStep
<1>17. CASE validate_call_argument         BY <1>17, validate_call_argumentStep
<1>18. CASE check_argument                 BY <1>18, check_argumentStep
<1>19. CASE validate_function_return       BY <1>19, function_returnStep
<1>20. CASE check_return                   BY <1>20, check_returnStep
<1>21. CASE validate_if                    BY <1>21, ifStep
<1>22. CASE check_condition                BY <1>22, check_conditionStep
<1>23. CASE validate_else_block            BY <1>23, validate_else_blockStep
<1>24. CASE release_stack_frame            BY <1>24, release_stack_frameStep
<1>25. CASE finish                         BY <1>25, finishStep
<1>26. CASE UNCHANGED vars                 BY <1>26, StutterInv
<1> QED BY <1>1, <1>2, <1>3, <1>4, <1>5, <1>6, <1>7, <1>8, <1>9, <1>10, <1>11, <1>12, <1>13,
           <1>14, <1>15, <1>16, <1>17, <1>18, <1>19, <1>20, <1>21, <1>22, <1>23, <1>24, <1>25,
           <1>26 DEF Next

\* So the table is as deep as the frames are, whatever is validated, and the
\* work left is work on nodes of the tree.
THEOREM Invariance == Spec => []IInv
BY InitInv, StepInv, PTL DEF Spec

LEMMA WellTyped == IInv => TypeOK
BY DEF IInv, TypeOK, TypesInv, ErrorsInv, ResolvedInv, HistoryInv, ScopesInv, FunctionInv, FramesInv

\* The visitors write result_type_ and nothing else of the tree.
LEMMA TreeStays == Next => ast' = ast
BY DEF Next, KeepScope, insert_or_fail, validate, register_function,
       validate_function_declaration, validate_constant_declaration, validate_argument,
       validate_variable_declaration, declare_variable, validate_variable_assignment,
       check_assignment, validate_variable_lookup, validate_literal, validate_binary_op,
       type_binary_op, validate_unary_op, type_unary_op, validate_function_call,
       validate_call_argument, check_argument, validate_function_return, check_return,
       validate_if, check_condition, validate_else_block, release_stack_frame, finish

\* Whatever the program and however often it is validated, the visitors only
\* ever hold nodes of the tree, and errors_, symbol_table_ and result_type_
\* keep their types.
THEOREM TypeCorrect == Spec => []TypeOK
BY WellTyped, Invariance, PTL

\* create_stack_frame and release_stack_frame are paired on every path, the
\* paths that report errors included, and current_function_ is the function
\* of the second frame.
THEOREM FramesAreOwners == Spec => []FramesOwnScopes
<1>1. IInv => FramesOwnScopes
  BY DEF IInv
<1> QED BY <1>1, Invariance, PTL

-------------------------------------------------------------------------------
(* Literals. *)

\* No step gives a type to a literal that has lost its constant type.
LiteralsFixed ==
    \A n \in DOMAIN ast.nodes :
      (at(n).kind \in Literal /\ result_type[n] \notin ConstType) => result_type'[n] = result_type[n]

LEMMA SetConstKeeps ==
  ASSUME NEW types, NEW n, NEW m, NEW type, m \in DOMAIN types, types[m] \notin ConstType
  PROVE  /\ set_type_on_const(types, n, type)[m] = types[m]
         /\ m \in DOMAIN set_type_on_const(types, n, type)
BY DEF set_type_on_const

LEMMA StepKeepsLiterals ==
  ASSUME IInv, Next
  PROVE  LiteralsFixed
<1> SUFFICES ASSUME NEW n \in DOMAIN ast.nodes,
                    at(n).kind \in Literal, result_type[n] \notin ConstType
             PROVE  result_type'[n] = result_type[n]
  BY DEF LiteralsFixed
<1>1. n \in DOMAIN result_type
  BY DEF IInv, TypesInv
<1>2. ASSUME NEW kind, kind \notin Literal, at(this).kind = kind,
             NEW type, result_type' = [result_type EXCEPT ![this] = type]
      PROVE  result_type'[n] = result_type[n]
  BY <1>1, <1>2
<1>3. ASSUME NEW m, NEW type, NEW message, Assign(m, type, message)
      PROVE  result_type'[n] = result_type[n]
  BY <1>1, <1>3, SetConstKeeps DEF Assign
<1>4. CASE UNCHANGED result_type
  BY <1>4
<1>5. CASE check_assignment
  BY <1>3, <1>5 DEF check_assignment
<1>6. CASE check_argument
  BY <1>3, <1>6 DEF check_argument
<1>7. CASE check_return
  BY <1>3, <1>7 DEF check_return, Fail
<1>8. CASE validate_variable_lookup
  BY <1>2, <1>8 DEF validate_variable_lookup, Visiting, Fail, Literal
<1>9. CASE validate_function_call
  BY <1>2, <1>9 DEF validate_function_call, Visiting, Fail, Literal
<1>10. CASE type_unary_op
  <2>1. at(this).kind = "UnaryOp" /\ Now("type_unary_op")
    BY <1>10, HeadFits DEF type_unary_op, Todo
  <2> QED BY <1>2, <1>10, <2>1 DEF type_unary_op, Fail, Literal
<1>11. CASE type_binary_op
  <2>1. at(this).kind = "BinaryOp"
    BY <1>11, HeadFits DEF type_binary_op, Todo
  <2>2. this # n
    BY <2>1 DEF Literal
  <2>3. ASSUME NEW result, NEW l, NEW r, NEW first, NEW second,
               result_type' = set_type_on_const(
                                set_type_on_const([result_type EXCEPT ![this] = result], l, first),
                                r, second)
        PROVE  result_type'[n] = result_type[n]
    <3> DEFINE typed == [result_type EXCEPT ![this] = result]
               once == set_type_on_const(typed, l, first)
    <3>1. n \in DOMAIN typed /\ typed[n] = result_type[n]
      BY <1>1, <2>2
    <3> HIDE DEF typed
    <3>2. n \in DOMAIN once /\ once[n] = result_type[n]
      BY <3>1, SetConstKeeps
    <3> HIDE DEF once
    <3>3. set_type_on_const(once, r, second)[n] = result_type[n]
      BY <3>2, SetConstKeeps
    <3> QED BY <2>3, <3>3 DEF once, typed
  <2> QED BY <1>11, <2>3 DEF type_binary_op, Fail
<1> QED
  BY <1>4, <1>5, <1>6, <1>7, <1>8, <1>9, <1>10, <1>11
     DEF Next, validate, register_function, insert_or_fail, validate_function_declaration,
         validate_constant_declaration, validate_argument, validate_variable_declaration,
         declare_variable, validate_variable_assignment, Fail, validate_literal, validate_binary_op,
         validate_unary_op, validate_call_argument, validate_function_return, validate_if,
         check_condition, validate_else_block, release_stack_frame, finish

\* A literal whose type a context has fixed keeps it for ever: the order in
\* which the visitors meet its contexts, and later validations, do not matter.
THEOREM FixedLiterals == Spec => FixedLiteralsKeepTheirType
<1>1. IInv /\ [Next]_vars => [LiteralsFixed]_vars
  BY StepKeepsLiterals
<1>2. FixedLiteralsKeepTheirType <=> [][LiteralsFixed]_vars
  BY DEF FixedLiteralsKeepTheirType, LiteralsFixed
<1> QED BY <1>1, <1>2, Invariance, PTL DEF Spec

-------------------------------------------------------------------------------
(* The chain of tables. *)

\* A declaration's action inserts its own node under its own name.
LEMMA InsertIsTableStep ==
  ASSUME IInv, Running, Current.todo # << >>, at(this).kind \in Named,
         NEW message, insert_or_fail(this, message)
  PROVE  Table!Next
<1>1. this \in DOMAIN ast.nodes
  BY HeadFacts
<1>2. this \in Nat \ {NoNode} /\ at(this).name \in Name
  BY <1>1, AstFacts DEF IInv
<1> QED BY <1>2 DEF insert_or_fail, Table!Next

LEMMA StepOnTable ==
  ASSUME IInv, [Next]_vars
  PROVE  [Table!Next]_scopes
<1>1. CASE \/ register_function \/ validate_constant_declaration
           \/ validate_argument \/ declare_variable
  <2>1. Running /\ Current.todo # << >>
    BY <1>1 DEF register_function, validate_constant_declaration, validate_argument,
                declare_variable, Visiting, Now
  <2>2. CASE UNCHANGED scopes
    BY <2>2
  <2>3. CASE insert_or_fail(this, "already defined")
    <3>1. CASE register_function /\ is_function(at(this))
      <4>1. at(this).kind \in Named
        BY <3>1 DEF is_function, Named, Declaration
      <4> QED BY <2>1, <2>3, <4>1, InsertIsTableStep
    <3>2. CASE register_function /\ ~ is_function(at(this))
      BY <3>2 DEF register_function, KeepScope
    <3>3. CASE validate_constant_declaration \/ validate_argument
      <4>1. at(this).kind \in Named
        BY <3>3 DEF validate_constant_declaration, validate_argument, Visiting, Named, Declaration
      <4> QED BY <2>1, <2>3, <4>1, InsertIsTableStep
    <3>4. CASE declare_variable
      <4>1. Now("declare_variable")
        BY <3>4 DEF declare_variable
      <4>2. Fits(ast, Head(Current.todo)) /\ Head(Current.todo).do = "declare_variable"
        BY <4>1, HeadFits DEF Todo
      <4>3. at(this).kind \in Named
        BY <4>2 DEF Fits, at, this, Named, Declaration
      <4> QED BY <2>1, <2>3, <4>3, InsertIsTableStep
    <3> QED BY <1>1, <3>1, <3>2, <3>3, <3>4
  <2> QED BY <1>1, <2>2, <2>3 DEF register_function, validate_constant_declaration,
                                  validate_argument, declare_variable, KeepScope
<1>2. CASE validate
  BY <1>2 DEF validate, Table!Next
<1>3. CASE validate_function_declaration \/ check_condition \/ validate_else_block
  BY <1>3 DEF validate_function_declaration, check_condition, validate_else_block, Table!Next
<1>4. CASE release_stack_frame
  BY <1>4 DEF release_stack_frame, Table!Next
<1>5. CASE UNCHANGED scopes
  BY <1>5
<1> QED
  BY <1>1, <1>2, <1>3, <1>4, <1>5
     DEF Next, vars, KeepScope, validate_variable_declaration, validate_variable_assignment,
         check_assignment, validate_variable_lookup, validate_literal, validate_binary_op,
         type_binary_op, validate_unary_op, type_unary_op, validate_function_call,
         validate_call_argument, check_argument, validate_function_return, check_return,
         validate_if, finish

\* The visitors drive symbol_table_ through its own operations only, so every
\* theorem about the chain holds of the chain under a validation.
THEOREM DrivesSymbolTable == Spec => Table!Spec
<1>1. Init => Table!Init
  BY DEF Init
<1> QED BY <1>1, StepOnTable, Invariance, PTL DEF Spec, Table!Spec

\* So what the names mean while the visitors run is what a lexical environment
\* says, for every program and however deep its blocks.
THEOREM LexicalScopes == Spec => TableProofs!ImplementsEnvironment
<1>1. TableProofs!Spec => TableProofs!ImplementsEnvironment
  BY TableAssumption, TableProofs!Refinement
<1>2. Table!Init => TableProofs!Init
  BY DEF Table!Init, Table!EmptyTable, TableProofs!Init, TableProofs!EmptyTable
<1>3. [Table!Next]_scopes => [TableProofs!Next]_scopes
  BY DEF Table!Next, Table!reset, Table!insert, Table!create_stack_frame, Table!release_stack_frame,
         Table!EmptyTable, Table!is_new,
         TableProofs!Next, TableProofs!reset, TableProofs!insert, TableProofs!create_stack_frame,
         TableProofs!release_stack_frame, TableProofs!EmptyTable, TableProofs!is_new
<1>4. Table!Spec => TableProofs!Spec
  BY <1>2, <1>3, PTL DEF Table!Spec, TableProofs!Spec
<1> QED BY <1>1, <1>4, DrivesSymbolTable, PTL

-------------------------------------------------------------------------------
(***************************************************************************)
(* What a validation without errors has made sure of.  Whatever the tree   *)
(* and however often it is validated: once validate has returned and       *)
(* errors_ is empty, the tree is checked (CheckedTree).                    *)
(*                                                                         *)
(* The invariant follows the visitors through the tree.  A node is seen    *)
(* once its visitor has run; what that visitor left to be checked later is *)
(* pending, as an item of some frame.                                      *)
(***************************************************************************)

\* Something is still to be done to the node.
Pending(what, n) ==
    \E k \in DOMAIN frames : \E j \in DOMAIN frames[k].todo :
      frames[k].todo[j].do = what /\ frames[k].todo[j].node = n

\* A call that has a result type has that of a function with its name.
CallsInv ==
    \A n \in DOMAIN ast.nodes :
      at(n).kind = "FunctionCall" =>
        \/ result_type[n] = NoType
        \/ \E f \in Functions(ast, at(n).name) : result_type[n] = at(f).type

LiteralsInv == \A n \in DOMAIN ast.nodes : at(n).kind \in Literal => result_type[n] # NoType

\* A table has a declaration under its own name.
EntriesInv ==
    \A k \in DOMAIN scopes : \A x \in Name :
      scopes[k][x] # NoNode =>
        /\ at(scopes[k][x]).kind \in Declaration
        /\ at(scopes[k][x]).name = x
        /\ is_function(at(scopes[k][x])) => InTop(ast, scopes[k][x])

\* The first frame has instructions to do, and arguments are checked against
\* parameters.
HeldInv ==
    \A k \in DOMAIN frames : \A j \in DOMAIN frames[k].todo :
      /\ k = 1 => InTop(ast, frames[k].todo[j].node)
      /\ frames[k].todo[j].do \in {"argument", "check_argument"} =>
           at(frames[k].todo[j].entry).kind = "Argument"

\* A function is still to be registered or in the global table.
RegisteredInv ==
    (round > 0 /\ errors = << >>) =>
      \A n \in DOMAIN ast.nodes :
        (is_function(at(n)) /\ InTop(ast, n)) =>
          Pending("register", n) \/ scopes[1][at(n).name] = n

Typing == {"visit", "type_binary_op", "type_unary_op"}

Types(i, o) == i.node = o /\ i.do \in Typing

\* The condition of an if has a type when it is checked.
ConditionsInv ==
    errors = << >> =>
      \A k \in DOMAIN frames : \A j \in DOMAIN frames[k].todo :
        frames[k].todo[j].do = "check_condition" =>
          \/ result_type[at(frames[k].todo[j].node).operands[1]] # NoType
          \/ \E i \in 1 .. j - 1 : Types(frames[k].todo[i], at(frames[k].todo[j].node).operands[1])

Seen(seen, n) ==
    n \in seen \/ at(n).kind \in Literal \/ Pending("visit", n) \/ Pending("argument", n)

\* What the visitor of a node made sure of, or left to be.
SeenNode(seen, n) ==
    /\ \A i \in DOMAIN at(n).operands : Seen(seen, at(n).operands[i])
    /\ at(n).kind = "FunctionDeclaration" => \A i \in DOMAIN at(n).body : Seen(seen, at(n).body[i])
    /\ at(n).kind = "If" =>
         \/ Pending("check_condition", n)
         \/ /\ \A i \in DOMAIN at(n).body : Seen(seen, at(n).body[i])
            /\ Pending("else_block", n) \/ \A i \in DOMAIN at(n).orelse : Seen(seen, at(n).orelse[i])
            /\ \A i \in DOMAIN at(n).operands : HasNumber(ast, at(n).operands[i])
    /\ at(n).kind = "BinaryOp" =>
         \/ Pending("type_binary_op", n)
         \/ \A i \in DOMAIN at(n).operands : HasNumber(ast, at(n).operands[i])
    /\ at(n).kind = "UnaryOp" =>
         \/ Pending("type_unary_op", n)
         \/ \A i \in DOMAIN at(n).operands : HasNumber(ast, at(n).operands[i])
    /\ at(n).kind = "FunctionCall" =>
         /\ \E f \in Functions(ast, at(n).name) : Len(at(f).params) = Len(at(n).operands)
         /\ \A i \in DOMAIN at(n).operands :
              \/ HasNumber(ast, at(n).operands[i])
              \/ Pending("argument", at(n).operands[i])
              \/ Pending("check_argument", at(n).operands[i])

SeenInv(seen) ==
    /\ seen \subseteq DOMAIN ast.nodes
    /\ \A i \in DOMAIN ast.top : Seen(seen, ast.top[i])
    /\ \A n \in seen : SeenNode(seen, n)

AcceptInv ==
    /\ CallsInv
    /\ LiteralsInv
    /\ EntriesInv
    /\ HeldInv
    /\ RegisteredInv
    /\ ConditionsInv
    /\ (round > 0 /\ errors = << >>) => \E seen : SeenInv(seen)

-------------------------------------------------------------------------------
(* How the frames change, item by item. *)

\* The current frame has done its first item and goes on with others; a frame
\* it may have opened has the visits of the list to do.
Works(items, list) ==
    LET L == Len(frames) IN
    /\ DOMAIN frames \subseteq DOMAIN frames'
    /\ \A k \in DOMAIN frames' : k \notin DOMAIN frames => k = L + 1 /\ frames'[k].todo = visits(list)
    /\ list # << >> => L + 1 \in DOMAIN frames' /\ frames'[L + 1].todo = visits(list)
    /\ \A k \in DOMAIN frames : k # L => frames'[k].todo = frames[k].todo
    /\ DOMAIN frames'[L].todo = 1 .. Len(items) + Len(frames[L].todo) - 1
    /\ \A j \in 1 .. Len(items) : frames'[L].todo[j] = items[j]
    /\ \A j \in 2 .. Len(frames[L].todo) : frames'[L].todo[Len(items) + j - 1] = frames[L].todo[j]

LEMMA ListFacts ==
  ASSUME NEW T, NEW s \in Seq(T), s # << >>, NEW items \in Seq(T)
  PROVE  /\ items \o Tail(s) \in Seq(T)
         /\ DOMAIN (items \o Tail(s)) = 1 .. Len(items) + Len(s) - 1
         /\ \A j \in 1 .. Len(items) : (items \o Tail(s))[j] = items[j]
         /\ \A j \in 2 .. Len(s) : (items \o Tail(s))[Len(items) + j - 1] = s[j]
<1>1. /\ Tail(s) \in Seq(T) /\ Len(Tail(s)) = Len(s) - 1 /\ Len(s) \in Nat \ {0}
      /\ \A j \in 1 .. Len(s) - 1 : Tail(s)[j] = s[j + 1]
  OBVIOUS
<1> DEFINE t == Tail(s)
<1> HIDE DEF t
<1>2. /\ items \o t \in Seq(T)
      /\ DOMAIN (items \o t) = 1 .. Len(items) + Len(t)
      /\ \A j \in 1 .. Len(items) : (items \o t)[j] = items[j]
      /\ \A j \in 1 .. Len(t) : (items \o t)[Len(items) + j] = t[j]
  BY <1>1 DEF t
<1>3. Len(t) = Len(s) - 1 /\ Len(items) \in Nat
  BY <1>1 DEF t
<1>4. \A j \in 2 .. Len(s) : (items \o t)[Len(items) + j - 1] = s[j]
  <2> TAKE j \in 2 .. Len(s)
  <2>1. /\ j - 1 \in 1 .. Len(t) /\ j - 1 \in 1 .. Len(s) - 1
        /\ Len(items) + (j - 1) = Len(items) + j - 1 /\ (j - 1) + 1 = j
    BY <1>1, <1>3
  <2>2. (items \o t)[Len(items) + (j - 1)] = t[j - 1]
    BY <1>2, <2>1
  <2>3. t[j - 1] = s[(j - 1) + 1]
    BY <1>1, <2>1 DEF t
  <2> QED BY <2>1, <2>2, <2>3
<1>5. Len(items) + Len(t) = Len(items) + Len(s) - 1
  BY <1>1, <1>3
<1> QED BY <1>2, <1>4, <1>5 DEF t

LEMMA ThenWorks ==
  ASSUME IInv, Running, Current.todo # << >>, NEW items \in Seq(Item), Then(items)
  PROVE  Works(items, << >>)
<1> DEFINE L == Len(frames)
           todo == items \o Tail(Current.todo)
<1>1. /\ L \in Nat \ {0} /\ L \in DOMAIN frames /\ frames \in Seq(Frame)
      /\ frames[L] \in Frame /\ frames[L].todo \in Seq(Item) /\ frames[L].todo # << >>
      /\ Current = frames[L]
  <2>1. L \in Nat \ {0} /\ L \in DOMAIN frames /\ frames \in Seq(Frame) /\ Current = frames[L]
    BY HeadFacts DEF IInv, FramesInv, Current
  <2>2. frames[L] \in Frame
    BY <2>1
  <2> QED BY <2>1, <2>2 DEF Frame
<1>2. frames' = [frames EXCEPT ![L] = [frames[L] EXCEPT !.todo = todo]]
  BY <1>1 DEF Then
<1>3. [frames[L] EXCEPT !.todo = todo] = [owner |-> frames[L].owner, todo |-> todo]
  BY <1>1, NewTodo
<1>4. /\ DOMAIN todo = 1 .. Len(items) + Len(frames[L].todo) - 1
      /\ \A j \in 1 .. Len(items) : todo[j] = items[j]
      /\ \A j \in 2 .. Len(frames[L].todo) : todo[Len(items) + j - 1] = frames[L].todo[j]
  BY <1>1, ListFacts
<1> HIDE DEF todo, L
<1>5. /\ DOMAIN frames' = DOMAIN frames
      /\ frames'[L].todo = todo
      /\ \A k \in DOMAIN frames : k # L => frames'[k] = frames[k]
  BY <1>1, <1>2, <1>3
<1> QED BY <1>4, <1>5 DEF Works, L

LEMMA EnterWorks ==
  ASSUME IInv, Running, Current.todo # << >>, NEW items \in Seq(Item), NEW list, Enter(list, items)
  PROVE  Works(items, list)
<1> DEFINE L == Len(frames)
           todo == items \o Tail(Current.todo)
           opened == [owner |-> this, todo |-> visits(list)]
           before == [frames EXCEPT ![L] = [frames[L] EXCEPT !.todo = todo]]
<1>1. /\ L \in Nat \ {0} /\ L \in DOMAIN frames /\ frames \in Seq(Frame)
      /\ frames[L] \in Frame /\ frames[L].todo \in Seq(Item) /\ frames[L].todo # << >>
      /\ Current = frames[L]
  <2>1. L \in Nat \ {0} /\ L \in DOMAIN frames /\ frames \in Seq(Frame) /\ Current = frames[L]
    BY HeadFacts DEF IInv, FramesInv, Current
  <2>2. frames[L] \in Frame
    BY <2>1
  <2> QED BY <2>1, <2>2 DEF Frame
<1>2. frames' = Append(before, opened)
  BY <1>1 DEF Enter
<1>3. [frames[L] EXCEPT !.todo = todo] = [owner |-> frames[L].owner, todo |-> todo]
  BY <1>1, NewTodo
<1>4. /\ todo \in Seq(Item)
      /\ DOMAIN todo = 1 .. Len(items) + Len(frames[L].todo) - 1
      /\ \A j \in 1 .. Len(items) : todo[j] = items[j]
      /\ \A j \in 2 .. Len(frames[L].todo) : todo[Len(items) + j - 1] = frames[L].todo[j]
  BY <1>1, ListFacts
<1>5. opened.todo = visits(list)
  OBVIOUS
<1> HIDE DEF todo, L, opened
<1>6. [owner |-> frames[L].owner, todo |-> todo] \in Frame
  BY <1>1, <1>4 DEF Frame
<1>7. /\ before \in Seq(Frame) /\ Len(before) = L /\ DOMAIN before = DOMAIN frames
      /\ before[L].todo = todo
      /\ \A k \in DOMAIN frames : k # L => before[k] = frames[k]
  BY <1>1, <1>3, <1>6 DEF L
<1>8. DOMAIN frames = 1 .. L
  BY <1>1 DEF L
<1> HIDE DEF before
<1>9. /\ DOMAIN frames' = DOMAIN frames \cup {L + 1}
      /\ frames'[L + 1] = opened
      /\ \A k \in DOMAIN frames : frames'[k] = before[k]
  BY <1>1, <1>2, <1>7, <1>8
<1> QED BY <1>1, <1>4, <1>5, <1>7, <1>9 DEF Works, L

\* The items are among them.
Left(items, what, n) == \E j \in DOMAIN items : items[j].do = what /\ items[j].node = n

Keeps == \A what, n : Pending(what, n) => Pending(what, n)' \/ (Head(Current.todo).do = what /\ this = n)

LEMMA WorksPending ==
  ASSUME IInv, Running, Current.todo # << >>, NEW items \in Seq(Item), NEW list, Works(items, list)
  PROVE  /\ Keeps
         /\ \A what, n : Left(items, what, n) => Pending(what, n)'
         /\ \A i \in DOMAIN list : Pending("visit", list[i])'
<1> DEFINE L == Len(frames)
           m == Len(frames[L].todo)
<1>1. /\ L \in Nat \ {0} /\ L \in DOMAIN frames /\ frames[L].todo \in Seq(Item) /\ Current = frames[L]
      /\ Head(Current.todo) = frames[L].todo[1] /\ m \in Nat \ {0} /\ DOMAIN frames[L].todo = 1 .. m
  <2>1. L \in Nat \ {0} /\ L \in DOMAIN frames /\ frames[L] \in Frame /\ Current = frames[L]
    BY HeadFacts DEF IInv, FramesInv, Current
  <2>2. frames[L].todo \in Seq(Item) /\ frames[L].todo # << >>
    BY <2>1 DEF Frame
  <2> QED BY <2>1, <2>2
<1>2. /\ DOMAIN frames \subseteq DOMAIN frames'
      /\ list # << >> => L + 1 \in DOMAIN frames' /\ frames'[L + 1].todo = visits(list)
      /\ \A k \in DOMAIN frames : k # L => frames'[k].todo = frames[k].todo
      /\ DOMAIN frames'[L].todo = 1 .. Len(items) + m - 1
      /\ \A j \in 1 .. Len(items) : frames'[L].todo[j] = items[j]
      /\ \A j \in 2 .. m : frames'[L].todo[Len(items) + j - 1] = frames[L].todo[j]
  BY DEF Works
<1>3. Len(items) \in Nat /\ DOMAIN items = 1 .. Len(items)
  OBVIOUS
<1> HIDE DEF L, m
<1>4. ASSUME NEW what, NEW n, Pending(what, n)
      PROVE  Pending(what, n)' \/ (Head(Current.todo).do = what /\ this = n)
  <2>1. PICK k \in DOMAIN frames : \E j \in DOMAIN frames[k].todo :
          frames[k].todo[j].do = what /\ frames[k].todo[j].node = n
    BY <1>4 DEF Pending
  <2>2. PICK j \in DOMAIN frames[k].todo : frames[k].todo[j].do = what /\ frames[k].todo[j].node = n
    BY <2>1
  <2>3. CASE k # L
    BY <1>2, <2>2, <2>3 DEF Pending
  <2>4. CASE k = L /\ j = 1
    BY <1>1, <2>2, <2>4 DEF this
  <2>5. CASE k = L /\ j # 1
    <3>1. j \in 2 .. m /\ Len(items) + j - 1 \in 1 .. Len(items) + m - 1
      BY <1>1, <1>3, <2>5
    <3>2. frames'[L].todo[Len(items) + j - 1] = frames[L].todo[j]
      BY <1>2, <3>1
    <3> QED BY <1>1, <1>2, <2>2, <2>5, <3>1, <3>2 DEF Pending
  <2> QED BY <2>3, <2>4, <2>5
<1>5. ASSUME NEW what, NEW n, Left(items, what, n)
      PROVE  Pending(what, n)'
  <2>1. PICK j \in 1 .. Len(items) : items[j].do = what /\ items[j].node = n
    BY <1>3, <1>5 DEF Left
  <2>2. j \in 1 .. Len(items) + m - 1 /\ frames'[L].todo[j] = items[j]
    BY <1>1, <1>2, <1>3
  <2> QED BY <1>1, <1>2, <2>1, <2>2 DEF Pending
<1>6. ASSUME NEW i \in DOMAIN list
      PROVE  Pending("visit", list[i])'
  <2>1. L + 1 \in DOMAIN frames' /\ frames'[L + 1].todo = visits(list)
    BY <1>2
  <2>2. i \in DOMAIN visits(list) /\ visits(list)[i] = do("visit", list[i])
    BY DEF visits
  <2>3. visits(list)[i].do = "visit" /\ visits(list)[i].node = list[i]
    BY <2>2 DEF do
  <2> QED BY <2>1, <2>2, <2>3 DEF Pending
<1>7. Keeps
  BY <1>4 DEF Keeps
<1> QED BY <1>5, <1>6, <1>7

\* Where an item comes from: another frame, the new items, the rest of the
\* current frame, or the list.
LEMMA WorksItems ==
  ASSUME IInv, Running, Current.todo # << >>, NEW items \in Seq(Item), NEW list, Works(items, list),
         NEW k \in DOMAIN frames', NEW j \in DOMAIN frames'[k].todo
  PROVE  \/ k \in DOMAIN frames /\ k # Len(frames) /\ frames'[k].todo = frames[k].todo
         \/ k = Len(frames) /\ j \in 1 .. Len(items) /\ frames'[k].todo[j] = items[j]
         \/ /\ k = Len(frames)
            /\ \E p \in 2 .. Len(frames[k].todo) :
                 j = Len(items) + p - 1 /\ frames'[k].todo[j] = frames[k].todo[p]
         \/ k = Len(frames) + 1 /\ frames'[k].todo[j].do = "visit"
<1> DEFINE L == Len(frames)
           m == Len(frames[L].todo)
<1>1. L \in Nat \ {0} /\ L \in DOMAIN frames /\ m \in Nat \ {0} /\ Len(items) \in Nat
  <2>1. L \in Nat \ {0} /\ L \in DOMAIN frames /\ frames[L] \in Frame /\ Current = frames[L]
    BY HeadFacts DEF IInv, FramesInv, Current
  <2>2. frames[L].todo \in Seq(Item) /\ frames[L].todo # << >>
    BY <2>1 DEF Frame
  <2> QED BY <2>1, <2>2
<1>2. /\ k \notin DOMAIN frames => k = L + 1 /\ frames'[k].todo = visits(list)
      /\ k \in DOMAIN frames /\ k # L => frames'[k].todo = frames[k].todo
      /\ DOMAIN frames'[L].todo = 1 .. Len(items) + m - 1
      /\ \A i \in 1 .. Len(items) : frames'[L].todo[i] = items[i]
      /\ \A p \in 2 .. m : frames'[L].todo[Len(items) + p - 1] = frames[L].todo[p]
  BY DEF Works
<1> HIDE DEF L, m
<1>3. CASE k \notin DOMAIN frames
  <2>1. j \in DOMAIN visits(list) /\ frames'[k].todo[j] = visits(list)[j]
    BY <1>2, <1>3
  <2>2. visits(list)[j] = do("visit", list[j])
    BY <2>1 DEF visits
  <2> QED BY <1>2, <1>3, <2>1, <2>2 DEF do, L
<1>4. CASE k = L /\ j \in 1 .. Len(items)
  BY <1>2, <1>4 DEF L
<1>5. CASE k = L /\ j \notin 1 .. Len(items)
  <2> DEFINE p == j - Len(items) + 1
  <2>1. j \in 1 .. Len(items) + m - 1
    BY <1>2, <1>5
  <2>2. p \in 2 .. m /\ j = Len(items) + p - 1
    BY <1>1, <1>5, <2>1
  <2> HIDE DEF p
  <2>3. frames'[L].todo[j] = frames[L].todo[p]
    BY <1>2, <2>2
  <2> QED BY <1>5, <2>2, <2>3 DEF L, m
<1> QED BY <1>2, <1>3, <1>4, <1>5 DEF L

-------------------------------------------------------------------------------
(* What a step that does the first item keeps, one part of the invariant   *)
(* after the other.                                                        *)

\* The items a visitor leaves may be held.
MayHold(items) ==
    /\ Len(frames) = 1 => items = << >>
    /\ \A j \in DOMAIN items :
         items[j].do \in {"argument", "check_argument"} => at(items[j].entry).kind = "Argument"

LEMMA HeldStep ==
  ASSUME IInv, HeldInv, Running, Current.todo # << >>, ast' = ast,
         NEW items \in Seq(Item), NEW list, Works(items, list), MayHold(items)
  PROVE  HeldInv'
<1>1. Len(frames) \in Nat \ {0} /\ Len(frames) \in DOMAIN frames /\ Len(frames) + 1 # 1
  BY HeadFacts
<1>2. SUFFICES ASSUME NEW k \in DOMAIN frames', NEW j \in DOMAIN frames'[k].todo
               PROVE  /\ k = 1 => InTop(ast, frames'[k].todo[j].node)
                      /\ frames'[k].todo[j].do \in {"argument", "check_argument"} =>
                           at(frames'[k].todo[j].entry).kind = "Argument"
  BY DEF HeldInv, at
<1>3. CASE k \in DOMAIN frames /\ k # Len(frames) /\ frames'[k].todo = frames[k].todo
  BY <1>3 DEF HeldInv
<1>4. CASE k = Len(frames) /\ j \in 1 .. Len(items) /\ frames'[k].todo[j] = items[j]
  <2>1. j \in DOMAIN items /\ items # << >>
    BY <1>4
  <2> QED BY <1>4, <2>1 DEF MayHold
<1>5. CASE /\ k = Len(frames)
           /\ \E p \in 2 .. Len(frames[k].todo) :
                j = Len(items) + p - 1 /\ frames'[k].todo[j] = frames[k].todo[p]
  <2>1. PICK p \in 2 .. Len(frames[k].todo) : frames'[k].todo[j] = frames[k].todo[p]
    BY <1>5
  <2>2. frames[k] \in Frame
    BY <1>1, <1>5 DEF IInv, FramesInv
  <2>3. p \in DOMAIN frames[k].todo
    BY <2>1, <2>2 DEF Frame
  <2> QED BY <1>1, <1>5, <2>1, <2>3 DEF HeldInv
<1>6. CASE k = Len(frames) + 1 /\ frames'[k].todo[j].do = "visit"
  BY <1>1, <1>6
<1> QED BY <1>3, <1>4, <1>5, <1>6, WorksItems

\* The step's errors, if any, stay.
ErrorsStay == errors' = << >> => errors = << >>

TypesStay == \A n \in DOMAIN ast.nodes : result_type[n] # NoType => result_type'[n] # NoType

\* After its visitor an expression has a type or is going to have one.
GetsType(items) ==
    (errors' = << >> /\ Head(Current.todo).do \in Typing /\ at(this).kind \in Expression) =>
      \/ result_type'[this] # NoType
      \/ \E i \in DOMAIN items : Types(items[i], this)

\* A condition is checked after it has been typed.
MayCheck(items) ==
    \A j \in DOMAIN items :
      items[j].do = "check_condition" =>
        \E i \in 1 .. j - 1 : Types(items[i], at(items[j].node).operands[1])

LEMMA ConditionOf ==
  ASSUME IInv, NEW k \in DOMAIN frames, NEW j \in DOMAIN frames[k].todo,
         frames[k].todo[j].do = "check_condition"
  PROVE  /\ at(frames[k].todo[j].node).operands[1] \in DOMAIN ast.nodes
         /\ at(at(frames[k].todo[j].node).operands[1]).kind \in Expression
<1> DEFINE item == frames[k].todo[j]
<1>1. item \in ItemAt(ast, k)
  BY DEF IInv, FramesInv
<1>2. k # 1
  BY <1>1 DEF ItemAt, TopItem
<1>3. item.node \in DOMAIN ast.nodes /\ at(item.node).kind = "If"
  BY <1>1, <1>2 DEF ItemAt, InnerItem, Fits, at
<1> HIDE DEF item
<1>4. Len(at(item.node).operands) = 1 /\ at(item.node) \in AstNode
  BY <1>3, AstFacts DEF Operands, IInv
<1>5. 1 \in DOMAIN at(item.node).operands
  BY <1>4 DEF AstNode
<1>6. /\ at(item.node).operands[1] \in DOMAIN ast.nodes
      /\ at(at(item.node).operands[1]).kind \in Expression
  BY <1>3, <1>5, AstFacts DEF IInv
<1> QED BY <1>6 DEF item

LEMMA ConditionsStep ==
  ASSUME IInv, ConditionsInv, Running, Current.todo # << >>, ast' = ast,
         NEW items \in Seq(Item), NEW list, Works(items, list),
         ErrorsStay, TypesStay, GetsType(items), MayCheck(items)
  PROVE  ConditionsInv'
<1> DEFINE L == Len(frames)
           m == Len(frames[L].todo)
           o(i) == at(i.node).operands[1]
<1>1. /\ L \in Nat \ {0} /\ L \in DOMAIN frames /\ frames[L].todo \in Seq(Item) /\ Current = frames[L]
      /\ Head(Current.todo) = frames[L].todo[1] /\ m \in Nat \ {0} /\ DOMAIN frames[L].todo = 1 .. m
  <2>1. L \in Nat \ {0} /\ L \in DOMAIN frames /\ frames[L] \in Frame /\ Current = frames[L]
    BY HeadFacts DEF IInv, FramesInv, Current
  <2>2. frames[L].todo \in Seq(Item) /\ frames[L].todo # << >>
    BY <2>1 DEF Frame
  <2> QED BY <2>1, <2>2
<1>2. SUFFICES ASSUME errors' = << >>, NEW k \in DOMAIN frames', NEW j \in DOMAIN frames'[k].todo,
                      frames'[k].todo[j].do = "check_condition"
               PROVE  \/ result_type'[o(frames'[k].todo[j])] # NoType
                      \/ \E i \in 1 .. j - 1 : Types(frames'[k].todo[i], o(frames'[k].todo[j]))
  BY DEF ConditionsInv, at
<1>3. errors = << >>
  BY <1>2 DEF ErrorsStay
<1>4. Len(items) \in Nat /\ DOMAIN items = 1 .. Len(items)
  OBVIOUS
<1>5. /\ DOMAIN frames'[L].todo = 1 .. Len(items) + m - 1
      /\ \A i \in 1 .. Len(items) : frames'[L].todo[i] = items[i]
      /\ \A p \in 2 .. m : frames'[L].todo[Len(items) + p - 1] = frames[L].todo[p]
  BY DEF Works
<1> HIDE DEF m
<1>6. CASE k \in DOMAIN frames /\ k # L /\ frames'[k].todo = frames[k].todo
  <2>1. j \in DOMAIN frames[k].todo /\ frames[k].todo[j].do = "check_condition"
    BY <1>2, <1>6
  <2>2. o(frames[k].todo[j]) \in DOMAIN ast.nodes
    BY <1>6, <2>1, ConditionOf
  <2>3. \/ result_type[o(frames[k].todo[j])] # NoType
        \/ \E i \in 1 .. j - 1 : Types(frames[k].todo[i], o(frames[k].todo[j]))
    BY <1>3, <1>6, <2>1 DEF ConditionsInv
  <2> QED BY <1>6, <2>2, <2>3 DEF TypesStay
<1>7. CASE k = L /\ j \in 1 .. Len(items) /\ frames'[k].todo[j] = items[j]
  <2>1. PICK i \in 1 .. j - 1 : Types(items[i], o(items[j]))
    BY <1>2, <1>4, <1>7 DEF MayCheck
  <2>2. i \in 1 .. Len(items)
    BY <1>4, <1>7
  <2>3. frames'[L].todo[i] = items[i]
    BY <1>5, <2>2
  <2>4. Types(frames'[k].todo[i], o(frames'[k].todo[j]))
    BY <1>7, <2>1, <2>3
  <2> QED BY <2>4
<1>8. CASE /\ k = L
           /\ \E p \in 2 .. m : j = Len(items) + p - 1 /\ frames'[k].todo[j] = frames[k].todo[p]
  <2>1. PICK p \in 2 .. m : j = Len(items) + p - 1 /\ frames'[k].todo[j] = frames[k].todo[p]
    BY <1>8
  <2>2. p \in DOMAIN frames[L].todo /\ frames[L].todo[p].do = "check_condition"
    BY <1>1, <1>2, <1>8, <2>1
  <2> DEFINE c == o(frames[L].todo[p])
  <2>3. c \in DOMAIN ast.nodes /\ at(c).kind \in Expression
    BY <1>1, <2>2, ConditionOf
  <2>4. \/ result_type[c] # NoType
        \/ \E i \in 1 .. p - 1 : Types(frames[L].todo[i], c)
    BY <1>1, <1>3, <2>2 DEF ConditionsInv
  <2>5. o(frames'[k].todo[j]) = c
    BY <1>8, <2>1
  <2> HIDE DEF c
  <2>6. CASE result_type[c] # NoType
    BY <2>3, <2>5, <2>6 DEF TypesStay
  <2>7. ASSUME NEW i \in 1 .. p - 1, Types(frames[L].todo[i], c), i # 1
        PROVE  \E q \in 1 .. j - 1 : Types(frames'[k].todo[q], c)
    <3>1. i \in 2 .. m /\ Len(items) + i - 1 \in 1 .. j - 1
      BY <1>1, <1>4, <2>1, <2>7
    <3>2. frames'[L].todo[Len(items) + i - 1] = frames[L].todo[i]
      BY <1>5, <3>1
    <3>3. Types(frames'[k].todo[Len(items) + i - 1], c)
      BY <1>8, <2>7, <3>2
    <3> QED BY <3>1, <3>3
  <2>8. CASE Types(frames[L].todo[1], c)
    <3>1. Head(Current.todo).do \in Typing /\ this = c
      BY <1>1, <2>8 DEF Types, this
    <3>2. \/ result_type'[c] # NoType
          \/ \E i \in DOMAIN items : Types(items[i], c)
      BY <1>2, <2>3, <3>1 DEF GetsType
    <3>3. ASSUME NEW i \in DOMAIN items, Types(items[i], c)
          PROVE  \E q \in 1 .. j - 1 : Types(frames'[k].todo[q], c)
      <4>1. i \in 1 .. Len(items) /\ i \in 1 .. j - 1
        BY <1>4, <2>1
      <4>2. frames'[k].todo[i] = items[i]
        BY <1>5, <1>8, <4>1
      <4>3. Types(frames'[k].todo[i], c)
        BY <3>3, <4>2
      <4> QED BY <4>1, <4>3
    <3> QED BY <2>5, <3>2, <3>3
  <2> QED BY <2>4, <2>5, <2>6, <2>7, <2>8
<1>9. CASE k = L + 1 /\ frames'[k].todo[j].do = "visit"
  BY <1>2, <1>9
<1> QED BY <1>6, <1>7, <1>8, <1>9, WorksItems DEF m

\* The first table keeps what it has and gets a function that is registered.
Registers ==
    /\ \A x \in Name : scopes[1][x] # NoNode => scopes'[1][x] = scopes[1][x]
    /\ (errors' = << >> /\ Head(Current.todo).do = "register" /\ is_function(at(this))) =>
         scopes'[1][at(this).name] = this

LEMMA RegisteredStep ==
  ASSUME IInv, RegisteredInv, Running, Current.todo # << >>, ast' = ast, round' = round,
         Keeps, ErrorsStay, Registers
  PROVE  RegisteredInv'
<1>1. SUFFICES ASSUME round > 0, errors' = << >>, NEW n \in DOMAIN ast.nodes, is_function(at(n)), InTop(ast, n)
               PROVE  Pending("register", n)' \/ scopes'[1][at(n).name] = n
  BY DEF RegisteredInv, at
<1>2. errors = << >>
  BY <1>1 DEF ErrorsStay
<1>3. Pending("register", n) \/ scopes[1][at(n).name] = n
  BY <1>1, <1>2 DEF RegisteredInv
<1>4. CASE Pending("register", n)
  BY <1>1, <1>4 DEF Keeps, Registers
<1>5. CASE scopes[1][at(n).name] = n
  <2>1. at(n).name \in Name /\ n # NoNode
    <3>1. at(n).name \in Name
      BY <1>1, AstFacts DEF IInv, is_function, Named, Declaration
    <3> QED BY <1>1, <3>1, AstFacts DEF IInv
  <2> QED BY <1>5, <2>1 DEF Registers
<1> QED BY <1>3, <1>4, <1>5

\* What a visitor makes sure of, or leaves to be, if it finds no error.
Visits(items, list) ==
    /\ \A i \in DOMAIN at(this).operands :
         LET o == at(this).operands[i] IN
           at(o).kind \in Literal \/ Left(items, "visit", o) \/ Left(items, "argument", o)
    /\ at(this).kind = "FunctionDeclaration" => \A i \in DOMAIN at(this).body : Left(visits(list), "visit", at(this).body[i])
    /\ at(this).kind = "If" => Left(items, "check_condition", this)
    /\ at(this).kind = "BinaryOp" => Left(items, "type_binary_op", this)
    /\ at(this).kind = "UnaryOp" => Left(items, "type_unary_op", this)
    /\ at(this).kind = "FunctionCall" =>
         /\ \E f \in Functions(ast, at(this).name) : Len(at(f).params) = Len(at(this).operands)
         /\ \A i \in DOMAIN at(this).operands : Left(items, "argument", at(this).operands[i])

OperandsAreNumbers == \A i \in DOMAIN at(this).operands : HasNumber(ast, at(this).operands[i])

\* The same of whatever the head is.
Does(items, list) ==
    LET what == Head(Current.todo).do IN
    /\ what = "visit" => Visits(items, list)
    /\ what = "argument" => Left(items, "visit", this) /\ Left(items, "check_argument", this)
    /\ what = "check_argument" => HasNumber(ast, this)
    /\ what \in {"type_binary_op", "type_unary_op"} => OperandsAreNumbers
    /\ what = "check_condition" =>
         /\ OperandsAreNumbers
         /\ \A i \in DOMAIN at(this).body : Left(visits(list), "visit", at(this).body[i])
         /\ Left(items, "else_block", this) \/ at(this).orelse = << >>
    /\ what = "else_block" =>
         \A i \in DOMAIN at(this).orelse : Left(visits(list), "visit", at(this).orelse[i])

LEMMA ListVisits ==
  ASSUME NEW list, NEW n, Left(visits(list), "visit", n)
  PROVE  \E i \in DOMAIN list : list[i] = n
<1>1. PICK j \in DOMAIN visits(list) : visits(list)[j].node = n
  BY DEF Left
<1>2. j \in DOMAIN list /\ visits(list)[j] = do("visit", list[j])
  BY <1>1 DEF visits
<1> QED BY <1>1, <1>2 DEF do

LEMMA SeenStep ==
  ASSUME IInv, Running, Current.todo # << >>, ast' = ast,
         NEW items \in Seq(Item), NEW list, Works(items, list), Does(items, list),
         NEW seen, SeenInv(seen)
  PROVE  \E w : SeenInv(w)'
<1> DEFINE what == Head(Current.todo).do
<1>0. PICK v : v = this
  OBVIOUS
<1>w. PICK w : w = IF what = "visit" THEN seen \cup {v} ELSE seen
  OBVIOUS
<1>1. /\ Keeps
      /\ \A d, n : Left(items, d, n) => Pending(d, n)'
      /\ \A n : Left(visits(list), "visit", n) => Pending("visit", n)'
  BY WorksPending, ListVisits
<1>2. this \in DOMAIN ast.nodes
  BY HeadFacts
<1>3. seen \subseteq DOMAIN ast.nodes /\ w \subseteq DOMAIN ast.nodes /\ seen \subseteq w
  BY <1>0, <1>w, <1>2 DEF SeenInv
<1>4. what = "visit" => v \in w
  BY <1>w
<1>5. w \subseteq seen \cup {v} /\ (what # "visit" => w = seen)
  BY <1>w
<1>6. ASSUME NEW n, Seen(seen, n)
      PROVE  Seen(w, n)'
  <2>1. CASE n \in seen \/ at(n).kind \in Literal
    BY <1>3, <2>1 DEF Seen, at
  <2>2. CASE Pending("visit", n)
    BY <1>0, <1>1, <1>4, <2>2 DEF Seen, Keeps
  <2>3. CASE Pending("argument", n)
    BY <1>1, <2>3 DEF Seen, Keeps, Does
  <2> QED BY <1>6, <2>1, <2>2, <2>3 DEF Seen
<1>7. \A n : Left(items, "visit", n) \/ Left(items, "argument", n) \/ Left(visits(list), "visit", n)
               => Seen(w, n)'
  BY <1>1 DEF Seen
<1>8. ASSUME NEW n \in seen
      PROVE  SeenNode(w, n)'
  <2>1. SeenNode(seen, n)
    BY DEF SeenInv
  <2>2. \A i \in DOMAIN at(n).operands : Seen(w, at(n).operands[i])'
    BY <1>6, <2>1 DEF SeenNode, at
  <2>3. at(n).kind = "FunctionDeclaration" => \A i \in DOMAIN at(n).body : Seen(w, at(n).body[i])'
    BY <1>6, <2>1 DEF SeenNode, at
  <2>4. at(n).kind = "If" =>
         \/ Pending("check_condition", n)'
         \/ /\ \A i \in DOMAIN at(n).body : Seen(w, at(n).body[i])'
            /\ Pending("else_block", n)' \/ \A i \in DOMAIN at(n).orelse : Seen(w, at(n).orelse[i])'
            /\ \A i \in DOMAIN at(n).operands : HasNumber(ast, at(n).operands[i])
    <3> SUFFICES ASSUME at(n).kind = "If"
                 PROVE  \/ Pending("check_condition", n)'
                        \/ /\ \A i \in DOMAIN at(n).body : Seen(w, at(n).body[i])'
                           /\ Pending("else_block", n)' \/ \A i \in DOMAIN at(n).orelse : Seen(w, at(n).orelse[i])'
                           /\ \A i \in DOMAIN at(n).operands : HasNumber(ast, at(n).operands[i])
      OBVIOUS
    <3>1. CASE Pending("check_condition", n)
      <4>1. CASE Pending("check_condition", n)'
        BY <4>1
      <4>2. CASE what = "check_condition" /\ this = n
        <5>1. /\ \A i \in DOMAIN at(n).operands : HasNumber(ast, at(n).operands[i])
              /\ \A i \in DOMAIN at(n).body : Left(visits(list), "visit", at(n).body[i])
              /\ Left(items, "else_block", n) \/ at(n).orelse = << >>
          BY <4>2 DEF Does, OperandsAreNumbers
        <5> QED BY <1>1, <1>7, <5>1 DEF at
      <4> QED BY <1>1, <3>1, <4>1, <4>2 DEF Keeps
    <3>2. CASE /\ \A i \in DOMAIN at(n).body : Seen(seen, at(n).body[i])
               /\ Pending("else_block", n) \/ \A i \in DOMAIN at(n).orelse : Seen(seen, at(n).orelse[i])
               /\ \A i \in DOMAIN at(n).operands : HasNumber(ast, at(n).operands[i])
      <4>1. CASE \A i \in DOMAIN at(n).orelse : Seen(seen, at(n).orelse[i])
        BY <1>6, <3>2, <4>1 DEF at
      <4>2. CASE Pending("else_block", n)'
        BY <1>6, <3>2, <4>2 DEF at
      <4>3. CASE what = "else_block" /\ this = n
        BY <1>6, <1>7, <3>2, <4>3 DEF Does, at
      <4> QED BY <1>1, <3>2, <4>1, <4>2, <4>3 DEF Keeps
    <3> QED BY <2>1, <3>1, <3>2 DEF SeenNode
  <2>5. at(n).kind = "BinaryOp" =>
         \/ Pending("type_binary_op", n)'
         \/ \A i \in DOMAIN at(n).operands : HasNumber(ast, at(n).operands[i])
    BY <1>1, <2>1 DEF SeenNode, Keeps, Does, OperandsAreNumbers
  <2>6. at(n).kind = "UnaryOp" =>
         \/ Pending("type_unary_op", n)'
         \/ \A i \in DOMAIN at(n).operands : HasNumber(ast, at(n).operands[i])
    BY <1>1, <2>1 DEF SeenNode, Keeps, Does, OperandsAreNumbers
  <2>7. at(n).kind = "FunctionCall" =>
         /\ \E f \in Functions(ast, at(n).name) : Len(at(f).params) = Len(at(n).operands)
         /\ \A i \in DOMAIN at(n).operands :
              \/ HasNumber(ast, at(n).operands[i])
              \/ Pending("argument", at(n).operands[i])'
              \/ Pending("check_argument", at(n).operands[i])'
    <3> SUFFICES ASSUME at(n).kind = "FunctionCall"
                 PROVE  /\ \E f \in Functions(ast, at(n).name) : Len(at(f).params) = Len(at(n).operands)
                        /\ \A i \in DOMAIN at(n).operands :
                             \/ HasNumber(ast, at(n).operands[i])
                             \/ Pending("argument", at(n).operands[i])'
                             \/ Pending("check_argument", at(n).operands[i])'
      OBVIOUS
    <3>1. /\ \E f \in Functions(ast, at(n).name) : Len(at(f).params) = Len(at(n).operands)
          /\ \A i \in DOMAIN at(n).operands :
               \/ HasNumber(ast, at(n).operands[i])
               \/ Pending("argument", at(n).operands[i])
               \/ Pending("check_argument", at(n).operands[i])
      BY <2>1 DEF SeenNode
    <3> QED BY <1>1, <3>1 DEF Keeps, Does, at
  <2> QED BY <2>2, <2>3, <2>4, <2>5, <2>6, <2>7 DEF SeenNode, at
<1>9. ASSUME what = "visit"
      PROVE  SeenNode(w, v)'
  <2>0. PICK n : n = v /\ n = this
    BY <1>0
  <2>1. Visits(items, list)
    BY <1>9 DEF Does
  <2>2. \A i \in DOMAIN at(n).operands : Seen(w, at(n).operands[i])'
    BY <1>7, <2>0, <2>1 DEF Visits, Seen, at
  <2>3. at(n).kind = "FunctionDeclaration" => \A i \in DOMAIN at(n).body : Seen(w, at(n).body[i])'
    BY <1>7, <2>0, <2>1 DEF Visits, at
  <2>4. /\ at(n).kind = "If" => Pending("check_condition", n)'
        /\ at(n).kind = "BinaryOp" => Pending("type_binary_op", n)'
        /\ at(n).kind = "UnaryOp" => Pending("type_unary_op", n)'
    BY <1>1, <2>0, <2>1 DEF Visits, at
  <2>5. at(n).kind = "FunctionCall" =>
         /\ \E f \in Functions(ast, at(n).name) : Len(at(f).params) = Len(at(n).operands)
         /\ \A i \in DOMAIN at(n).operands : Pending("argument", at(n).operands[i])'
    BY <1>1, <2>0, <2>1 DEF Visits, at
  <2> QED BY <2>0, <2>2, <2>3, <2>4, <2>5 DEF SeenNode, at
<1>10. \A i \in DOMAIN ast.top : Seen(w, ast.top[i])'
  BY <1>6 DEF SeenInv
<1>11. \A n \in w : SeenNode(w, n)'
  <2> TAKE n \in w
  <2>1. CASE n \in seen
    BY <1>8, <2>1
  <2>2. CASE n = v /\ what = "visit"
    BY <1>9, <2>2
  <2> QED BY <1>5, <2>1, <2>2
<1>12. SeenInv(w)'
  BY <1>3, <1>10, <1>11 DEF SeenInv
<1> QED BY <1>12

-------------------------------------------------------------------------------
(* The tables. *)

TableStays == \A x \in Name : scopes[1][x] # NoNode => scopes'[1][x] = scopes[1][x]

LEMMA SameTables ==
  ASSUME EntriesInv, scopes' = scopes, ast' = ast
  PROVE  EntriesInv' /\ TableStays
BY DEF EntriesInv, TableStays, at

LEMMA InsertEntry ==
  ASSUME IInv, EntriesInv, NEW n \in DOMAIN ast.nodes, NEW x \in Name, Table!insert(x, n), ast' = ast,
         at(n).kind \in Declaration, at(n).name = x, is_function(at(n)) => InTop(ast, n)
  PROVE  /\ EntriesInv' /\ TableStays
         /\ (Table!is_new(x) /\ Len(scopes) = 1) => scopes'[1][x] = n
<1>1. /\ scopes \in Seq([Name -> {NoNode} \cup DOMAIN ast.nodes])
      /\ Len(scopes) \in Nat \ {0} /\ Len(scopes) \in DOMAIN scopes
  BY ScopesFacts
<1>2. CASE ~ Table!is_new(x)
  BY <1>2, SameTables DEF Table!insert
<1>3. CASE Table!is_new(x)
  <2> DEFINE L == Len(scopes)
  <2>1. scopes' = [scopes EXCEPT ![L] = [scopes[L] EXCEPT ![x] = n]]
    BY <1>1, <1>3 DEF Table!insert
  <2>2. L \in DOMAIN scopes /\ scopes[L] \in [Name -> {NoNode} \cup DOMAIN ast.nodes]
    BY <1>1
  <2>3. scopes[L][x] = NoNode
    BY <1>3 DEF Table!is_new
  <2> HIDE DEF L
  <2>4. /\ DOMAIN scopes' = DOMAIN scopes
        /\ \A k \in DOMAIN scopes : \A y \in Name :
             scopes'[k][y] = IF k = L /\ y = x THEN n ELSE scopes[k][y]
    BY <2>1, <2>2
  <2>5. EntriesInv'
    <3> SUFFICES ASSUME NEW k \in DOMAIN scopes, NEW y \in Name, scopes'[k][y] # NoNode
                 PROVE  /\ at(scopes'[k][y]).kind \in Declaration
                        /\ at(scopes'[k][y]).name = y
                        /\ is_function(at(scopes'[k][y])) => InTop(ast, scopes'[k][y])
      BY <2>4 DEF EntriesInv, at
    <3>1. CASE k = L /\ y = x
      BY <2>4, <3>1
    <3>2. CASE ~ (k = L /\ y = x)
      BY <2>4, <3>2 DEF EntriesInv
    <3> QED BY <3>1, <3>2
  <2>6. TableStays
    BY <1>1, <2>3, <2>4 DEF TableStays
  <2>7. Len(scopes) = 1 => scopes'[1][x] = n
    BY <1>1, <2>4 DEF L
  <2> QED BY <2>5, <2>6, <2>7
<1> QED BY <1>2, <1>3

LEMMA NewTable ==
  ASSUME IInv, EntriesInv, Table!create_stack_frame, ast' = ast
  PROVE  EntriesInv' /\ TableStays
<1>1. /\ scopes \in Seq([Name -> {NoNode} \cup DOMAIN ast.nodes]) /\ Len(scopes) \in Nat \ {0}
  BY ScopesFacts
<1>2. scopes' = Append(scopes, Table!EmptyTable)
  BY DEF Table!create_stack_frame
<1> DEFINE L == Len(scopes)
<1>3. /\ DOMAIN scopes' = 1 .. L + 1 /\ 1 \in 1 .. L
      /\ scopes'[L + 1] = Table!EmptyTable
      /\ \A k \in 1 .. L : k \in DOMAIN scopes /\ scopes'[k] = scopes[k]
  BY <1>1, <1>2
<1>4. \A x \in Name : Table!EmptyTable[x] = NoNode
  BY DEF Table!EmptyTable
<1>5. \A k \in 1 .. L + 1 : k \in 1 .. L \/ k = L + 1
  BY <1>1
<1> HIDE DEF L
<1>6. EntriesInv'
  <2> SUFFICES ASSUME NEW k \in DOMAIN scopes', NEW y \in Name, scopes'[k][y] # NoNode
               PROVE  /\ at(scopes'[k][y]).kind \in Declaration
                      /\ at(scopes'[k][y]).name = y
                      /\ is_function(at(scopes'[k][y])) => InTop(ast, scopes'[k][y])
    BY DEF EntriesInv, at
  <2>1. k \in DOMAIN scopes /\ scopes'[k] = scopes[k]
    BY <1>3, <1>4, <1>5
  <2> QED BY <2>1 DEF EntriesInv
<1>7. TableStays
  BY <1>3 DEF TableStays
<1> QED BY <1>6, <1>7

-------------------------------------------------------------------------------
(* The result types. *)

\* Apart from one node, only literals are given another type.
Retypes(n) ==
    \A m \in DOMAIN ast.nodes :
      /\ m # n => \/ result_type'[m] = result_type[m]
                  \/ result_type[m] \in ConstType /\ result_type'[m] # NoType
      /\ result_type[m] # NoType => result_type'[m] # NoType

LEMMA FunctionType ==
  ASSUME IInv, NEW x, NEW f \in Functions(ast, x)
  PROVE  f \in DOMAIN ast.nodes /\ at(f).type # NoType /\ at(f).type \notin ConstType
<1>1. f \in DOMAIN ast.nodes /\ at(f).kind = "FunctionDeclaration"
  BY DEF Functions, is_function, at
<1>2. at(f).type \in DeclaredTypes(at(f).kind)
  BY <1>1 DEF IInv, IsAst, at
<1>3. at(f).type \in RefType \cup {UNDEF}
  BY <1>1, <1>2 DEF DeclaredTypes
<1> QED BY <1>1, <1>3
  DEF RefType, SizedInteger, UNDEF, CONST_INT, CONST_UINT, CONST_FLOAT, ConstType, NoType, INT, INT64, UINT,
      UINT64, FLOAT16, FLOAT64, BOOL

LEMMA TypesStep ==
  ASSUME IInv, CallsInv, LiteralsInv, ast' = ast, NEW n \in DOMAIN ast.nodes, Retypes(n),
         at(n).kind = "FunctionCall" =>
           \/ result_type'[n] = result_type[n]
           \/ \E f \in Functions(ast, at(n).name) : result_type'[n] = at(f).type
  PROVE  CallsInv' /\ LiteralsInv' /\ TypesStay
<1>1. TypesStay
  BY DEF Retypes, TypesStay
<1>2. LiteralsInv'
  BY <1>1 DEF LiteralsInv, TypesStay, at
<1>3. CallsInv'
  <2> SUFFICES ASSUME NEW m \in DOMAIN ast.nodes, at(m).kind = "FunctionCall"
               PROVE  \/ result_type'[m] = NoType
                      \/ \E f \in Functions(ast, at(m).name) : result_type'[m] = at(f).type
    BY DEF CallsInv, at
  <2>1. \/ result_type[m] = NoType
        \/ \E f \in Functions(ast, at(m).name) : result_type[m] = at(f).type
    BY DEF CallsInv
  <2>2. result_type[m] \notin ConstType
    BY <2>1, FunctionType DEF NoType, ConstType, CONST_INT, CONST_UINT, CONST_FLOAT
  <2>3. CASE m # n
    BY <2>1, <2>2, <2>3 DEF Retypes
  <2>4. CASE m = n
    BY <2>1, <2>4
  <2> QED BY <2>3, <2>4
<1> QED BY <1>1, <1>2, <1>3

LEMMA SameTypes ==
  ASSUME result_type' = result_type, NEW n
  PROVE  Retypes(n)
BY DEF Retypes

-------------------------------------------------------------------------------
(* A step that does the first item keeps the invariant. *)

LEMMA ErrorsEither ==
  ASSUME IInv, ast' = ast, NEW n, NEW message, errors' = errors \/ add_error(n, message)
  PROVE  ErrorsStay /\ (add_error(n, message) => errors' # << >>)
<1>1. errors \in Seq([node : DOMAIN ast.nodes, message : Message])
  BY DEF IInv, ErrorsInv
<1>2. add_error(n, message) => errors' # << >>
  BY <1>1 DEF add_error
<1> QED BY <1>2 DEF ErrorsStay

LEMMA AcceptStep ==
  ASSUME IInv, AcceptInv, Running, Current.todo # << >>, ast' = ast, round' = round,
         NEW items \in Seq(Item), NEW list, Works(items, list),
         NEW n \in DOMAIN ast.nodes, Retypes(n),
         at(n).kind = "FunctionCall" =>
           \/ result_type'[n] = result_type[n]
           \/ \E f \in Functions(ast, at(n).name) : result_type'[n] = at(f).type,
         EntriesInv', Registers, MayHold(items), ErrorsStay, GetsType(items), MayCheck(items),
         errors' = << >> => Does(items, list)
  PROVE  AcceptInv'
<1>1. /\ CallsInv /\ LiteralsInv /\ EntriesInv /\ HeldInv /\ RegisteredInv /\ ConditionsInv
      /\ (round > 0 /\ errors = << >>) => \E seen : SeenInv(seen)
  BY DEF AcceptInv
<1>2. CallsInv' /\ LiteralsInv' /\ TypesStay
  BY <1>1, TypesStep
<1>3. HeldInv'
  BY <1>1, HeldStep
<1>4. Keeps
  BY WorksPending
<1>5. RegisteredInv'
  BY <1>1, <1>4, RegisteredStep
<1>6. ConditionsInv'
  BY <1>1, <1>2, ConditionsStep
<1>7. (round' > 0 /\ errors' = << >>) => \E w : SeenInv(w)'
  <2> SUFFICES ASSUME round > 0, errors' = << >> PROVE \E w : SeenInv(w)'
    OBVIOUS
  <2>1. errors = << >>
    BY DEF ErrorsStay
  <2>2. PICK seen : SeenInv(seen)
    BY <1>1, <2>1
  <2> QED BY <2>2, SeenStep
<1> QED BY <1>2, <1>3, <1>5, <1>6, <1>7 DEF AcceptInv

\* The visitor touches no table and goes on in its frame.
LEMMA QuietAccept ==
  ASSUME IInv, AcceptInv, NEW what, Now(what), what # "register", KeepScope,
         NEW items \in Seq(Item), Then(items), Retypes(this),
         at(this).kind = "FunctionCall" =>
           \/ result_type'[this] = result_type[this]
           \/ \E f \in Functions(ast, at(this).name) : result_type'[this] = at(f).type,
         MayHold(items), ErrorsStay, GetsType(items), MayCheck(items),
         errors' = << >> => Does(items, << >>)
  PROVE  AcceptInv'
<1>1. /\ Running /\ Current.todo # << >> /\ Head(Current.todo).do = what
      /\ ast' = ast /\ round' = round /\ scopes' = scopes /\ this \in DOMAIN ast.nodes
  BY HeadFacts DEF Now, KeepScope, history
<1>2. Works(items, << >>)
  BY <1>1, ThenWorks
<1>3. EntriesInv' /\ Registers
  BY <1>1, SameTables DEF AcceptInv, Registers, TableStays
<1> QED BY <1>1, <1>2, <1>3, AcceptStep

LEMMA NothingLeft ==
  /\ MayHold(<< >>)
  /\ MayCheck(<< >>)
  /\ << >> \in Seq(Item)
BY DEF MayHold, MayCheck

LEMMA FailAccept ==
  ASSUME IInv, AcceptInv, NEW what, Now(what), what # "register", KeepScope, NEW message, Fail(message)
  PROVE  AcceptInv'
<1>1. /\ ast' = ast /\ result_type' = result_type /\ Then(<< >>) /\ add_error(this, message)
  BY DEF Fail, KeepScope
<1>2. ErrorsStay /\ errors' # << >>
  BY <1>1, ErrorsEither
<1>3. GetsType(<< >>)
  BY <1>2 DEF GetsType
<1>4. Retypes(this)
  BY <1>1, SameTypes
<1> QED BY <1>1, <1>2, <1>3, <1>4, NothingLeft, QuietAccept

\* It leaves items and changes nothing else.
LEMMA ItemsAccept ==
  ASSUME IInv, AcceptInv, NEW what, Now(what), what # "register", KeepScope,
         UNCHANGED << errors, result_type >>, NEW items \in Seq(Item), Then(items),
         MayHold(items), GetsType(items), MayCheck(items), Does(items, << >>)
  PROVE  AcceptInv'
<1>1. ErrorsStay /\ Retypes(this) /\ result_type' = result_type
  BY SameTypes DEF ErrorsStay
<1> QED BY <1>1, QuietAccept

\* What a visitor leaves to be done after its operands.
Afterwards == {<< "VariableDeclaration", "declare_variable" >>, << "VariableAssignment", "check_assignment" >>,
               << "BinaryOp", "type_binary_op" >>, << "UnaryOp", "type_unary_op" >>,
               << "FunctionReturn", "check_return" >>, << "If", "check_condition" >>}

LEMMA OperandItems ==
  ASSUME IInv, this \in DOMAIN ast.nodes, NEW item \in Item
  PROVE  LET ops == at(this).operands
             items == visits(ops) \o << item >>
         IN /\ DOMAIN items = 1 .. Len(ops) + 1 /\ Len(ops) \in Nat
            /\ items[Len(ops) + 1] = item
            /\ \A i \in 1 .. Len(ops) : items[i] = do("visit", ops[i])
            /\ DOMAIN ops = 1 .. Len(ops)
<1> DEFINE ops == at(this).operands
           first == visits(ops)
<1>1. ops \in Seq(Nat)
  BY AstFacts DEF IInv, AstNode
<1>2. /\ DOMAIN ops = 1 .. Len(ops) /\ Len(ops) \in Nat
      /\ first = [i \in 1 .. Len(ops) |-> do("visit", ops[i])]
  BY <1>1 DEF visits
<1>3. \A i \in 1 .. Len(ops) : do("visit", ops[i]) \in Item
  <2> TAKE i \in 1 .. Len(ops)
  <2>1. ops[i] \in Nat
    BY <1>1
  <2> QED BY <2>1 DEF do, Item, Todo, NoNode
<1>4. first \in Seq(Item) /\ Len(first) = Len(ops) /\ \A i \in 1 .. Len(ops) : first[i] = do("visit", ops[i])
  <2> HIDE DEF ops
  <2> QED BY <1>2, <1>3
<1> HIDE DEF first, ops
<1>5. /\ DOMAIN (first \o << item >>) = 1 .. Len(ops) + 1
      /\ (first \o << item >>)[Len(ops) + 1] = item
      /\ \A i \in 1 .. Len(ops) : (first \o << item >>)[i] = first[i]
  BY <1>2, <1>4
<1> QED BY <1>2, <1>4, <1>5 DEF first, ops

LEMMA LeavesAccept ==
  ASSUME IInv, AcceptInv, NEW kind, Visiting(kind), KeepScope, UNCHANGED << errors, result_type >>,
         NEW item \in Item, item.node = this, << kind, item.do >> \in Afterwards,
         Fits(ast, item), Then(visits(at(this).operands) \o << item >>)
  PROVE  AcceptInv'
<1> DEFINE ops == at(this).operands
           items == visits(ops) \o << item >>
<1>1. /\ Now("visit") /\ at(this).kind = kind /\ this \in DOMAIN ast.nodes
      /\ Head(Current.todo).do = "visit"
  BY HeadFacts DEF Visiting, Now
<1>2. kind \notin TopLevel /\ kind # "FunctionDeclaration" /\ kind # "FunctionCall"
  BY DEF Afterwards, TopLevel
<1>3. /\ items \in Seq(Item) /\ Len(frames) # 1
  <2>1. items \in Seq(ItemAt(ast, Len(frames)))
    BY <1>1, <1>2, InnerTodo
  <2> HIDE DEF items
  <2> QED BY <1>1, <1>2, <2>1, ItemSetsAreItems, InnerHead
<1>4. /\ DOMAIN items = 1 .. Len(ops) + 1 /\ Len(ops) \in Nat
      /\ items[Len(ops) + 1] = item
      /\ \A i \in 1 .. Len(ops) : items[i] = do("visit", ops[i])
      /\ DOMAIN ops = 1 .. Len(ops)
  BY <1>1, OperandItems
<1>5. Then(items)
  OBVIOUS
<1> HIDE DEF items
<1>6. Len(ops) + 1 \in DOMAIN items /\ Left(items, item.do, this)
  <2>1. Len(ops) + 1 \in DOMAIN items
    BY <1>4
  <2> QED BY <1>4, <2>1 DEF Left
<1>7. \A i \in DOMAIN ops : i \in DOMAIN items /\ Left(items, "visit", ops[i])
  <2> TAKE i \in DOMAIN ops
  <2>1. i \in DOMAIN items /\ items[i] = do("visit", ops[i])
    BY <1>4
  <2> QED BY <2>1 DEF Left, do
<1>8. \A j \in DOMAIN items : items[j].do = "visit" \/ (j = Len(ops) + 1 /\ items[j] = item)
  <2> TAKE j \in DOMAIN items
  <2>1. j \in 1 .. Len(ops) \/ j = Len(ops) + 1
    BY <1>4
  <2>2. CASE j \in 1 .. Len(ops)
    <3>1. items[j] = do("visit", ops[j])
      BY <1>4, <2>2
    <3> QED BY <3>1 DEF do
  <2> QED BY <1>4, <2>1, <2>2
<1>9. item.do \notin {"argument", "check_argument", "visit"}
  BY DEF Afterwards
<1>10. MayHold(items)
  BY <1>3, <1>8, <1>9 DEF MayHold
<1>11. GetsType(items)
  <2> SUFFICES ASSUME at(this).kind \in Expression
               PROVE  \E i \in DOMAIN items : Types(items[i], this)
    BY DEF GetsType
  <2>1. item.do \in Typing
    BY <1>1 DEF Afterwards, Expression, Literal, Typing
  <2> QED BY <1>4, <1>6, <2>1 DEF Types
<1>12. MayCheck(items)
  <2> SUFFICES ASSUME NEW j \in DOMAIN items, items[j].do = "check_condition"
               PROVE  \E i \in 1 .. j - 1 : Types(items[i], at(items[j].node).operands[1])
    BY DEF MayCheck
  <2>1. j = Len(ops) + 1 /\ items[j] = item
    BY <1>8
  <2>2. kind = "If"
    BY <2>1 DEF Afterwards
  <2>3. Len(ops) = 1
    BY <1>1, <2>2, AstFacts DEF Operands, IInv
  <2>4. items[1] = do("visit", ops[1]) /\ 1 \in 1 .. j - 1
    BY <1>4, <2>1, <2>3
  <2>5. Types(items[1], ops[1])
    BY <2>4 DEF Types, do, Typing
  <2> QED BY <2>1, <2>4, <2>5
<1>13. Does(items, << >>)
  <2>1. Visits(items, << >>)
    BY <1>1, <1>2, <1>6, <1>7 DEF Visits, Afterwards
  <2> QED BY <1>1, <2>1 DEF Does
<1> HIDE DEF ops
<1> QED BY <1>1, <1>3, <1>5, <1>10, <1>11, <1>12, <1>13, ItemsAccept

-------------------------------------------------------------------------------
(* The actions. *)

LEMMA OperatorsAccept ==
  ASSUME IInv, AcceptInv,
         \/ validate_variable_declaration \/ validate_binary_op \/ validate_unary_op
         \/ validate_function_return \/ validate_if
  PROVE  AcceptInv'
<1>1. ASSUME NEW kind, NEW next, Visiting(kind), << kind, next >> \in Afterwards,
             KeepScope, UNCHANGED << errors, result_type >>,
             Then(visits(at(this).operands) \o << do(next, this) >>)
      PROVE  AcceptInv'
  <2>1. Now("visit") /\ at(this).kind = kind /\ next \in Todo
    BY <1>1 DEF Visiting, Afterwards, Todo
  <2>2. do(next, this) \in Item
    BY <2>1, ItemType DEF do
  <2>3. do(next, this).do = next /\ do(next, this).node = this
    BY DEF do
  <2> DEFINE item == do(next, this)
  <2>4. CASE next \notin {"check_assignment"}
    <3>1. Fits(ast, item)
      BY <1>1, <2>1, <2>3, <2>4 DEF Fits, Afterwards, TopLevel, at
    <3> HIDE DEF item
    <3>2. item \in Item /\ item.node = this /\ << kind, item.do >> \in Afterwards
      BY <1>1, <2>2, <2>3 DEF item
    <3>3. Then(visits(at(this).operands) \o << item >>)
      BY <1>1 DEF item
    <3> QED BY <1>1, <3>1, <3>2, <3>3, LeavesAccept
  <2>5. CASE next = "check_assignment"
    <3>1. kind = "VariableAssignment"
      BY <1>1, <2>5 DEF Afterwards
    <3> QED BY <1>1, <2>1, <3>1
         DEF validate_variable_declaration, validate_binary_op, validate_unary_op,
             validate_function_return, validate_if, Visiting
  <2> QED BY <2>4, <2>5
<1>2. CASE validate_variable_declaration
  BY <1>1, <1>2 DEF validate_variable_declaration, Afterwards
<1>3. CASE validate_binary_op
  BY <1>1, <1>3 DEF validate_binary_op, Afterwards
<1>4. CASE validate_unary_op
  BY <1>1, <1>4 DEF validate_unary_op, Afterwards
<1>5. CASE validate_function_return
  BY <1>1, <1>5 DEF validate_function_return, Afterwards
<1>6. CASE validate_if
  BY <1>1, <1>6 DEF validate_if, Afterwards
<1> QED BY <1>2, <1>3, <1>4, <1>5, <1>6

LEMMA validate_variable_assignmentAccepts ==
  ASSUME IInv, AcceptInv, validate_variable_assignment
  PROVE  AcceptInv'
<1> DEFINE found == Table!lookup(at(this).name)
           check == [do |-> "check_assignment", node |-> this, entry |-> found]
<1>1. /\ Visiting("VariableAssignment") /\ Now("visit") /\ at(this).kind = "VariableAssignment" /\ KeepScope
      /\ \/ found = NoNode /\ Fail("not found")
         \/ /\ found # NoNode /\ Then(visits(at(this).operands) \o << check >>)
            /\ UNCHANGED << errors, result_type >>
  BY DEF validate_variable_assignment, Visiting
<1>2. found \in {NoNode} \cup DOMAIN ast.nodes /\ at(this).kind \notin TopLevel
  BY LooksUp DEF validate_variable_assignment
<1>3. check \in Item
  BY <1>1, <1>2, ItemType DEF Todo
<1>4. CASE found = NoNode /\ Fail("not found")
  BY <1>1, <1>4, FailAccept
<1>5. CASE /\ found # NoNode /\ Then(visits(at(this).operands) \o << check >>)
           /\ UNCHANGED << errors, result_type >>
  <2>1. Fits(ast, check)
    BY <1>1, <1>2, <1>5 DEF Fits, at
  <2>2. check.node = this /\ << "VariableAssignment", check.do >> \in Afterwards
    BY DEF Afterwards
  <2> HIDE DEF check
  <2> QED BY <1>1, <1>3, <1>5, <2>1, <2>2, LeavesAccept
<1> QED BY <1>1, <1>4, <1>5

\* A declaration is inserted into the current table.
LEMMA DeclareAccept ==
  ASSUME IInv, AcceptInv, NEW what, Now(what), NEW message, insert_or_fail(this, message),
         at(this).kind \in Declaration,
         is_function(at(this)) => Len(frames) = 1,
         what \in {"visit", "register", "declare_variable"},
         what = "visit" => at(this).kind \in {"ConstantDeclaration", "Argument"}
  PROVE  AcceptInv'
<1>1. /\ Running /\ Current.todo # << >> /\ Head(Current.todo).do = what
      /\ this \in DOMAIN ast.nodes /\ Len(frames) \in DOMAIN frames
  BY HeadFacts DEF Now
<1>2. /\ ast' = ast /\ round' = round /\ result_type' = result_type /\ Then(<< >>)
      /\ Table!insert(at(this).name, this)
      /\ IF Table!is_new(at(this).name) THEN errors' = errors ELSE add_error(this, message)
  BY DEF insert_or_fail, history
<1>3. at(this).name \in Name
  BY <1>1, AstFacts DEF IInv, Named
<1>4. is_function(at(this)) => InTop(ast, this)
  <2>1. Head(Current.todo) = frames[Len(frames)].todo[1] /\ 1 \in DOMAIN frames[Len(frames)].todo
    <3>1. frames[Len(frames)] \in Frame
      BY <1>1 DEF IInv, FramesInv
    <3> QED BY <1>1, <3>1 DEF Current, Frame
  <2> QED BY <1>1, <2>1 DEF AcceptInv, HeldInv, this
<1>5. Works(<< >>, << >>)
  BY <1>1, <1>2, NothingLeft, ThenWorks
<1>6. ErrorsStay /\ (add_error(this, message) => errors' # << >>)
  BY <1>2, ErrorsEither
<1>7. EntriesInv' /\ TableStays /\ ((Table!is_new(at(this).name) /\ Len(scopes) = 1) => scopes'[1][at(this).name] = this)
  BY <1>1, <1>2, <1>3, <1>4, InsertEntry DEF AcceptInv
<1>8. Registers
  BY <1>1, <1>2, <1>6, <1>7, RunningScopes DEF Registers, TableStays
<1>9. GetsType(<< >>)
  BY DEF GetsType, Expression, Literal, Declaration
<1>10. Does(<< >>, << >>)
  <2>1. CASE what = "visit"
    <3>1. \A i \in DOMAIN at(this).operands : at(at(this).operands[i]).kind \in Literal
      <4>1. CASE at(this).kind = "ConstantDeclaration"
        <5>1. at(this).operands \in Seq({m \in 1 .. this - 1 : ast.nodes[m].kind \in Literal})
          BY <1>1, <4>1 DEF IInv, IsAst, at
        <5> QED BY <5>1 DEF at
      <4>2. CASE at(this).kind = "Argument"
        <5>1. Len(at(this).operands) = 0 /\ at(this).operands \in Seq(Nat)
          BY <1>1, <4>2, AstFacts DEF IInv, Operands, AstNode
        <5> QED BY <5>1
      <4> QED BY <2>1, <4>1, <4>2
    <3> QED BY <1>1, <2>1, <3>1 DEF Does, Visits
  <2>2. CASE what # "visit"
    BY <1>1, <2>2 DEF Does
  <2> QED BY <2>1, <2>2
<1>11. Retypes(this)
  BY <1>2, SameTypes
<1> QED BY <1>1, <1>2, <1>5, <1>6, <1>7, <1>8, <1>9, <1>10, <1>11, NothingLeft, AcceptStep

LEMMA DeclarationsAccept ==
  ASSUME IInv, AcceptInv,
         validate_constant_declaration \/ validate_argument \/ declare_variable
  PROVE  AcceptInv'
<1>1. CASE validate_constant_declaration
  BY <1>1, DeclareAccept DEF validate_constant_declaration, Visiting, Declaration, is_function
<1>2. CASE validate_argument
  BY <1>2, DeclareAccept DEF validate_argument, Visiting, Declaration, is_function
<1>3. CASE declare_variable
  <2>1. Now("declare_variable")
    BY <1>3 DEF declare_variable
  <2>2. at(this).kind = "VariableDeclaration"
    BY <2>1, InnerHead DEF Fits, at, this, Now
  <2> QED BY <1>3, <2>1, <2>2, DeclareAccept DEF declare_variable, Declaration, is_function
<1> QED BY <1>1, <1>2, <1>3

LEMMA register_functionAccepts ==
  ASSUME IInv, AcceptInv, register_function
  PROVE  AcceptInv'
<1>1. /\ Now("register") /\ Running /\ Current.todo # << >> /\ Head(Current.todo).do = "register"
      /\ this \in DOMAIN ast.nodes
  BY HeadFacts DEF register_function, Now
<1>2. Len(frames) = 1 /\ at(this).kind \in TopLevel
  BY <1>1, HeadFacts DEF Fits
<1>3. CASE is_function(at(this)) /\ insert_or_fail(this, "already defined")
  BY <1>1, <1>2, <1>3, DeclareAccept DEF is_function, Declaration
<1>4. CASE /\ ~ is_function(at(this)) /\ Then(<< >>) /\ KeepScope
           /\ UNCHANGED << errors, result_type, resolved >>
  <2>1. /\ ast' = ast /\ round' = round /\ scopes' = scopes /\ errors' = errors /\ result_type' = result_type
    BY <1>4 DEF KeepScope, history
  <2>2. Works(<< >>, << >>)
    BY <1>1, <1>4, NothingLeft, ThenWorks
  <2>3. EntriesInv' /\ TableStays
    BY <2>1, SameTables DEF AcceptInv
  <2>4. Registers
    BY <1>4, <2>3 DEF Registers, TableStays
  <2>5. GetsType(<< >>) /\ Does(<< >>, << >>) /\ ErrorsStay
    BY <1>1, <2>1 DEF GetsType, Typing, Does, ErrorsStay
  <2>6. Retypes(this)
    BY <2>1, SameTypes
  <2> QED BY <1>1, <2>1, <2>2, <2>3, <2>4, <2>5, <2>6, NothingLeft, AcceptStep
<1> QED BY <1>3, <1>4 DEF register_function

LEMMA validate_literalAccepts ==
  ASSUME IInv, AcceptInv, validate_literal
  PROVE  AcceptInv'
<1>1. /\ Now("visit") /\ at(this).kind \in Literal /\ KeepScope /\ Then(<< >>)
      /\ UNCHANGED << errors, result_type >>
      /\ this \in DOMAIN ast.nodes /\ Head(Current.todo).do = "visit"
  BY HeadFacts DEF validate_literal, Now
<1>2. GetsType(<< >>)
  BY <1>1 DEF GetsType, AcceptInv, LiteralsInv
<1>3. Does(<< >>, << >>)
  <2>1. at(this).operands \in Seq(Nat) /\ Len(at(this).operands) = 0
    BY <1>1, AstFacts DEF IInv, AstNode, Operands, Literal
  <2>2. DOMAIN at(this).operands = {}
    BY <2>1
  <2> QED BY <1>1, <2>2 DEF Does, Visits, Literal
<1> QED BY <1>1, <1>2, <1>3, NothingLeft, ItemsAccept

\* An operand with a type other than void has a value.
LEMMA TypedHasNumber ==
  ASSUME AcceptInv, NEW n \in DOMAIN ast.nodes, result_type[n] \notin {NoType, UNDEF}
  PROVE  HasNumber(ast, n)
BY DEF AcceptInv, CallsInv, HasNumber, at

LEMMA BinaryTypes ==
  ASSUME NEW op, NEW left \in ResultType, NEW right \in ResultType, NoType \notin {left, right},
         binary_result(op, left, right) # UNDEF
  PROVE  /\ UNDEF \notin {left, right}
         /\ binary_result(op, left, right) # NoType
         /\ NoType # operand_types(op, left, right, binary_result(op, left, right))[1]
         /\ NoType # operand_types(op, left, right, binary_result(op, left, right))[2]
<1>1. UNDEF \notin {left, right} /\ binary_result(op, left, right) # NoType
  <2>1. CASE op \in Arithmetic
    <3>1. binary_result(op, left, right) = convert_arithmetic_types(left, right)
      BY <2>1 DEF binary_result
    <3> QED BY <3>1 DEF convert_arithmetic_types, same_family, is_signed_int, is_unsigned_int, is_float,
                        UNDEF, NoType, CONST_INT, INT64, CONST_UINT, UINT64, CONST_FLOAT, FLOAT64
  <2>2. CASE op \notin Arithmetic
    <3>1. /\ \/ op \in Comparison /\ is_numeric_comparison_compatible(left, right)
             \/ op \in Logical /\ left = BOOL /\ right = BOOL
          /\ binary_result(op, left, right) = BOOL
      BY <2>2 DEF binary_result
    <3> QED BY <3>1 DEF is_numeric_comparison_compatible, BOOL, UNDEF, NoType
  <2> QED BY <2>1, <2>2
<1> DEFINE result == binary_result(op, left, right)
<1>2. result # NoType
  BY <1>1
<1> HIDE DEF result
<1> QED BY <1>1, <1>2 DEF operand_types, result

LEMMA SetConstTypes ==
  ASSUME NEW types, NEW n \in DOMAIN types, NEW type, type # NoType, NEW m \in DOMAIN types
  PROVE  LET new == set_type_on_const(types, n, type) IN
         /\ DOMAIN new = DOMAIN types
         /\ new[m] = types[m] \/ (types[m] \in ConstType /\ new[m] # NoType)
BY DEF set_type_on_const

LEMMA type_binary_opAccepts ==
  ASSUME IInv, AcceptInv, type_binary_op
  PROVE  AcceptInv'
<1> DEFINE l == at(this).operands[1]
           r == at(this).operands[2]
           left == result_type[l]
           right == result_type[r]
           result == binary_result(at(this).op, left, right)
           asked == operand_types(at(this).op, left, right, result)
           typed == [result_type EXCEPT ![this] = result]
           once == set_type_on_const(typed, l, asked[1])
<1>1. /\ Now("type_binary_op") /\ KeepScope
      /\ \/ Fail("invalid operand types") \/ Fail("incompatible types")
         \/ /\ NoType \notin {left, right} /\ result # UNDEF
            /\ result_type' = set_type_on_const(once, r, asked[2])
            /\ Then(<< >>) /\ UNCHANGED errors
  BY DEF type_binary_op
<1>2. this \in DOMAIN ast.nodes /\ at(this).kind = "BinaryOp" /\ Head(Current.todo).do = "type_binary_op"
  BY <1>1, HeadFits DEF Todo
<1>3. l \in DOMAIN ast.nodes /\ r \in DOMAIN ast.nodes
  BY <1>2, OperandOf
<1>4. CASE Fail("invalid operand types") \/ Fail("incompatible types")
  BY <1>1, <1>4, FailAccept
<1>5. CASE /\ NoType \notin {left, right} /\ result # UNDEF
           /\ result_type' = set_type_on_const(once, r, asked[2])
           /\ Then(<< >>) /\ UNCHANGED errors
  <2>1. result_type \in [DOMAIN ast.nodes -> ResultType] /\ left \in ResultType /\ right \in ResultType
    BY <1>3 DEF IInv, TypesInv
  <2>2. UNDEF \notin {left, right} /\ result # NoType /\ asked[1] # NoType /\ asked[2] # NoType
    <3> HIDE DEF l, r, left, right
    <3> QED BY <1>5, <2>1, BinaryTypes
  <2>3. HasNumber(ast, l) /\ HasNumber(ast, r)
    BY <1>3, <1>5, <2>2, TypedHasNumber
  <2>4. \A i \in DOMAIN at(this).operands : HasNumber(ast, at(this).operands[i])
    <3>1. Len(at(this).operands) = 2 /\ at(this).operands \in Seq(Nat)
      BY <1>2, AstFacts DEF IInv, Operands, AstNode
    <3>2. DOMAIN at(this).operands = {1, 2}
      BY <3>1
    <3> QED BY <2>3, <3>2
  <2> HIDE DEF l, r, left, right, result, asked
  <2>5. /\ DOMAIN typed = DOMAIN ast.nodes
        /\ \A m \in DOMAIN ast.nodes : typed[m] = IF m = this THEN result ELSE result_type[m]
    BY <1>2, <2>1
  <2> HIDE DEF typed
  <2>6. /\ DOMAIN once = DOMAIN ast.nodes
        /\ \A m \in DOMAIN ast.nodes : \/ once[m] = typed[m]
                                       \/ typed[m] \in ConstType /\ once[m] # NoType
    BY <1>3, <2>2, <2>5, SetConstTypes
  <2> HIDE DEF once
  <2>7. \A m \in DOMAIN ast.nodes : \/ result_type'[m] = once[m]
                                    \/ once[m] \in ConstType /\ result_type'[m] # NoType
    BY <1>3, <1>5, <2>2, <2>6, SetConstTypes
  <2>8. ASSUME NEW m \in DOMAIN ast.nodes
        PROVE  /\ m # this => \/ result_type'[m] = result_type[m]
                              \/ result_type[m] \in ConstType /\ result_type'[m] # NoType
               /\ result_type[m] # NoType => result_type'[m] # NoType
               /\ m = this => result_type'[m] # NoType
    <3>1. CASE once[m] = typed[m]
      BY <2>2, <2>5, <2>7, <3>1 DEF NoType, ConstType, CONST_INT, CONST_UINT, CONST_FLOAT
    <3>2. CASE typed[m] \in ConstType /\ once[m] # NoType
      BY <2>2, <2>5, <2>7, <3>2 DEF NoType, ConstType, CONST_INT, CONST_UINT, CONST_FLOAT
    <3> QED BY <2>6, <3>1, <3>2
  <2>9. Retypes(this)
    BY <2>8 DEF Retypes
  <2>10. GetsType(<< >>)
    BY <1>2, <2>8 DEF GetsType
  <2>11. Does(<< >>, << >>)
    BY <1>2, <2>4 DEF Does, OperandsAreNumbers
  <2>12. ErrorsStay
    BY <1>5 DEF ErrorsStay
  <2> QED BY <1>1, <1>2, <1>5, <2>9, <2>10, <2>11, <2>12, NothingLeft, QuietAccept
<1> QED BY <1>1, <1>4, <1>5

LEMMA type_unary_opAccepts ==
  ASSUME IInv, AcceptInv, type_unary_op
  PROVE  AcceptInv'
<1> DEFINE o == at(this).operands[1]
           type == result_type[o]
<1>1. /\ Now("type_unary_op") /\ KeepScope
      /\ \/ Fail("invalid operand types") \/ Fail("incompatible types")
         \/ /\ type # NoType /\ (is_numeric(type) \/ type = BOOL)
            /\ result_type' = [result_type EXCEPT ![this] = type]
            /\ Then(<< >>) /\ UNCHANGED errors
  BY DEF type_unary_op
<1>2. this \in DOMAIN ast.nodes /\ at(this).kind = "UnaryOp" /\ Head(Current.todo).do = "type_unary_op"
  BY <1>1, HeadFits DEF Todo
<1>3. o \in DOMAIN ast.nodes
  BY <1>2, OperandOf
<1>4. CASE Fail("invalid operand types") \/ Fail("incompatible types")
  BY <1>1, <1>4, FailAccept
<1>5. CASE /\ type # NoType /\ (is_numeric(type) \/ type = BOOL)
           /\ result_type' = [result_type EXCEPT ![this] = type]
           /\ Then(<< >>) /\ UNCHANGED errors
  <2>1. result_type \in [DOMAIN ast.nodes -> ResultType]
    BY DEF IInv, TypesInv
  <2>2. type # UNDEF
    <3> SUFFICES ASSUME type = UNDEF PROVE FALSE
      OBVIOUS
    <3>1. type # BOOL
      BY DEF UNDEF, BOOL
    <3>2. is_numeric(UNDEF)
      BY <1>5, <3>1
    <3> QED
      BY <3>2 DEF is_numeric, is_signed_int, is_unsigned_int, is_float, UNDEF, CONST_INT, INT64,
                  CONST_UINT, UINT64, CONST_FLOAT, FLOAT64
  <2>3. HasNumber(ast, o)
    BY <1>3, <1>5, <2>2, TypedHasNumber
  <2>4. \A i \in DOMAIN at(this).operands : HasNumber(ast, at(this).operands[i])
    <3>1. Len(at(this).operands) = 1 /\ at(this).operands \in Seq(Nat)
      BY <1>2, AstFacts DEF IInv, Operands, AstNode
    <3>2. DOMAIN at(this).operands = {1}
      BY <3>1
    <3> QED BY <2>3, <3>2
  <2> HIDE DEF type, o
  <2>5. Retypes(this) /\ result_type'[this] # NoType
    BY <1>2, <1>5, <2>1 DEF Retypes
  <2>6. GetsType(<< >>) /\ Does(<< >>, << >>) /\ ErrorsStay
    BY <1>2, <1>5, <2>4, <2>5 DEF GetsType, Does, OperandsAreNumbers, ErrorsStay
  <2> QED BY <1>1, <1>2, <1>5, <2>5, <2>6, NothingLeft, QuietAccept
<1> QED BY <1>1, <1>4, <1>5

\* The constant initial value of a constant has a type.
LEMMA EntryTyped ==
  ASSUME IInv, NEW entry \in DOMAIN ast.nodes, at(entry).kind \in Declaration
  PROVE  entry_type(entry) # NoType
<1>1. CASE at(entry).kind = "ConstantDeclaration"
  <2>1. /\ at(entry).operands \in Seq({m \in 1 .. entry - 1 : ast.nodes[m].kind \in Literal})
        /\ Len(at(entry).operands) = 1
    BY <1>1, AstFacts DEF IInv, IsAst, at, Operands
  <2>2. at(at(entry).operands[1]).kind \in Literal
    BY <2>1 DEF at
  <2> QED BY <1>1, <2>2 DEF entry_type, initial_type, Literal, NoType, CONST_INT, CONST_UINT, CONST_FLOAT, BOOL
<1>2. CASE at(entry).kind # "ConstantDeclaration"
  <2>1. at(entry).type \in DeclaredTypes(at(entry).kind)
    BY DEF IInv, IsAst, at
  <2>2. at(entry).type \in RefType \cup {UNDEF}
    BY <1>2, <2>1 DEF DeclaredTypes, Declaration
  <2> QED BY <1>2, <2>2
        DEF entry_type, RefType, SizedInteger, UNDEF, NoType, INT, INT64, UINT, UINT64, FLOAT16, FLOAT64, BOOL
<1> QED BY <1>1, <1>2

\* A name that is found means a declaration with this name.
LEMMA FindsEntry ==
  ASSUME IInv, AcceptInv, NEW x \in Name, Table!lookup(x) # NoNode
  PROVE  /\ at(Table!lookup(x)).kind \in Declaration
         /\ at(Table!lookup(x)).name = x
         /\ is_function(at(Table!lookup(x))) => InTop(ast, Table!lookup(x))
<1> DEFINE L == Len(scopes)
<1>1. /\ scopes \in Seq([Name -> {NoNode} \cup DOMAIN ast.nodes])
      /\ L \in Nat \ {0} /\ L \in DOMAIN scopes
  BY ScopesFacts
<1>2. Table!lookup(x) = IF Table!holders(L, x) = {} THEN NoNode
                        ELSE scopes[Table!Max(Table!holders(L, x))][x]
  BY DEF Table!lookup, Table!lookup_from
<1>3. Table!holders(L, x) # {}
  BY <1>2
<1>4. Table!Max(Table!holders(L, x)) \in DOMAIN scopes
  <2>1. TableProofs!Inv
    BY DEF IInv, ScopesInv
  <2>2. Table!holders(L, x) = TableProofs!holders(L, x)
    BY DEF Table!holders, TableProofs!holders
  <2>3. TableProofs!Max(TableProofs!holders(L, x)) \in 1 .. L
    BY <1>1, <1>3, <2>1, <2>2, TableAssumption, TableProofs!LookupFromLast
  <2> QED BY <1>1, <2>2, <2>3 DEF Table!Max, TableProofs!Max
<1> QED BY <1>2, <1>3, <1>4 DEF AcceptInv, EntriesInv

LEMMA NoOperands ==
  ASSUME IInv, NEW n \in DOMAIN ast.nodes, Operands(at(n).kind) = {0}
  PROVE  DOMAIN at(n).operands = {}
<1>1. at(n).operands \in Seq(Nat) /\ Len(at(n).operands) = 0
  BY AstFacts DEF IInv, AstNode
<1> QED BY <1>1

LEMMA Retyped ==
  ASSUME IInv, this \in DOMAIN ast.nodes, NEW type, type # NoType,
         result_type' = [result_type EXCEPT ![this] = type]
  PROVE  Retypes(this) /\ result_type'[this] = type
<1>1. result_type \in [DOMAIN ast.nodes -> ResultType]
  BY DEF IInv, TypesInv
<1> QED BY <1>1 DEF Retypes

LEMMA validate_variable_lookupAccepts ==
  ASSUME IInv, AcceptInv, validate_variable_lookup
  PROVE  AcceptInv'
<1> DEFINE found == Table!lookup(at(this).name)
<1>1. /\ Now("visit") /\ at(this).kind = "VariableLookup" /\ KeepScope
      /\ \/ Fail("not found")
         \/ Fail("incompatible element found")
         \/ /\ found # NoNode
            /\ result_type' = [result_type EXCEPT ![this] = entry_type(found)]
            /\ Then(<< >>) /\ UNCHANGED errors
  BY DEF validate_variable_lookup, Visiting
<1>2. /\ this \in DOMAIN ast.nodes /\ found \in {NoNode} \cup DOMAIN ast.nodes
      /\ Head(Current.todo).do = "visit"
  BY <1>1, LooksUp DEF validate_variable_lookup, Now
<1>3. CASE Fail("not found") \/ Fail("incompatible element found")
  BY <1>1, <1>3, FailAccept
<1>4. CASE /\ found # NoNode
           /\ result_type' = [result_type EXCEPT ![this] = entry_type(found)]
           /\ Then(<< >>) /\ UNCHANGED errors
  <2>1. at(this).name \in Name
    BY <1>1, <1>2, AstFacts DEF IInv, Named
  <2>2. at(found).kind \in Declaration /\ found \in DOMAIN ast.nodes
    BY <1>2, <1>4, <2>1, FindsEntry
  <2> HIDE DEF found
  <2>3. entry_type(found) # NoType
    BY <2>2, EntryTyped
  <2>4. Retypes(this) /\ result_type'[this] # NoType
    BY <1>2, <1>4, <2>3, Retyped
  <2>5. GetsType(<< >>) /\ ErrorsStay
    BY <1>4, <2>4 DEF GetsType, ErrorsStay
  <2>6. DOMAIN at(this).operands = {}
    BY <1>1, <1>2, NoOperands DEF Operands
  <2>7. Does(<< >>, << >>)
    BY <1>1, <1>2, <2>6 DEF Does, Visits
  <2> QED BY <1>1, <1>4, <2>4, <2>5, <2>7, NothingLeft, QuietAccept
<1> QED BY <1>1, <1>3, <1>4

LEMMA validate_function_callAccepts ==
  ASSUME IInv, AcceptInv, validate_function_call
  PROVE  AcceptInv'
<1> DEFINE found == Table!lookup(at(this).name)
           args == at(this).operands
           params == at(found).params
           items == [i \in DOMAIN args |-> [do |-> "argument", node |-> args[i], entry |-> params[i]]]
<1>1. /\ Now("visit") /\ at(this).kind = "FunctionCall" /\ KeepScope
      /\ \/ Fail("not found")
         \/ Fail("is not a function")
         \/ /\ found # NoNode /\ is_function(at(found))
            /\ result_type' = [result_type EXCEPT ![this] = at(found).type]
            /\ \/ /\ Len(args) # Len(params)
                  /\ add_error(this, "wrong argument count") /\ Then(<< >>)
               \/ /\ Len(args) = Len(params)
                  /\ Then(items) /\ UNCHANGED errors
  BY DEF validate_function_call, Visiting
<1>2. /\ this \in DOMAIN ast.nodes /\ found \in {NoNode} \cup DOMAIN ast.nodes
      /\ at(this).kind \notin TopLevel /\ Head(Current.todo).do = "visit"
  BY <1>1, LooksUp DEF validate_function_call, Now
<1>3. CASE Fail("not found") \/ Fail("is not a function")
  BY <1>1, <1>3, FailAccept
<1>4. CASE /\ found # NoNode /\ is_function(at(found))
           /\ result_type' = [result_type EXCEPT ![this] = at(found).type]
           /\ \/ /\ Len(args) # Len(params)
                 /\ add_error(this, "wrong argument count") /\ Then(<< >>)
              \/ /\ Len(args) = Len(params)
                 /\ Then(items) /\ UNCHANGED errors
  <2>1. at(this).name \in Name /\ ast' = ast
    BY <1>1, <1>2, AstFacts DEF IInv, Named, KeepScope
  <2>2. found \in DOMAIN ast.nodes /\ found \in Functions(ast, at(this).name)
    BY <1>2, <1>4, <2>1, FindsEntry DEF Functions, at
  <2> HIDE DEF found
  <2>3. at(found).type # NoType
    BY <2>2, FunctionType
  <2>4. Retypes(this) /\ result_type'[this] = at(found).type
    BY <1>2, <1>4, <2>3, Retyped
  <2>5. \E f \in Functions(ast, at(this).name) : result_type'[this] = at(f).type
    BY <2>2, <2>4
  <2>6. CASE add_error(this, "wrong argument count") /\ Then(<< >>)
    <3>1. ErrorsStay /\ errors' # << >>
      BY <2>1, <2>6, ErrorsEither
    <3>2. GetsType(<< >>)
      BY <3>1 DEF GetsType
    <3> QED BY <1>1, <2>4, <2>5, <2>6, <3>1, <3>2, NothingLeft, QuietAccept
  <2>7. CASE Len(args) = Len(params) /\ Then(items) /\ UNCHANGED errors
    <3>1. /\ args \in Seq(Nat) /\ params \in Seq(Nat)
          /\ DOMAIN args = 1 .. Len(args) /\ Len(args) \in Nat /\ DOMAIN params = 1 .. Len(params)
      BY <1>2, <2>2, AstFacts DEF IInv, AstNode
    <3>2. \A i \in DOMAIN params : at(params[i]).kind = "Argument"
      BY <2>2, AstFacts DEF IInv
    <3> HIDE DEF args, params
    <3>3. /\ DOMAIN items = DOMAIN args
          /\ \A i \in DOMAIN args : items[i] = [do |-> "argument", node |-> args[i], entry |-> params[i]]
      OBVIOUS
    <3>4. \A i \in DOMAIN args : items[i] \in Item
      <4> TAKE i \in DOMAIN args
      <4>1. args[i] \in Nat /\ params[i] \in Nat
        BY <2>7, <3>1
      <4> QED BY <3>3, <4>1 DEF Item, Todo
    <3>5. items \in Seq(Item)
      <4>1. items = [i \in 1 .. Len(args) |-> items[i]]
        BY <3>1
      <4> HIDE DEF items
      <4>2. \A i \in 1 .. Len(args) : items[i] \in Item
        BY <3>1, <3>4
      <4> QED BY <3>1, <4>1, <4>2
    <3>6. Len(frames) # 1
      BY <1>1, <1>2, InnerHead
    <3>7. Then(items) /\ errors' = errors
      BY <2>7
    <3> HIDE DEF items
    <3>8. MayHold(items) /\ MayCheck(items)
      BY <2>7, <3>1, <3>2, <3>3, <3>6 DEF MayHold, MayCheck
    <3>9. GetsType(items) /\ ErrorsStay
      BY <2>3, <2>4, <3>7 DEF GetsType, ErrorsStay
    <3>10. \A i \in DOMAIN args : Left(items, "argument", args[i])
      BY <3>3 DEF Left
    <3>11. Does(items, << >>)
      <4>1. \E f \in Functions(ast, at(this).name) : Len(at(f).params) = Len(at(this).operands)
        BY <2>2, <2>7 DEF args, params
      <4>2. \A i \in DOMAIN at(this).operands : Left(items, "argument", at(this).operands[i])
        BY <3>10 DEF args
      <4> QED BY <1>1, <1>2, <4>1, <4>2 DEF Does, Visits
    <3> QED BY <1>1, <2>4, <2>5, <3>5, <3>7, <3>8, <3>9, <3>11, QuietAccept
  <2> QED BY <1>4, <2>6, <2>7
<1> QED BY <1>1, <1>3, <1>4

\* What the first item holds.
LEMMA HeldHead ==
  ASSUME IInv, AcceptInv, NEW what, Now(what)
  PROVE  /\ what \in {"argument", "check_argument"} => at(held_entry).kind = "Argument"
         /\ (what = "check_condition" /\ errors = << >>) => result_type[at(this).operands[1]] # NoType
<1>1. Running /\ Current.todo # << >> /\ Len(frames) \in DOMAIN frames /\ Head(Current.todo).do = what
  BY HeadFacts DEF Now
<1>2. Head(Current.todo) = frames[Len(frames)].todo[1] /\ 1 \in DOMAIN frames[Len(frames)].todo
  <2>1. frames[Len(frames)] \in Frame
    BY <1>1 DEF IInv, FramesInv
  <2> QED BY <1>1, <2>1 DEF Current, Frame
<1>3. what \in {"argument", "check_argument"} => at(held_entry).kind = "Argument"
  BY <1>1, <1>2 DEF AcceptInv, HeldInv, held_entry
<1>4. ASSUME what = "check_condition", errors = << >>
      PROVE  result_type[at(this).operands[1]] # NoType
  <2>1. \/ result_type[at(this).operands[1]] # NoType
        \/ \E i \in 1 .. 1 - 1 : Types(frames[Len(frames)].todo[i], at(this).operands[1])
    BY <1>1, <1>2, <1>4 DEF AcceptInv, ConditionsInv, this
  <2>2. 1 .. 1 - 1 = {}
    OBVIOUS
  <2> QED BY <2>1, <2>2
<1> QED BY <1>3, <1>4

LEMMA validate_call_argumentAccepts ==
  ASSUME IInv, AcceptInv, validate_call_argument
  PROVE  AcceptInv'
<1> DEFINE check == [do |-> "check_argument", node |-> this, entry |-> held_entry]
           items == << do("visit", this), check >>
<1>1. /\ Now("argument") /\ KeepScope /\ UNCHANGED << errors, result_type >> /\ Then(items)
  BY DEF validate_call_argument
<1>2. Len(frames) # 1 /\ Fits(ast, Head(Current.todo)) /\ Head(Current.todo).do = "argument"
  BY <1>1, InnerHead DEF Now
<1>3. held_entry \in DOMAIN ast.nodes
  BY <1>2 DEF Fits, held_entry
<1>4. do("visit", this) \in Item /\ check \in Item
  BY <1>1, <1>3, ItemType DEF do, Todo
<1>5. at(held_entry).kind = "Argument"
  BY <1>1, HeldHead
<1>6. /\ DOMAIN items = {1, 2} /\ items[1] = do("visit", this) /\ items[2] = check /\ items \in Seq(Item)
  BY <1>4
<1> HIDE DEF items
<1>7. MayHold(items) /\ MayCheck(items)
  BY <1>2, <1>5, <1>6 DEF MayHold, MayCheck, do
<1>8. GetsType(items)
  BY <1>2 DEF GetsType, Typing
<1>9. Left(items, "visit", this) /\ Left(items, "check_argument", this)
  BY <1>6 DEF Left, do
<1>10. Does(items, << >>)
  BY <1>2, <1>9 DEF Does
<1> QED BY <1>1, <1>6, <1>7, <1>8, <1>10, ItemsAccept

LEMMA AssignRule ==
  ASSUME NEW type \in ResultType, NEW expected \in ResultType, check_type_assignment(type, expected)
  PROVE  type \notin {NoType, UNDEF} /\ expected # NoType
BY DEF check_type_assignment, is_assignment_compatible, same_family, is_signed_int, is_unsigned_int, is_float,
       NoType, CONST_INT, CONST_UINT, CONST_FLOAT, INT64, UINT64, FLOAT64

LEMMA AssignAccept ==
  ASSUME IInv, AcceptInv, NEW what \in {"check_assignment", "check_argument", "check_return"}, Now(what),
         KeepScope, NEW n \in DOMAIN ast.nodes, NEW type \in ResultType, NEW message,
         what = "check_argument" => n = this, Assign(n, type, message)
  PROVE  AcceptInv'
<1>1. /\ ast' = ast /\ Then(<< >>) /\ Head(Current.todo).do = what /\ this \in DOMAIN ast.nodes
  BY HeadFacts DEF Assign, KeepScope, Now
<1>2. GetsType(<< >>)
  BY <1>1 DEF GetsType, Typing
<1>3. CASE ~ check_type_assignment(result_type[n], type)
  <2>1. add_error(this, message) /\ result_type' = result_type
    BY <1>3 DEF Assign
  <2>2. ErrorsStay /\ errors' # << >> /\ Retypes(this)
    BY <1>1, <2>1, ErrorsEither, SameTypes
  <2> QED BY <1>1, <1>2, <2>1, <2>2, NothingLeft, QuietAccept
<1>4. CASE check_type_assignment(result_type[n], type)
  <2>1. result_type' = set_type_on_const(result_type, n, type) /\ errors' = errors
    BY <1>4 DEF Assign
  <2>2. result_type \in [DOMAIN ast.nodes -> ResultType]
    BY DEF IInv, TypesInv
  <2>3. result_type[n] \notin {NoType, UNDEF} /\ type # NoType
    BY <1>4, <2>2, AssignRule
  <2>4. \A m \in DOMAIN ast.nodes : \/ result_type'[m] = result_type[m]
                                    \/ result_type[m] \in ConstType /\ result_type'[m] # NoType
    BY <2>1, <2>2, <2>3, SetConstTypes
  <2>5. Retypes(this)
    BY <2>4 DEF Retypes
  <2>6. at(this).kind = "FunctionCall" => result_type'[this] = result_type[this]
    <3>1. ASSUME at(this).kind = "FunctionCall" PROVE result_type[this] \notin ConstType
      BY <1>1, <3>1, FunctionType DEF AcceptInv, CallsInv, NoType, ConstType, CONST_INT, CONST_UINT, CONST_FLOAT
    <3> QED BY <1>1, <2>4, <3>1
  <2>7. Does(<< >>, << >>) /\ ErrorsStay
    BY <1>1, <2>1, <2>3, TypedHasNumber DEF Does, ErrorsStay
  <2> QED BY <1>1, <1>2, <2>5, <2>6, <2>7, NothingLeft, QuietAccept
<1> QED BY <1>3, <1>4

\* A check that finds nothing to do.
LEMMA ReturnsAccept ==
  ASSUME IInv, AcceptInv, NEW what \in {"check_assignment", "check_return"}, Now(what), KeepScope,
         Then(<< >>), UNCHANGED << errors, result_type >>
  PROVE  AcceptInv'
<1>1. Head(Current.todo).do = what
  BY DEF Now
<1>2. GetsType(<< >>) /\ Does(<< >>, << >>)
  BY <1>1 DEF GetsType, Typing, Does
<1> QED BY <1>1, <1>2, NothingLeft, ItemsAccept

LEMMA ChecksAccept ==
  ASSUME IInv, AcceptInv, check_assignment \/ check_argument \/ check_return
  PROVE  AcceptInv'
<1>1. CASE check_assignment
  <2>1. Now("check_assignment") /\ KeepScope
    BY <1>1 DEF check_assignment
  <2>2. /\ this \in DOMAIN ast.nodes /\ held_entry \in DOMAIN ast.nodes
        /\ at(this).kind = "VariableAssignment"
    BY <2>1, HeadFits DEF Todo
  <2>3. at(this).operands[1] \in DOMAIN ast.nodes /\ at(held_entry).type \in ResultType
    BY <2>2, OperandOf, AstFacts DEF IInv, AstNode
  <2>4. CASE Assign(at(this).operands[1], at(held_entry).type, "type mismatch")
    BY <2>1, <2>3, <2>4, AssignAccept
  <2>5. CASE Then(<< >>) /\ UNCHANGED << errors, result_type >>
    BY <2>1, <2>5, ReturnsAccept
  <2> QED BY <1>1, <2>4, <2>5 DEF check_assignment
<1>2. CASE check_argument
  <2>1. Now("check_argument") /\ KeepScope /\ Assign(this, at(held_entry).type, "type mismatch")
    BY <1>2 DEF check_argument
  <2>2. this \in DOMAIN ast.nodes /\ held_entry \in DOMAIN ast.nodes
    BY <2>1, HeadFits DEF Todo
  <2>3. at(held_entry).type \in ResultType
    BY <2>2, AstFacts DEF IInv, AstNode
  <2> QED BY <2>1, <2>2, <2>3, AssignAccept
<1>3. CASE check_return
  <2>1. Now("check_return") /\ KeepScope
    BY <1>3 DEF check_return
  <2>2. this \in DOMAIN ast.nodes
    BY <2>1, HeadFits DEF Todo
  <2>3. CASE \E message : Fail(message)
    BY <2>1, <2>3, FailAccept
  <2>4. CASE /\ has_value(at(this)) /\ current_function_ # NoNode
             /\ Assign(at(this).operands[1], at(current_function_).type, "return type mismatch")
    <3>1. current_function_ \in DOMAIN ast.nodes
      BY <2>4 DEF IInv, FunctionInv
    <3>2. at(this).operands[1] \in DOMAIN ast.nodes /\ at(current_function_).type \in ResultType
      BY <2>2, <2>4, <3>1, OperandOf, AstFacts DEF IInv, AstNode
    <3> QED BY <2>1, <2>4, <3>2, AssignAccept
  <2>5. CASE Then(<< >>) /\ UNCHANGED << errors, result_type >>
    BY <2>1, <2>5, ReturnsAccept
  <2> QED BY <1>3, <2>3, <2>4, <2>5 DEF check_return
<1> QED BY <1>1, <1>2, <1>3

\* It opens a frame for a list.
LEMMA EnterAccept ==
  ASSUME IInv, AcceptInv, NEW what, Now(what), what # "register", Table!create_stack_frame,
         NEW list, NEW items \in Seq(Item), Enter(list, items),
         UNCHANGED << ast, history, result_type >>, MayHold(items), MayCheck(items), ErrorsStay,
         GetsType(items), errors' = << >> => Does(items, list)
  PROVE  AcceptInv'
<1>1. /\ Running /\ Current.todo # << >> /\ Head(Current.todo).do = what
      /\ ast' = ast /\ round' = round /\ result_type' = result_type /\ this \in DOMAIN ast.nodes
  BY HeadFacts DEF Now, history
<1>2. Works(items, list)
  BY <1>1, EnterWorks
<1>3. EntriesInv' /\ Registers
  BY <1>1, NewTable DEF AcceptInv, Registers, TableStays
<1>4. Retypes(this)
  BY <1>1, SameTypes
<1> QED BY <1>1, <1>2, <1>3, <1>4, AcceptStep

LEMMA ListIsVisited ==
  ASSUME NEW list, NEW i \in DOMAIN list
  PROVE  Left(visits(list), "visit", list[i])
BY DEF Left, visits, do

LEMMA validate_function_declarationAccepts ==
  ASSUME IInv, AcceptInv, validate_function_declaration
  PROVE  AcceptInv'
<1> DEFINE list == at(this).params \o at(this).body
<1>1. /\ Now("visit") /\ at(this).kind = "FunctionDeclaration" /\ Table!create_stack_frame
      /\ Enter(list, << >>) /\ UNCHANGED << ast, history, errors, result_type >>
  BY DEF validate_function_declaration, Visiting
<1>2. this \in DOMAIN ast.nodes /\ Head(Current.todo).do = "visit"
  BY <1>1, HeadFacts DEF Now
<1>3. ErrorsStay /\ GetsType(<< >>)
  BY <1>1 DEF ErrorsStay, GetsType, Expression, Literal
<1>4. \A i \in DOMAIN at(this).body : Left(visits(list), "visit", at(this).body[i])
  <2> DEFINE p == at(this).params
             b == at(this).body
  <2>1. p \in Seq(Nat) /\ b \in Seq(Nat)
    BY <1>2, AstFacts DEF IInv, AstNode
  <2>2. ASSUME NEW i \in DOMAIN b
        PROVE  Len(p) + i \in DOMAIN (p \o b) /\ (p \o b)[Len(p) + i] = b[i]
    <3> HIDE DEF p, b
    <3> QED BY <2>1
  <2>3. \A i \in DOMAIN b : Len(p) + i \in DOMAIN list /\ list[Len(p) + i] = b[i]
    BY <2>2
  <2> HIDE DEF list, p
  <2> QED BY <2>3, ListIsVisited
<1>5. DOMAIN at(this).operands = {}
  BY <1>1, <1>2, NoOperands DEF Operands
<1> HIDE DEF list
<1>6. Does(<< >>, list)
  BY <1>1, <1>2, <1>4, <1>5 DEF Does, Visits
<1> QED BY <1>1, <1>3, <1>6, NothingLeft, EnterAccept

LEMMA check_conditionAccepts ==
  ASSUME IInv, AcceptInv, check_condition
  PROVE  AcceptInv'
<1> DEFINE condition == at(this).operands[1]
           items == IF has_else(at(this)) THEN << do("else_block", this) >> ELSE << >>
<1>1. /\ Now("check_condition") /\ Table!create_stack_frame
      /\ Enter(at(this).body, items) /\ UNCHANGED << ast, history, result_type >>
      /\ IF result_type[condition] \in {NoType, BOOL} THEN errors' = errors
         ELSE add_error(condition, "condition should return bool")
  BY DEF check_condition
<1>2. /\ this \in DOMAIN ast.nodes /\ at(this).kind = "If" /\ Len(frames) # 1
      /\ Head(Current.todo).do = "check_condition"
  BY <1>1, IfOpens DEF Now
<1>3. condition \in DOMAIN ast.nodes
  BY <1>2, OperandOf
<1>4. do("else_block", this) \in Item
  BY <1>1, ItemType DEF do, Todo
<1>5. items \in Seq(Item)
  BY <1>4
<1>6. \A j \in DOMAIN items : items[j].do = "else_block"
  BY DEF do
<1>7. Left(items, "else_block", this) \/ at(this).orelse = << >>
  BY DEF Left, has_else, do
<1> HIDE DEF items
<1>8. MayHold(items) /\ MayCheck(items) /\ GetsType(items)
  BY <1>2, <1>5, <1>6 DEF MayHold, MayCheck, GetsType, Typing
<1>9. ErrorsStay /\ (add_error(condition, "condition should return bool") => errors' # << >>)
  BY <1>1, ErrorsEither
<1>10. ASSUME errors' = << >>
       PROVE  Does(items, at(this).body)
  <2>1. errors = << >> /\ result_type[condition] \in {NoType, BOOL}
    BY <1>1, <1>9, <1>10
  <2>2. result_type[condition] # NoType
    BY <1>1, <2>1, HeldHead
  <2> HIDE DEF condition
  <2>3. HasNumber(ast, condition)
    BY <1>3, <2>1, <2>2, TypedHasNumber DEF BOOL, UNDEF
  <2>4. OperandsAreNumbers
    <3>1. Len(at(this).operands) = 1 /\ at(this).operands \in Seq(Nat)
      BY <1>2, AstFacts DEF IInv, Operands, AstNode
    <3>2. DOMAIN at(this).operands = {1}
      BY <3>1
    <3> QED BY <2>3, <3>2 DEF OperandsAreNumbers, condition
  <2> QED BY <1>2, <1>7, <2>4, ListIsVisited DEF Does
<1> QED BY <1>1, <1>5, <1>8, <1>9, <1>10, EnterAccept

LEMMA validate_else_blockAccepts ==
  ASSUME IInv, AcceptInv, validate_else_block
  PROVE  AcceptInv'
<1>1. /\ Now("else_block") /\ Table!create_stack_frame /\ Enter(at(this).orelse, << >>)
      /\ UNCHANGED << ast, history, errors, result_type >>
      /\ Head(Current.todo).do = "else_block"
  BY DEF validate_else_block, Now
<1>2. ErrorsStay /\ GetsType(<< >>)
  BY <1>1 DEF ErrorsStay, GetsType, Typing
<1>3. Does(<< >>, at(this).orelse)
  BY <1>1, ListIsVisited DEF Does
<1> QED BY <1>1, <1>2, <1>3, NothingLeft, EnterAccept

\* The functions of the tree first, then all of it.
LEMMA TopItems ==
  ASSUME IInv
  PROVE  /\ Len(ast.top) \in Nat /\ DOMAIN ast.top = 1 .. Len(ast.top)
         /\ DOMAIN top_level_items = 1 .. Len(ast.top) + Len(ast.top)
         /\ \A i \in DOMAIN ast.top : top_level_items[i] = do("register", ast.top[i])
         /\ \A i \in DOMAIN ast.top : top_level_items[Len(ast.top) + i] = do("visit", ast.top[i])
<1> DEFINE n == Len(ast.top)
<1>1. DOMAIN ast.top = 1 .. n /\ n \in Nat
  BY DEF IInv, IsAst
<1> HIDE DEF n
<1>2. /\ DOMAIN top_level_items = 1 .. n + n
      /\ \A i \in 1 .. n : top_level_items[i] = do("register", ast.top[i])
      /\ \A i \in 1 .. n : top_level_items[n + i] = do("visit", ast.top[i])
  <2> DEFINE r == [i \in 1 .. n |-> do("register", ast.top[i])]
             v == [i \in 1 .. n |-> do("visit", ast.top[i])]
  <2>1. top_level_items = r \o v
    BY <1>1 DEF top_level_items, visits
  <2>2. r \in Seq(Item) /\ Len(r) = n /\ v \in Seq(Item) /\ Len(v) = n
    <3>1. \A i \in 1 .. n : do("register", ast.top[i]) \in Item /\ do("visit", ast.top[i]) \in Item
      <4> TAKE i \in 1 .. n
      <4>1. ast.top[i] \in Nat
        BY <1>1 DEF IInv, IsAst
      <4> QED BY <4>1 DEF do, Item, Todo, NoNode
    <3> QED BY <1>1, <3>1
  <2>3. /\ \A i \in 1 .. n : r[i] = do("register", ast.top[i])
        /\ \A i \in 1 .. n : v[i] = do("visit", ast.top[i])
    OBVIOUS
  <2> HIDE DEF r, v
  <2>4. /\ DOMAIN (r \o v) = 1 .. n + n
        /\ \A i \in 1 .. n : (r \o v)[i] = r[i]
        /\ \A i \in 1 .. n : (r \o v)[n + i] = v[i]
    BY <1>1, <2>2
  <2> QED BY <2>1, <2>3, <2>4
<1> QED BY <1>1, <1>2 DEF n

\* validate is going to register and to visit every instruction.
LEMMA TopIsAwaited ==
  ASSUME IInv, validate
  PROVE  /\ \A j \in DOMAIN top_level_items :
              /\ InTop(ast, top_level_items[j].node)
              /\ top_level_items[j].do \in {"register", "visit"}
         /\ \A i \in DOMAIN ast.top :
              Pending("register", ast.top[i])' /\ Pending("visit", ast.top[i])'
<1>1. frames' = << [owner |-> NoNode, todo |-> top_level_items] >> /\ ast' = ast
  BY DEF validate
<1> DEFINE n == Len(ast.top)
<1>2. DOMAIN ast.top = 1 .. n /\ n \in Nat
  BY DEF IInv, IsAst
<1>3. DOMAIN frames' = {1} /\ frames'[1].todo = top_level_items
  BY <1>1
<1> HIDE DEF n
<1>4. /\ DOMAIN top_level_items = 1 .. n + n
      /\ \A i \in 1 .. n : top_level_items[i] = do("register", ast.top[i])
      /\ \A i \in 1 .. n : top_level_items[n + i] = do("visit", ast.top[i])
  BY <1>2, TopItems DEF n
<1>5. \A j \in 1 .. n + n : \E i \in 1 .. n :
        top_level_items[j] = do("register", ast.top[i]) \/ top_level_items[j] = do("visit", ast.top[i])
  <2> TAKE j \in 1 .. n + n
  <2>1. CASE j \in 1 .. n
    BY <1>4, <2>1
  <2>2. CASE j \notin 1 .. n
    <3>1. j - n \in 1 .. n /\ n + (j - n) = j
      BY <1>2, <2>2
    <3> QED BY <1>4, <3>1
  <2> QED BY <2>1, <2>2
<1>6. ASSUME NEW j \in DOMAIN top_level_items
      PROVE  /\ InTop(ast, top_level_items[j].node)
             /\ top_level_items[j].do \in {"register", "visit"}
  <2>1. PICK i \in 1 .. n :
          top_level_items[j] = do("register", ast.top[i]) \/ top_level_items[j] = do("visit", ast.top[i])
    BY <1>4, <1>5
  <2>2. top_level_items[j].node = ast.top[i] /\ top_level_items[j].do \in {"register", "visit"}
    BY <2>1 DEF do
  <2> QED BY <1>2, <2>2 DEF InTop
<1>7. ASSUME NEW i \in 1 .. n
      PROVE  Pending("register", ast.top[i])' /\ Pending("visit", ast.top[i])'
  <2>1. i \in DOMAIN top_level_items /\ n + i \in DOMAIN top_level_items
    BY <1>2, <1>4
  <2>2. /\ top_level_items[i].do = "register" /\ top_level_items[i].node = ast.top[i]
        /\ top_level_items[n + i].do = "visit" /\ top_level_items[n + i].node = ast.top[i]
    <3>1. /\ top_level_items[i] = do("register", ast.top[i])
          /\ top_level_items[n + i] = do("visit", ast.top[i])
      BY <1>4
    <3> QED BY <3>1 DEF do
  <2> QED BY <1>1, <1>3, <2>1, <2>2 DEF Pending
<1> QED BY <1>2, <1>6, <1>7

LEMMA validateAccepts ==
  ASSUME IInv, AcceptInv, validate
  PROVE  AcceptInv'
<1>1. /\ errors' = << >> /\ ast' = ast /\ result_type' = result_type
      /\ frames' = << [owner |-> NoNode, todo |-> top_level_items] >>
      /\ scopes' = << [x \in Name |-> NoNode] >>
  BY DEF validate, Table!reset, Table!EmptyTable
<1>2. /\ \A j \in DOMAIN top_level_items :
           /\ InTop(ast, top_level_items[j].node)
           /\ top_level_items[j].do \in {"register", "visit"}
      /\ \A i \in DOMAIN ast.top : Pending("register", ast.top[i])' /\ Pending("visit", ast.top[i])'
  BY TopIsAwaited
<1>3. DOMAIN frames' = {1} /\ frames'[1].todo = top_level_items
  BY <1>1
<1>4. CallsInv' /\ LiteralsInv'
  BY <1>1 DEF AcceptInv, CallsInv, LiteralsInv, at
<1>5. EntriesInv'
  BY <1>1 DEF EntriesInv
<1>6. HeldInv'
  BY <1>1, <1>2, <1>3 DEF HeldInv, at
<1>7. ConditionsInv'
  BY <1>2, <1>3 DEF ConditionsInv
<1>8. RegisteredInv'
  <2> SUFFICES ASSUME NEW m \in DOMAIN ast.nodes, InTop(ast, m)
               PROVE  Pending("register", m)'
    BY <1>1 DEF RegisteredInv, at
  <2>1. PICK i \in DOMAIN ast.top : ast.top[i] = m
    BY DEF InTop
  <2> QED BY <1>1, <1>2, <2>1
<1>9. SeenInv({})'
  <2>1. \A i \in DOMAIN ast.top : Seen({}, ast.top[i])'
    BY <1>1, <1>2 DEF Seen
  <2> QED BY <1>1, <2>1 DEF SeenInv
<1> QED BY <1>4, <1>5, <1>6, <1>7, <1>8, <1>9 DEF AcceptInv

\* Nothing that was to be done is dropped.
LEMMA DropsNothing ==
  ASSUME AcceptInv, UNCHANGED << ast, round, errors, result_type >>,
         \A what, n : Pending(what, n) => Pending(what, n)',
         TableStays, IInv, EntriesInv', HeldInv', ConditionsInv'
  PROVE  AcceptInv'
<1>1. CallsInv' /\ LiteralsInv'
  BY DEF AcceptInv, CallsInv, LiteralsInv, at
<1>2. RegisteredInv'
  <2> SUFFICES ASSUME round > 0, errors = << >>, NEW n \in DOMAIN ast.nodes, is_function(at(n)), InTop(ast, n)
               PROVE  Pending("register", n)' \/ scopes'[1][at(n).name] = n
    BY DEF RegisteredInv, at
  <2>1. Pending("register", n) \/ scopes[1][at(n).name] = n
    BY DEF AcceptInv, RegisteredInv
  <2>2. at(n).name \in Name /\ n # NoNode
    <3>1. at(n).name \in Name
      BY AstFacts DEF IInv, is_function, Named, Declaration
    <3> QED BY <3>1, AstFacts DEF IInv
  <2> QED BY <2>1, <2>2 DEF TableStays
<1>3. ASSUME NEW seen, NEW n, Seen(seen, n)
      PROVE  Seen(seen, n)'
  BY <1>3 DEF Seen, at
<1>4. ASSUME NEW seen, SeenInv(seen)
      PROVE  SeenInv(seen)'
  <2>1. \A i \in DOMAIN ast.top : Seen(seen, ast.top[i])'
    BY <1>3, <1>4 DEF SeenInv
  <2>2. ASSUME NEW n \in seen
        PROVE  SeenNode(seen, n)'
    <3>1. SeenNode(seen, n)
      BY <1>4 DEF SeenInv
    <3>2. /\ \A i \in DOMAIN at(n).operands : Seen(seen, at(n).operands[i])'
          /\ at(n).kind = "FunctionDeclaration" => \A i \in DOMAIN at(n).body : Seen(seen, at(n).body[i])'
      BY <1>3, <3>1 DEF SeenNode, at
    <3>3. at(n).kind = "If" =>
            \/ Pending("check_condition", n)'
            \/ /\ \A i \in DOMAIN at(n).body : Seen(seen, at(n).body[i])'
               /\ Pending("else_block", n)' \/ \A i \in DOMAIN at(n).orelse : Seen(seen, at(n).orelse[i])'
               /\ \A i \in DOMAIN at(n).operands : HasNumber(ast, at(n).operands[i])
      BY <1>3, <3>1 DEF SeenNode, at
    <3>4. /\ at(n).kind = "BinaryOp" =>
               \/ Pending("type_binary_op", n)'
               \/ \A i \in DOMAIN at(n).operands : HasNumber(ast, at(n).operands[i])
          /\ at(n).kind = "UnaryOp" =>
               \/ Pending("type_unary_op", n)'
               \/ \A i \in DOMAIN at(n).operands : HasNumber(ast, at(n).operands[i])
      BY <3>1 DEF SeenNode
    <3>5. at(n).kind = "FunctionCall" =>
            /\ \E f \in Functions(ast, at(n).name) : Len(at(f).params) = Len(at(n).operands)
            /\ \A i \in DOMAIN at(n).operands :
                 \/ HasNumber(ast, at(n).operands[i])
                 \/ Pending("argument", at(n).operands[i])'
                 \/ Pending("check_argument", at(n).operands[i])'
      BY <3>1 DEF SeenNode, at
    <3> QED BY <3>2, <3>3, <3>4, <3>5 DEF SeenNode, at
  <2> QED BY <1>4, <2>1, <2>2 DEF SeenInv
<1>5. (round' > 0 /\ errors' = << >>) => \E seen : SeenInv(seen)'
  BY <1>4 DEF AcceptInv
<1> QED BY <1>1, <1>2, <1>5 DEF AcceptInv

\* Releasing a frame drops no item, for it had none left.
LEMMA ReleaseKeeps ==
  ASSUME IInv, release_stack_frame
  PROVE  /\ \A k \in DOMAIN frames' : k \in DOMAIN frames /\ frames'[k] = frames[k]
         /\ \A what, n : Pending(what, n) => Pending(what, n)'
<1> DEFINE L == Len(frames)
<1>1. L > 1 /\ frames[L].todo = << >> /\ frames' = SubSeq(frames, 1, L - 1)
  BY DEF release_stack_frame, Current
<1>2. frames \in Seq(Frame) /\ L \in Nat /\ DOMAIN frames = 1 .. L
  BY DEF IInv, FramesInv
<1>3. /\ DOMAIN frames' = 1 .. L - 1
      /\ \A k \in 1 .. L - 1 : k \in DOMAIN frames /\ k # L /\ frames'[k] = frames[k]
  <2>1. /\ frames' \in Seq(Frame) /\ Len(frames') = L - 1 /\ DOMAIN frames' = 1 .. L - 1
        /\ \A k \in 1 .. L - 1 : frames'[k] = frames[k]
    BY <1>1, <1>2
  <2>2. \A k \in 1 .. L - 1 : k \in 1 .. L /\ k # L
    <3>1. \A l \in Nat : \A k \in 1 .. l - 1 : k \in 1 .. l /\ k # l
      OBVIOUS
    <3> QED BY <1>2, <3>1
  <2> QED BY <1>2, <2>1, <2>2
<1>4. \A k \in DOMAIN frames : k = L \/ k \in 1 .. L - 1
  BY <1>2
<1> HIDE DEF L
<1>5. \A what, n : Pending(what, n) => Pending(what, n)'
  <2> SUFFICES ASSUME NEW what, NEW n, Pending(what, n) PROVE Pending(what, n)'
    OBVIOUS
  <2>1. PICK k \in DOMAIN frames : \E j \in DOMAIN frames[k].todo :
          frames[k].todo[j].do = what /\ frames[k].todo[j].node = n
    BY DEF Pending
  <2>2. k # L
    BY <1>1, <2>1
  <2> QED BY <1>3, <1>4, <2>1, <2>2 DEF Pending
<1>6. \A k \in DOMAIN frames' : k \in DOMAIN frames /\ frames'[k] = frames[k]
  BY <1>3
<1> QED BY <1>5, <1>6

LEMMA release_stack_frameAccepts ==
  ASSUME IInv, AcceptInv, release_stack_frame
  PROVE  AcceptInv'
<1> DEFINE L == Len(frames)
<1>1. /\ L > 1 /\ Table!release_stack_frame
      /\ UNCHANGED << ast, history, errors, result_type >>
  BY DEF release_stack_frame, Current
<1>2. frames \in Seq(Frame) /\ L \in Nat
  BY DEF IInv, FramesInv
<1>3. Running /\ Len(scopes) = L
  <2>1. Running
    BY <1>1, <1>2 DEF Running
  <2> QED BY <2>1, RunningScopes
<1>4. /\ DOMAIN scopes' \subseteq DOMAIN scopes
      /\ \A k \in DOMAIN scopes' : scopes'[k] = scopes[k]
      /\ scopes'[1] = scopes[1]
  <2>1. scopes' = SubSeq(scopes, 1, L - 1)
    BY <1>1, <1>3 DEF Table!release_stack_frame
  <2>2. scopes \in Seq([Name -> {NoNode} \cup DOMAIN ast.nodes])
    BY ScopesFacts
  <2>3. /\ DOMAIN scopes' = 1 .. L - 1 /\ DOMAIN scopes = 1 .. L
        /\ \A k \in 1 .. L - 1 : scopes'[k] = scopes[k]
    BY <1>1, <1>2, <1>3, <2>1, <2>2
  <2>4. 1 \in 1 .. L - 1 /\ 1 .. L - 1 \subseteq 1 .. L
    BY <1>1, <1>2
  <2> QED BY <2>3, <2>4
<1> HIDE DEF L
<1>5. /\ \A k \in DOMAIN frames' : k \in DOMAIN frames /\ frames'[k] = frames[k]
      /\ \A what, n : Pending(what, n) => Pending(what, n)'
  BY ReleaseKeeps
<1>6. EntriesInv' /\ TableStays
  BY <1>1, <1>4 DEF AcceptInv, EntriesInv, TableStays, at
<1>7. HeldInv'
  <2> SUFFICES ASSUME NEW k \in DOMAIN frames', NEW j \in DOMAIN frames'[k].todo
               PROVE  /\ k = 1 => InTop(ast, frames'[k].todo[j].node)
                      /\ frames'[k].todo[j].do \in {"argument", "check_argument"} =>
                           at(frames'[k].todo[j].entry).kind = "Argument"
    BY <1>1 DEF HeldInv, at
  <2>1. k \in DOMAIN frames /\ frames'[k] = frames[k]
    BY <1>5
  <2> QED BY <2>1 DEF AcceptInv, HeldInv
<1>8. ConditionsInv'
  <2> SUFFICES ASSUME errors = << >>, NEW k \in DOMAIN frames', NEW j \in DOMAIN frames'[k].todo,
                      frames'[k].todo[j].do = "check_condition"
               PROVE  LET o == at(frames'[k].todo[j].node).operands[1] IN
                      result_type[o] # NoType \/ \E i \in 1 .. j - 1 : Types(frames'[k].todo[i], o)
    BY ZenonT(60), <1>1 DEF ConditionsInv, at
  <2>1. k \in DOMAIN frames /\ frames'[k] = frames[k]
    BY <1>5
  <2> QED BY <2>1 DEF AcceptInv, ConditionsInv
<1> QED BY <1>1, <1>5, <1>6, <1>7, <1>8, DropsNothing DEF history

LEMMA finishAccepts ==
  ASSUME IInv, AcceptInv, finish
  PROVE  AcceptInv'
<1>1. /\ Len(frames) = 1 /\ frames[1].todo = << >> /\ frames' = << >>
      /\ UNCHANGED << ast, history, scopes, errors, result_type >>
  BY DEF finish, Current
<1>2. DOMAIN frames = {1}
  BY <1>1 DEF IInv, FramesInv
<1>3. \A what, n : ~ Pending(what, n)
  BY <1>1, <1>2 DEF Pending
<1>4. EntriesInv' /\ TableStays
  BY <1>1, SameTables DEF AcceptInv
<1>5. HeldInv' /\ ConditionsInv'
  BY <1>1 DEF HeldInv, ConditionsInv
<1> QED BY <1>1, <1>3, <1>4, <1>5, DropsNothing DEF history

LEMMA StutterAccepts ==
  ASSUME IInv, AcceptInv, UNCHANGED << ast, result_type, scopes, frames, errors, round >>
  PROVE  AcceptInv'
<1>1. EntriesInv' /\ TableStays
  BY SameTables DEF AcceptInv
<1>2. HeldInv' /\ ConditionsInv'
  BY DEF AcceptInv, HeldInv, ConditionsInv, at
<1>3. \A what, n : Pending(what, n) => Pending(what, n)'
  BY DEF Pending
<1> QED BY <1>1, <1>2, <1>3, DropsNothing

LEMMA AcceptInit == Init => AcceptInv
<1> SUFFICES ASSUME Init PROVE AcceptInv
  OBVIOUS
<1>1. /\ result_type = [n \in DOMAIN ast.nodes |-> initial_type(at(n))]
      /\ scopes = << [x \in Name |-> NoNode] >> /\ frames = << >> /\ round = 0
  BY DEF Init, Table!Init, Table!EmptyTable
<1>2. CallsInv
  BY <1>1 DEF CallsInv, initial_type, Literal
<1>3. LiteralsInv
  BY <1>1 DEF LiteralsInv, initial_type, Literal, NoType, CONST_INT, CONST_UINT, CONST_FLOAT, BOOL
<1>4. EntriesInv /\ HeldInv /\ ConditionsInv /\ RegisteredInv
  BY <1>1 DEF EntriesInv, HeldInv, ConditionsInv, RegisteredInv
<1> QED BY <1>1, <1>2, <1>3, <1>4 DEF AcceptInv

LEMMA StepAccepts == IInv /\ AcceptInv /\ [Next]_vars => AcceptInv'
<1> SUFFICES ASSUME IInv, AcceptInv, [Next]_vars PROVE AcceptInv'
  OBVIOUS
<1>1. CASE validate                        BY <1>1, validateAccepts
<1>2. CASE register_function               BY <1>2, register_functionAccepts
<1>3. CASE validate_function_declaration   BY <1>3, validate_function_declarationAccepts
<1>4. CASE validate_constant_declaration   BY <1>4, DeclarationsAccept
<1>5. CASE validate_argument               BY <1>5, DeclarationsAccept
<1>6. CASE validate_variable_declaration   BY <1>6, OperatorsAccept
<1>7. CASE declare_variable                BY <1>7, DeclarationsAccept
<1>8. CASE validate_variable_assignment    BY <1>8, validate_variable_assignmentAccepts
<1>9. CASE check_assignment                BY <1>9, ChecksAccept
<1>10. CASE validate_variable_lookup       BY <1>10, validate_variable_lookupAccepts
<1>11. CASE validate_literal               BY <1>11, validate_literalAccepts
<1>12. CASE validate_binary_op             BY <1>12, OperatorsAccept
<1>13. CASE type_binary_op                 BY <1>13, type_binary_opAccepts
<1>14. CASE validate_unary_op              BY <1>14, OperatorsAccept
<1>15. CASE type_unary_op                  BY <1>15, type_unary_opAccepts
<1>16. CASE validate_function_call         BY <1>16, validate_function_callAccepts
<1>17. CASE validate_call_argument         BY <1>17, validate_call_argumentAccepts
<1>18. CASE check_argument                 BY <1>18, ChecksAccept
<1>19. CASE validate_function_return       BY <1>19, OperatorsAccept
<1>20. CASE check_return                   BY <1>20, ChecksAccept
<1>21. CASE validate_if                    BY <1>21, OperatorsAccept
<1>22. CASE check_condition                BY <1>22, check_conditionAccepts
<1>23. CASE validate_else_block            BY <1>23, validate_else_blockAccepts
<1>24. CASE release_stack_frame            BY <1>24, release_stack_frameAccepts
<1>25. CASE finish                         BY <1>25, finishAccepts
<1>26. CASE UNCHANGED vars                 BY <1>26, StutterAccepts DEF vars
<1> QED BY <1>1, <1>2, <1>3, <1>4, <1>5, <1>6, <1>7, <1>8, <1>9, <1>10, <1>11, <1>12, <1>13,
           <1>14, <1>15, <1>16, <1>17, <1>18, <1>19, <1>20, <1>21, <1>22, <1>23, <1>24, <1>25,
           <1>26 DEF Next

-------------------------------------------------------------------------------

\* The validation has returned without an error.
LetThrough == round > 0 /\ ~ Running /\ errors = << >>

\* Nothing is pending then, so everything that was to be made sure of is.
LEMMA AcceptedChecks ==
  ASSUME IInv, AcceptInv, LetThrough
  PROVE  \E seen : Checked(ast, seen)
<1>1. \A what, n : ~ Pending(what, n)
  BY DEF LetThrough, Running, Pending
<1>2. PICK seen : SeenInv(seen)
  BY DEF AcceptInv, LetThrough
<1> DEFINE all == seen \cup {n \in DOMAIN ast.nodes : at(n).kind \in Literal}
<1>3. seen \subseteq DOMAIN ast.nodes /\ all \subseteq DOMAIN ast.nodes
  BY <1>2 DEF SeenInv
<1>4. ASSUME NEW n \in DOMAIN ast.nodes, Seen(seen, n)
      PROVE  n \in all
  BY <1>1, <1>4 DEF Seen
<1>5. ASSUME NEW n \in DOMAIN ast.nodes, at(n).kind \in Literal
      PROVE  DOMAIN at(n).operands = {}
  BY <1>5, NoOperands DEF Operands, Literal
<1>6. \A n \in all : n \in DOMAIN ast.nodes /\ (n \in seen \/ at(n).kind \in Literal)
  BY <1>3
<1> HIDE DEF all
<1>7. Closed(ast, all)
  <2>1. \A i \in DOMAIN ast.top : ast.top[i] \in all
    <3> TAKE i \in DOMAIN ast.top
    <3>1. ast.top[i] \in DOMAIN ast.nodes
      BY DEF IInv, IsAst
    <3> QED BY <1>2, <1>4, <3>1 DEF SeenInv
  <2>2. ASSUME NEW n \in all
        PROVE  /\ \A i \in DOMAIN at(n).operands : at(n).operands[i] \in all
               /\ at(n).kind \in {"FunctionDeclaration", "If"} =>
                    \A i \in DOMAIN at(n).body : at(n).body[i] \in all
               /\ at(n).kind = "If" => \A i \in DOMAIN at(n).orelse : at(n).orelse[i] \in all
    <3>1. CASE n \in seen
      <4>1. SeenNode(seen, n) /\ n \in DOMAIN ast.nodes
        BY <1>2, <1>3, <3>1 DEF SeenInv
      <4>2. /\ \A i \in DOMAIN at(n).operands : at(n).operands[i] \in DOMAIN ast.nodes
            /\ \A i \in DOMAIN at(n).body : at(n).body[i] \in DOMAIN ast.nodes
            /\ \A i \in DOMAIN at(n).orelse : at(n).orelse[i] \in DOMAIN ast.nodes
        BY <4>1, AstFacts DEF IInv
      <4> QED BY <1>1, <1>4, <4>1, <4>2 DEF SeenNode
    <3>2. CASE at(n).kind \in Literal
      BY <1>5, <1>6, <3>2 DEF Literal
    <3> QED BY <1>6, <3>1, <3>2
  <2> QED BY <2>1, <2>2 DEF Closed, at
<1>8. ASSUME NEW n \in all
      PROVE  /\ at(n).kind = "FunctionCall" =>
                  \E f \in Functions(ast, at(n).name) : Len(at(f).params) = Len(at(n).operands)
             /\ at(n).kind \in Calculates => \A i \in DOMAIN at(n).operands : HasNumber(ast, at(n).operands[i])
  <2>1. CASE n \in seen
    <3>1. SeenNode(seen, n)
      BY <1>2, <2>1 DEF SeenInv
    <3> QED BY <1>1, <3>1 DEF SeenNode, Calculates
  <2>2. CASE at(n).kind \in Literal
    BY <2>2 DEF Literal, Calculates
  <2> QED BY <1>6, <2>1, <2>2
<1>9. ASSUME NEW x \in Name, NEW f \in Functions(ast, x), NEW g \in Functions(ast, x)
      PROVE  f = g
  <2>1. /\ f \in DOMAIN ast.nodes /\ is_function(at(f)) /\ at(f).name = x /\ InTop(ast, f)
        /\ g \in DOMAIN ast.nodes /\ is_function(at(g)) /\ at(g).name = x /\ InTop(ast, g)
    BY DEF Functions, at
  <2>2. scopes[1][x] = f /\ scopes[1][x] = g
    BY <1>1, <2>1 DEF AcceptInv, RegisteredInv, LetThrough
  <2> QED BY <2>2
<1>10. Checked(ast, all)
  BY <1>3, <1>7, <1>8, <1>9 DEF Checked, at
<1> QED BY <1>10

\* A tree that validate accepted is checked: every call is of a function of
\* its name that takes as many arguments, no two functions have a name in
\* common, and no operand is a call without a value.
THEOREM AcceptedIsChecked == Spec => [](LetThrough => \E seen : Checked(ast, seen))
<1>1. Spec => []AcceptInv
  BY AcceptInit, StepAccepts, InitInv, StepInv, PTL DEF Spec
<1> QED BY <1>1, AcceptedChecks, Invariance, PTL

-------------------------------------------------------------------------------
(***************************************************************************)
(* Where the visitors are.  Every frame is at a node of a list of the tree *)
(* and has the rest of that list to do, and its table holds exactly the    *)
(* declarations of the list that were met.                                 *)
(***************************************************************************)

\* A node opens the list: a function that of its arguments and its body, an
\* if each of its blocks.
Opens(n, list) ==
    IF is_function(at(n)) THEN list = at(n).params \o at(n).body ELSE list \in {at(n).body, at(n).orelse}

ListAt(k, list) == IF k = 1 THEN list = ast.top ELSE Opens(frames[k].owner, list)

\* The same for every node of the list behind the i-th.
From(what, list, i) == [j \in 1 .. Len(list) - i |-> do(what, list[i + j])]

\* The item is work on the node m or on an expression below it.
Inside(m, item) ==
    /\ item.do # "register"
    /\ \/ item.node = m /\ item.do \notin {"visit", "argument"}
       \/ \E o \in Range(at(m).operands) : Under(ast, item.node, o)

\* A variable is declared once everything else of its declaration is done.
Belongs(m, inner) ==
    /\ \A j \in DOMAIN inner :
         Inside(m, inner[j]) /\ (inner[j].do = "declare_variable" => j = Len(inner))
    /\ (at(m).kind \in Declaration /\ inner # << >>) => inner[Len(inner)].do = "declare_variable"

(***************************************************************************)
(* The k-th frame is at the i-th node of the list, of which inner is left  *)
(* to be done, and has registered the functions among the first r.         *)
(***************************************************************************)
Shape(k, list, i, r, inner, todo) ==
    /\ i \in 0 .. Len(list) /\ r \in 0 .. Len(list) /\ inner \in Seq(Item)
    /\ todo = inner \o From("visit", list, i)
    /\ k # 1 \/ i # 0 => r = Len(list)
    /\ i = 0 => inner = From("register", list, r)
    /\ i # 0 => Belongs(list[i], inner)

\* How much of the list has been declared.
Behind(list, i, inner) ==
    IF i # 0 /\ inner # << >> /\ at(list[i]).kind \in Declaration THEN i - 1 ELSE i

Entered(list, r, p, j) == IF is_function(at(list[j])) THEN j <= r ELSE j <= p

Declares(list, x, j) == at(list[j]).kind \in Declaration /\ at(list[j]).name = x

\* The table has the declarations that were entered, under each name the first.
Holds(table, list, r, p) ==
    \A x \in Name :
      table[x] = IF \E j \in DOMAIN list : Declares(list, x, j) /\ Entered(list, r, p, j)
                 THEN FirstDeclared(ast, list, x) ELSE NoNode

Placed(k, list, i, r, inner) ==
    /\ ListAt(k, list)
    /\ Shape(k, list, i, r, inner, frames[k].todo)
    /\ k + 1 \in DOMAIN frames => i # 0 /\ list[i] = frames[k + 1].owner
    /\ Holds(scopes[k], list, r, Behind(list, i, inner))

PlacedInv == \A k \in DOMAIN frames : \E list, i, r, inner : Placed(k, list, i, r, inner)

-------------------------------------------------------------------------------
(* The lists of the frames. *)

\* The list a node opens is part of its children.
LEMMA OpenedList ==
  ASSUME IsAst(ast), NEW n \in DOMAIN ast.nodes, NEW list, Opens(n, list)
  PROVE  \E shift : At(list, shift, Children(at(n)))
<1>1. CASE is_function(at(n))
  BY <1>1, Sections DEF Opens, at
<1>2. CASE ~ is_function(at(n))
  BY <1>2, Sections DEF Opens, at
<1> QED BY <1>1, <1>2

\* The nodes of a list follow each other in tree order, and no node is below
\* two of them.
Scattered(list) ==
    /\ Len(list) \in Nat /\ DOMAIN list = 1 .. Len(list)
    /\ \A j \in DOMAIN list : list[j] \in DOMAIN ast.nodes
    /\ \A i, j \in DOMAIN list : i < j => list[i] < list[j]
    /\ \A i, j \in DOMAIN list : \A m : Under(ast, m, list[i]) /\ Under(ast, m, list[j]) => i = j

\* The instructions of a tree are in ascending order, each once.
LEMMA TopScattered ==
  ASSUME IsAst(ast)
  PROVE  Scattered(ast.top)
<1>1. /\ Tiles(FirstOf(ast), Len(ast.nodes), ast.top, 0, Len(ast.nodes))
      /\ DOMAIN ast.nodes = 1 .. Len(ast.nodes)
  BY TreeFacts
<1>2. /\ Len(ast.top) \in Nat /\ DOMAIN ast.top = 1 .. Len(ast.top)
      /\ \A j \in DOMAIN ast.top : ast.top[j] \in DOMAIN ast.nodes
      /\ \A j \in DOMAIN ast.top : FirstOf(ast)[ast.top[j]] \in 1 .. ast.top[j]
  BY <1>1, Places
<1>3. \A i, j \in DOMAIN ast.top : i < j => ast.top[i] < ast.top[j]
  <2>1. \A j \in DOMAIN ast.top : ast.top[j] \in Nat /\ FirstOf(ast)[ast.top[j]] \in Nat
                                  /\ FirstOf(ast)[ast.top[j]] <= ast.top[j]
    BY <1>1, <1>2 DEF Tiles
  <2>2. \A i, j \in 1 .. Len(ast.top) : i < j => ast.top[i] < FirstOf(ast)[ast.top[j]]
    BY <1>1, Ordered
  <2> QED BY <1>2, <2>1, <2>2
<1>4. \A i, j \in DOMAIN ast.top : \A m : Under(ast, m, ast.top[i]) /\ Under(ast, m, ast.top[j]) => i = j
  BY TopApart
<1> QED BY <1>2, <1>3, <1>4 DEF Scattered

\* So is the list it opens.
LEMMA OpenedScattered ==
  ASSUME IsAst(ast), NEW n \in DOMAIN ast.nodes, NEW list, Opens(n, list)
  PROVE  Scattered(list) /\ \A j \in DOMAIN list : Child(ast, list[j], n)
<1>1. PICK shift : At(list, shift, Children(at(n)))
  BY OpenedList
<1> DEFINE c == Children(at(n))
<1>2. /\ Len(list) \in Nat /\ shift \in Nat /\ DOMAIN list = 1 .. Len(list)
      /\ \A j \in DOMAIN list : shift + j \in DOMAIN c /\ c[shift + j] = list[j]
  BY <1>1 DEF At
<1>3. \A j \in DOMAIN list : Child(ast, list[j], n)
  BY <1>2 DEF Child, at
<1>4. \A j \in DOMAIN list : list[j] \in DOMAIN ast.nodes
  BY <1>3, ChildUnder
<1>5. \A i, j \in DOMAIN list : i < j => list[i] < list[j]
  <2> TAKE i, j \in DOMAIN list
  <2>1. (i < j) => (shift + i < shift + j)
    BY <1>2
  <2>2. (shift + i < shift + j) => c[shift + i] < c[shift + j]
    BY <1>2, ChildrenAscend DEF at
  <2> QED BY <1>2, <2>1, <2>2
<1>6. \A i, j \in DOMAIN list : \A m : Under(ast, m, list[i]) /\ Under(ast, m, list[j]) => i = j
  <2> SUFFICES ASSUME NEW i \in DOMAIN list, NEW j \in DOMAIN list, NEW m,
                      Under(ast, m, list[i]), Under(ast, m, list[j])
               PROVE  i = j
    OBVIOUS
  <2>1. Under(ast, m, c[shift + i]) /\ Under(ast, m, c[shift + j])
        /\ shift + i \in DOMAIN c /\ shift + j \in DOMAIN c
    BY <1>2
  <2>2. shift + i = shift + j
    BY <2>1, ChildrenApart DEF at
  <2> QED BY <1>2, <2>2
<1> QED BY <1>2, <1>3, <1>4, <1>5, <1>6 DEF Scattered

\* So is the list of every frame.
LEMMA FrameList ==
  ASSUME IInv, NEW k \in DOMAIN frames, NEW list, ListAt(k, list)
  PROVE  /\ Scattered(list)
         /\ list \in ScopeLists(ast)
         /\ k # 1 => /\ frames[k].owner \in DOMAIN ast.nodes
                     /\ frames[k].owner # NoNode
                     /\ at(frames[k].owner).kind \in {"FunctionDeclaration", "If"}
                     /\ \A j \in DOMAIN list : Child(ast, list[j], frames[k].owner)
<1>1. CASE k = 1
  BY <1>1, TopScattered DEF ListAt, ScopeLists, IInv
<1>2. CASE k # 1
  <2> DEFINE o == frames[k].owner
  <2>1. /\ o \in DOMAIN ast.nodes /\ Opens(o, list) /\ IsAst(ast)
        /\ at(o).kind \in {"FunctionDeclaration", "If"}
    BY <1>2 DEF IInv, FramesInv, OwnerAt, ListAt, at
  <2>2. o # NoNode
    BY <2>1, AstFacts
  <2>3. list \in ScopeLists(ast)
    BY <2>1 DEF Opens, ScopeLists, is_function, at
  <2> QED BY <1>2, <2>1, <2>2, <2>3, OpenedScattered
<1> QED BY <1>1, <1>2

-------------------------------------------------------------------------------
(* The tables. *)

\* Of several declarations one comes first.
LEMMA FirstExists ==
  ASSUME IInv, NEW list, Scattered(list), NEW x, Declarations(ast, list, x) # {}
  PROVE  /\ FirstDeclared(ast, list, x) \in Declarations(ast, list, x)
         /\ FirstDeclared(ast, list, x) # NoNode
         /\ \A e \in Declarations(ast, list, x) :
              e = FirstDeclared(ast, list, x) \/ Precedes(ast, FirstDeclared(ast, list, x), e)
<1> DEFINE D == Declarations(ast, list, x)
           F == {d \in D : is_function(at(d))}
<1>1. \A d \in D : d \in Nat /\ d # NoNode
  BY AstFacts DEF IInv, Scattered, Declarations, Range
<1>2. \E d \in D : \A e \in D : e = d \/ Precedes(ast, d, e)
  <2>1. CASE F = {}
    <3>1. PICK d \in D : \A e \in D : d <= e
      <4> HIDE DEF D
      <4>1. D # {} /\ D \subseteq Nat
        BY <1>1 DEF D
      <4> QED BY <4>1, Least
    <3> QED BY <1>1, <2>1, <3>1 DEF Precedes, is_function, at
  <2>2. CASE F # {}
    <3>1. PICK d \in F : \A e \in F : d <= e
      <4>1. F \subseteq Nat
        BY <1>1
      <4> HIDE DEF F
      <4> QED BY <2>2, <4>1, Least
    <3> QED BY <1>1, <3>1 DEF Precedes, is_function, at
  <2> QED BY <2>1, <2>2
<1>3. /\ FirstDeclared(ast, list, x) \in D
      /\ \A e \in D : e = FirstDeclared(ast, list, x) \/ Precedes(ast, FirstDeclared(ast, list, x), e)
  BY <1>2 DEF FirstDeclared
<1> QED BY <1>1, <1>3

\* The declaration that precedes all others of the name is the one that counts.
LEMMA FirstIs ==
  ASSUME NEW list, NEW x, NEW d \in Declarations(ast, list, x), d \in Nat,
         \A e \in Declarations(ast, list, x) : e \in Nat /\ (e = d \/ Precedes(ast, d, e))
  PROVE  FirstDeclared(ast, list, x) = d
<1> DEFINE D == Declarations(ast, list, x)
           e == FirstDeclared(ast, list, x)
<1>1. e \in D /\ \A f \in D : f = e \/ Precedes(ast, e, f)
  BY DEF FirstDeclared
<1>2. e = d \/ (Precedes(ast, e, d) /\ Precedes(ast, d, e))
  BY <1>1
<1>3. e \in Nat
  BY <1>1
<1> HIDE DEF e
<1>4. ~ (Precedes(ast, e, d) /\ Precedes(ast, d, e))
  BY <1>3 DEF Precedes, is_function
<1> QED BY <1>2, <1>4 DEF e

\* What the entries say, as the declarations of a name.
LEMMA SameEntries ==
  ASSUME NEW table, NEW list, NEW r, NEW p, NEW r2, NEW p2, Holds(table, list, r, p),
         \A j \in DOMAIN list : at(list[j]).kind \in Declaration =>
           (Entered(list, r, p, j) <=> Entered(list, r2, p2, j))
  PROVE  Holds(table, list, r2, p2)
<1> SUFFICES ASSUME NEW x \in Name
             PROVE  table[x] = IF \E j \in DOMAIN list : Declares(list, x, j) /\ Entered(list, r2, p2, j)
                               THEN FirstDeclared(ast, list, x) ELSE NoNode
  BY DEF Holds
<1>1. (\E j \in DOMAIN list : Declares(list, x, j) /\ Entered(list, r2, p2, j))
        <=> (\E j \in DOMAIN list : Declares(list, x, j) /\ Entered(list, r, p, j))
  BY DEF Declares
<1> QED BY <1>1 DEF Holds

\* A declaration just entered is the one that counts, or another was entered
\* before.
LEMMA NewEntry ==
  ASSUME IInv, NEW table \in [Name -> {NoNode} \cup DOMAIN ast.nodes], NEW list, NEW r, NEW p, NEW r2, NEW p2,
         Scattered(list), Holds(table, list, r, p), NEW i \in DOMAIN list,
         NEW x \in Name, Declares(list, x, i), NEW new,
         new = IF table[x] = NoNode THEN [table EXCEPT ![x] = list[i]] ELSE table,
         ~ Entered(list, r, p, i),
         \A j \in DOMAIN list : at(list[j]).kind \in Declaration =>
           (Entered(list, r2, p2, j) <=> Entered(list, r, p, j) \/ j = i),
         \A j \in DOMAIN list :
           (at(list[j]).kind \in Declaration /\ ~ Entered(list, r, p, j) /\ j # i)
             => Precedes(ast, list[i], list[j])
  PROVE  Holds(new, list, r2, p2)
<1> DEFINE Some(y) == \E j \in DOMAIN list : Declares(list, y, j) /\ Entered(list, r, p, j)
           Some2(y) == \E j \in DOMAIN list : Declares(list, y, j) /\ Entered(list, r2, p2, j)
<1>1. list[i] \in DOMAIN ast.nodes /\ \A j \in DOMAIN list : list[j] \in DOMAIN ast.nodes
  BY DEF Scattered
<1>2. DOMAIN ast.nodes \subseteq Nat \ {NoNode}
  BY <1>1, AstFacts DEF IInv
<1>3. ASSUME NEW y \in Name
      PROVE  table[y] = IF Some(y) THEN FirstDeclared(ast, list, y) ELSE NoNode
  BY DEF Holds
<1>4. ASSUME NEW y \in Name, y # x
      PROVE  new[y] = table[y] /\ (Some2(y) <=> Some(y))
  BY <1>4 DEF Declares
<1>5. Some2(x)
  BY DEF Declares
<1>6. new[x] = FirstDeclared(ast, list, x)
  <2>1. CASE Some(x)
    <3>1. Declarations(ast, list, x) # {}
      BY <2>1 DEF Declares, Declarations, Range, at
    <3>2. table[x] = FirstDeclared(ast, list, x) /\ table[x] # NoNode
      BY <1>3, <2>1, <3>1, FirstExists
    <3> QED BY <3>2
  <2>2. CASE ~ Some(x)
    <3>1. table[x] = NoNode
      BY <1>3, <2>2
    <3>2. new[x] = list[i]
      BY <3>1
    <3>3. list[i] \in Declarations(ast, list, x)
      BY DEF Declares, Declarations, Range, at
    <3>4. ASSUME NEW e \in Declarations(ast, list, x)
          PROVE  e \in Nat /\ (e = list[i] \/ Precedes(ast, list[i], e))
      <4>1. PICK j \in DOMAIN list : list[j] = e /\ at(list[j]).kind \in Declaration /\ at(list[j]).name = x
        BY DEF Declarations, Range, at
      <4>2. ~ Entered(list, r, p, j)
        BY <2>2, <4>1 DEF Declares
      <4> QED BY <1>1, <1>2, <4>1, <4>2
    <3> QED BY <1>1, <1>2, <3>2, <3>3, <3>4, FirstIs
  <2> QED BY <2>1, <2>2
<1> HIDE DEF Some, Some2
<1>7. \A y \in Name : new[y] = IF Some2(y) THEN FirstDeclared(ast, list, y) ELSE NoNode
  BY <1>3, <1>4, <1>5, <1>6
<1> QED BY <1>7 DEF Holds, Some2

-------------------------------------------------------------------------------
(* What is to be done, and how it changes. *)

LEMMA FromIs ==
  ASSUME NEW what \in Todo, NEW list, Len(list) \in Nat, NEW i \in 0 .. Len(list),
         \A j \in 1 .. Len(list) : list[j] \in Nat
  PROVE  /\ From(what, list, i) \in Seq(Item)
         /\ Len(From(what, list, i)) = Len(list) - i
         /\ \A j \in 1 .. Len(list) - i : From(what, list, i)[j] = do(what, list[i + j])
<1> DEFINE n == Len(list) - i
           s == From(what, list, i)
<1>1. n \in Nat /\ \A j \in 1 .. n : i + j \in 1 .. Len(list)
  OBVIOUS
<1>2. \A j \in 1 .. n : do(what, list[i + j]) \in Item
  BY <1>1 DEF do, Item, NoNode
<1>3. s = [j \in 1 .. n |-> do(what, list[i + j])]
  BY DEF From
<1> HIDE DEF n
<1> QED BY <1>1, <1>2, <1>3 DEF n

\* What is left to be done with a list, from its i-th node on.
LEMMA FromFacts ==
  ASSUME NEW what \in Todo, NEW list, Len(list) \in Nat, NEW i \in 0 .. Len(list),
         \A j \in 1 .. Len(list) : list[j] \in Nat
  PROVE  /\ From(what, list, i) \in Seq(Item)
         /\ From(what, list, i) = << >> <=> i = Len(list)
         /\ i # Len(list) => i + 1 \in 1 .. Len(list) /\ Head(From(what, list, i)) = do(what, list[i + 1])
<1> DEFINE n == Len(list) - i
           s == From(what, list, i)
<1>1. /\ s \in Seq(Item) /\ Len(s) = n /\ n \in Nat
      /\ \A j \in 1 .. n : s[j] = do(what, list[i + j])
  BY FromIs
<1>2. s = << >> <=> i = Len(list)
  BY <1>1
<1>3. ASSUME i # Len(list)
      PROVE  i + 1 \in 1 .. Len(list) /\ Head(s) = do(what, list[i + 1])
  <2>1. Head(s) = s[1] /\ 1 \in 1 .. n /\ i + 1 \in 1 .. Len(list)
    BY <1>1, <1>3
  <2> QED BY <1>1, <2>1
<1> QED BY <1>1, <1>2, <1>3

LEMMA FromTail ==
  ASSUME NEW what \in Todo, NEW list, Len(list) \in Nat, NEW i \in 0 .. Len(list), i # Len(list),
         \A j \in 1 .. Len(list) : list[j] \in Nat
  PROVE  Tail(From(what, list, i)) = From(what, list, i + 1)
<1> DEFINE n == Len(list) - i
           s == From(what, list, i)
           rest == From(what, list, i + 1)
<1>1. /\ s \in Seq(Item) /\ Len(s) = n /\ n \in Nat
      /\ \A j \in 1 .. n : s[j] = do(what, list[i + j])
  BY FromIs
<1>2. n # 0 /\ s # << >> /\ Len(list) - (i + 1) = n - 1 /\ i + 1 \in 0 .. Len(list)
  BY <1>1
<1>3. /\ Tail(s) \in Seq(Item) /\ Len(Tail(s)) = n - 1
      /\ \A j \in 1 .. n - 1 : Tail(s)[j] = s[j + 1]
  BY <1>1, <1>2
<1>4. /\ rest \in Seq(Item) /\ Len(rest) = n - 1
      /\ \A j \in 1 .. n - 1 : rest[j] = do(what, list[i + 1 + j])
  <2>1. PICK i2 : i2 = i + 1
    OBVIOUS
  <2>2. /\ From(what, list, i2) \in Seq(Item) /\ Len(From(what, list, i2)) = Len(list) - i2
        /\ \A j \in 1 .. Len(list) - i2 : From(what, list, i2)[j] = do(what, list[i2 + j])
    <3>1. i2 \in 0 .. Len(list)
      BY <1>2, <2>1
    <3> QED BY <3>1, FromIs
  <2> QED BY <1>2, <2>1, <2>2
<1>5. \A j \in 1 .. n - 1 : Tail(s)[j] = rest[j]
  <2> TAKE j \in 1 .. n - 1
  <2>1. j + 1 \in 1 .. n /\ i + (j + 1) = i + 1 + j
    BY <1>1
  <2>2. s[j + 1] = do(what, list[i + (j + 1)])
    BY <1>1, <2>1
  <2> QED BY <1>3, <1>4, <2>1, <2>2
<1> HIDE DEF s, rest, n
<1>6. Tail(s) = rest
  BY <1>3, <1>4, <1>5, SeqEqual
<1> QED BY <1>6 DEF s, rest

\* A list still to be visited from its start on.
LEMMA VisitsFrom ==
  ASSUME NEW list, DOMAIN list = 1 .. Len(list), Len(list) \in Nat
  PROVE  visits(list) = From("visit", list, 0)
<1>1. Len(list) - 0 = Len(list) /\ \A j \in 1 .. Len(list) : 0 + j = j
  OBVIOUS
<1> QED BY <1>1 DEF visits, From

\* The items of the current frame after a step inside it.
LEMMA ThenTodo ==
  ASSUME IInv, Running, Current.todo # << >>, NEW items \in Seq(Item), Then(items)
  PROVE  LET L == Len(frames) IN
         /\ L \in DOMAIN frames /\ DOMAIN frames' = DOMAIN frames
         /\ frames'[L].todo = items \o Tail(frames[L].todo)
         /\ frames'[L].owner = frames[L].owner
         /\ \A k \in DOMAIN frames : k # L => frames'[k] = frames[k]
<1> DEFINE L == Len(frames)
           todo == items \o Tail(Current.todo)
<1>1. /\ L \in DOMAIN frames /\ frames \in Seq(Frame) /\ frames[L] \in Frame /\ Current = frames[L]
  <2>1. L \in DOMAIN frames /\ frames \in Seq(Frame) /\ Current = frames[L]
    BY HeadFacts DEF IInv, FramesInv, Current
  <2> QED BY <2>1
<1>2. frames' = [frames EXCEPT ![L] = [frames[L] EXCEPT !.todo = todo]]
  BY <1>1 DEF Then
<1>3. [frames[L] EXCEPT !.todo = todo] = [owner |-> frames[L].owner, todo |-> todo]
  BY <1>1, NewTodo
<1>4. Current.todo = frames[L].todo
  BY <1>1
<1> HIDE DEF L, todo
<1>5. /\ DOMAIN frames' = DOMAIN frames /\ frames'[L].todo = todo /\ frames'[L].owner = frames[L].owner
      /\ \A k \in DOMAIN frames : k # L => frames'[k] = frames[k]
  BY <1>1, <1>2, <1>3
<1> QED BY <1>1, <1>4, <1>5 DEF L, todo

\* The items of the frames after a step that opens one.
LEMMA EnterTodo ==
  ASSUME IInv, Running, Current.todo # << >>, NEW items \in Seq(Item), NEW list, Enter(list, items)
  PROVE  LET L == Len(frames) IN
         /\ L \in Nat \ {0} /\ L \in DOMAIN frames /\ DOMAIN frames' = DOMAIN frames \cup {L + 1}
         /\ L + 1 \notin DOMAIN frames
         /\ frames'[L].todo = items \o Tail(frames[L].todo)
         /\ frames'[L].owner = frames[L].owner
         /\ frames'[L + 1].owner = this /\ frames'[L + 1].todo = visits(list)
         /\ \A k \in DOMAIN frames : k # L => frames'[k] = frames[k]
<1> DEFINE L == Len(frames)
           todo == items \o Tail(Current.todo)
           opened == [owner |-> this, todo |-> visits(list)]
           before == [frames EXCEPT ![L] = [frames[L] EXCEPT !.todo = todo]]
<1>1. /\ L \in Nat \ {0} /\ L \in DOMAIN frames /\ frames \in Seq(Frame)
      /\ frames[L] \in Frame /\ frames[L].todo \in Seq(Item) /\ frames[L].todo # << >>
      /\ Current = frames[L]
  <2>1. L \in Nat \ {0} /\ L \in DOMAIN frames /\ frames \in Seq(Frame) /\ Current = frames[L]
    BY HeadFacts DEF IInv, FramesInv, Current
  <2>2. frames[L] \in Frame
    BY <2>1
  <2> QED BY <2>1, <2>2 DEF Frame
<1>2. frames' = Append(before, opened)
  BY <1>1 DEF Enter
<1>3. [frames[L] EXCEPT !.todo = todo] = [owner |-> frames[L].owner, todo |-> todo]
  BY <1>1, NewTodo
<1>4. todo \in Seq(Item) /\ todo = items \o Tail(frames[L].todo)
  BY <1>1, ListFacts
<1>5. opened.todo = visits(list) /\ opened.owner = this
  OBVIOUS
<1> HIDE DEF todo, L, opened
<1>6. [owner |-> frames[L].owner, todo |-> todo] \in Frame
  BY <1>1, <1>4 DEF Frame
<1>7. /\ before \in Seq(Frame) /\ Len(before) = L /\ DOMAIN before = DOMAIN frames
      /\ before[L].todo = todo /\ before[L].owner = frames[L].owner
      /\ \A k \in DOMAIN frames : k # L => before[k] = frames[k]
  BY <1>1, <1>3, <1>6 DEF L
<1>8. DOMAIN frames = 1 .. L
  BY <1>1 DEF L
<1> HIDE DEF before
<1>9. /\ DOMAIN frames' = DOMAIN frames \cup {L + 1} /\ L + 1 \notin DOMAIN frames
      /\ frames'[L + 1] = opened
      /\ \A k \in DOMAIN frames : frames'[k] = before[k]
  BY <1>1, <1>2, <1>7, <1>8
<1> QED BY <1>1, <1>4, <1>5, <1>7, <1>9 DEF L

-------------------------------------------------------------------------------
(* How a frame goes on. *)

\* What doing the first item may leave to be done, whichever the item is.
Offspring(items) ==
    LET what == Head(Current.todo).do IN
    /\ \A j \in DOMAIN items :
         /\ items[j].do # "register"
         /\ \/ items[j].node = this /\ (items[j].do \notin {"visit", "argument"} \/ what = "argument")
            \/ what = "visit" /\ items[j].node \in Range(at(this).operands)
         /\ items[j].do = "declare_variable" =>
              what = "visit" /\ at(this).kind = "VariableDeclaration" /\ j = Len(items)
    /\ (what = "visit" /\ at(this).kind = "VariableDeclaration") =>
         items # << >> /\ items[Len(items)].do = "declare_variable"
    /\ (what = "visit" /\ at(this).kind \in Declaration \ {"VariableDeclaration"}) => items = << >>
    /\ what \in {"register", "declare_variable"} => items = << >>

\* How much further the table gets by it.
Moves(list, r, p, r2, p2) ==
    LET what == Head(Current.todo).do IN
    \/ /\ what = "register" /\ r2 = r + 1 /\ p2 = p
       /\ r2 \in DOMAIN list /\ list[r2] = this
    \/ /\ what # "register" /\ r2 = r /\ r = Len(list)
       /\ \/ /\ p2 = p + 1 /\ p2 \in DOMAIN list /\ list[p2] = this
             /\ what = "declare_variable" \/ (what = "visit" /\ at(this).kind # "VariableDeclaration")
          \/ /\ p2 = p /\ what # "declare_variable"
             /\ ~ (what = "visit" /\ at(this).kind \in {"ConstantDeclaration", "Argument"})

LEMMA TailJoin ==
  ASSUME NEW S, NEW s \in Seq(S), s # << >>, NEW t \in Seq(S)
  PROVE  /\ 1 \in DOMAIN s /\ Head(s) = s[1] /\ Head(s \o t) = s[1]
         /\ Tail(s) \in Seq(S) /\ Tail(s \o t) = Tail(s) \o t
<1> DEFINE a == Tail(s \o t)
           b == Tail(s) \o t
           n == Len(s) + Len(t) - 1
<1>1. s \o t \in Seq(S) /\ Len(s \o t) = n + 1 /\ n \in Nat /\ s \o t # << >>
  OBVIOUS
<1>2. a \in Seq(S) /\ Len(a) = n /\ \A j \in 1 .. n : a[j] = (s \o t)[j + 1]
  BY <1>1
<1>3. /\ Tail(s) \in Seq(S) /\ Len(Tail(s)) = Len(s) - 1 /\ Len(s) \in Nat \ {0} /\ Len(t) \in Nat
      /\ \A j \in 1 .. Len(s) - 1 : Tail(s)[j] = s[j + 1]
  OBVIOUS
<1>4. b \in Seq(S) /\ Len(b) = n
  BY <1>3
<1>5. \A j \in 1 .. n : a[j] = b[j]
  <2> TAKE j \in 1 .. n
  <2>1. CASE j \in 1 .. Len(s) - 1
    <3>1. (s \o t)[j + 1] = s[j + 1] /\ b[j] = Tail(s)[j]
      BY <1>3, <2>1
    <3> QED BY <1>2, <1>3, <2>1, <3>1
  <2>2. CASE j \notin 1 .. Len(s) - 1
    <3>1. (s \o t)[j + 1] = t[j + 1 - Len(s)] /\ b[j] = t[j - (Len(s) - 1)]
      BY <1>3, <2>2
    <3> QED BY <1>2, <1>3, <3>1
  <2> QED BY <2>1, <2>2
<1> HIDE DEF a, b, n
<1>6. a = b
  BY <1>2, <1>4, <1>5, SeqEqual
<1>7. 1 \in DOMAIN s /\ Head(s) = s[1] /\ Head(s \o t) = s[1]
  OBVIOUS
<1> QED BY <1>3, <1>6, <1>7 DEF a, b

\* What the first item is: the next visit of the list, work on the node the
\* frame is at, or a registration.
LEMMA Heads ==
  ASSUME IInv, Running, Current.todo # << >>, NEW list, Scattered(list), NEW i, NEW r, NEW inner,
         Shape(Len(frames), list, i, r, inner, frames[Len(frames)].todo)
  PROVE  LET h == Head(Current.todo)
             rest == Tail(frames[Len(frames)].todo)
         IN \/ /\ inner = << >> /\ r = Len(list) /\ i + 1 \in DOMAIN list /\ i \in Nat
               /\ h.do = "visit" /\ h.node = list[i + 1]
               /\ rest = From("visit", list, i + 1)
            \/ /\ i # 0 /\ i \in DOMAIN list /\ inner # << >> /\ r = Len(list)
               /\ h = inner[1] /\ Inside(list[i], h) /\ h.do # "register"
               /\ rest = Tail(inner) \o From("visit", list, i)
            \/ /\ i = 0 /\ r \in Nat /\ r + 1 \in DOMAIN list
               /\ h.do = "register" /\ h.node = list[r + 1]
               /\ rest = From("register", list, r + 1) \o From("visit", list, 0)
<1> DEFINE L == Len(frames)
           h == Head(Current.todo)
           todo == frames[L].todo
           ahead == From("visit", list, i)
<1>1. /\ Len(list) \in Nat /\ DOMAIN list = 1 .. Len(list) /\ i \in 0 .. Len(list) /\ r \in 0 .. Len(list)
      /\ \A j \in 1 .. Len(list) : list[j] \in Nat
  BY AstFacts DEF Scattered, Shape, IInv
<1>0. "visit" \in Todo /\ "register" \in Todo
  BY DEF Todo
<1>2. h = Head(todo) /\ todo # << >> /\ todo = inner \o ahead /\ inner \in Seq(Item)
  BY DEF Current, Shape
<1>3. /\ ahead \in Seq(Item)
      /\ ahead = << >> <=> i = Len(list)
      /\ i # Len(list) => /\ i + 1 \in 1 .. Len(list)
                          /\ Head(ahead) = do("visit", list[i + 1])
                          /\ Tail(ahead) = From("visit", list, i + 1)
  <2>1. /\ From("visit", list, i) \in Seq(Item)
        /\ From("visit", list, i) = << >> <=> i = Len(list)
        /\ i # Len(list) => i + 1 \in 1 .. Len(list) /\ Head(From("visit", list, i)) = do("visit", list[i + 1])
    BY <1>0, <1>1, FromFacts
  <2>2. i # Len(list) => Tail(From("visit", list, i)) = From("visit", list, i + 1)
    BY <1>0, <1>1, FromTail
  <2> QED BY <2>1, <2>2
<1> HIDE DEF ahead, todo, h
<1>4. CASE inner = << >>
  <2>1. todo = ahead /\ i # Len(list)
    BY <1>2, <1>3, <1>4
  <2>2. h.do = "visit" /\ h.node = list[i + 1] /\ Tail(todo) = From("visit", list, i + 1)
    BY <1>2, <1>3, <2>1 DEF do
  <2>3. r = Len(list)
    <3>1. CASE i = 0
      <4>1. From("register", list, r) = << >>
        BY <1>4, <3>1 DEF Shape
      <4> QED BY <1>0, <1>1, <4>1, FromFacts
    <3> QED BY <3>1 DEF Shape
  <2> QED BY <1>1, <1>3, <1>4, <2>1, <2>2, <2>3 DEF h, todo
<1>5. ASSUME inner # << >>
      PROVE  h = inner[1] /\ h = Head(inner) /\ Tail(todo) = Tail(inner) \o ahead /\ 1 \in DOMAIN inner
             /\ Tail(inner) \in Seq(Item)
  BY <1>2, <1>3, <1>5, TailJoin
<1>6. CASE inner # << >> /\ i # 0
  <2>1. Inside(list[i], inner[1]) /\ r = Len(list)
    BY <1>5, <1>6 DEF Shape, Belongs
  <2>2. h.do # "register"
    BY <1>5, <1>6, <2>1 DEF Inside
  <2>3. /\ i \in DOMAIN list /\ h = inner[1] /\ Inside(list[i], h) /\ h.do # "register"
        /\ Tail(todo) = Tail(inner) \o ahead
    BY <1>1, <1>5, <1>6, <2>1, <2>2
  <2> QED BY <1>6, <2>1, <2>3 DEF h, todo, ahead
<1>7. CASE inner # << >> /\ i = 0
  <2>1. inner = From("register", list, r)
    BY <1>7 DEF Shape
  <2>2. /\ r + 1 \in 1 .. Len(list) /\ Head(inner) = do("register", list[r + 1])
        /\ Tail(inner) = From("register", list, r + 1)
    <3>1. From("register", list, r) # << >>
      BY <1>7, <2>1
    <3>2. r # Len(list) /\ r + 1 \in 1 .. Len(list) /\ Head(From("register", list, r)) = do("register", list[r + 1])
      BY <1>0, <1>1, <3>1, FromFacts
    <3>3. Tail(From("register", list, r)) = From("register", list, r + 1)
      BY <1>0, <1>1, <3>2, FromTail
    <3> QED BY <2>1, <3>2, <3>3
  <2>3. h.do = "register" /\ h.node = list[r + 1]
    BY <1>5, <1>7, <2>2 DEF do
  <2>4. r \in Nat /\ r + 1 \in DOMAIN list
    BY <1>1, <2>2
  <2>5. ahead = From("visit", list, 0)
    BY <1>7 DEF ahead
  <2>6. Tail(todo) = Tail(inner) \o ahead
    BY <1>5, <1>7
  <2>7. Tail(todo) = From("register", list, r + 1) \o From("visit", list, 0)
    BY <2>2, <2>5, <2>6
  <2> QED BY <1>7, <2>3, <2>4, <2>7 DEF h, todo
<1> QED BY <1>4, <1>6, <1>7

\* Below an operand there are expressions only.
LEMMA OperandUnder ==
  ASSUME IsAst(ast), NEW n \in DOMAIN ast.nodes, NEW o \in Range(at(n).operands)
  PROVE  /\ Child(ast, o, n) /\ o \in DOMAIN ast.nodes /\ at(o).kind \in Expression
         /\ Under(ast, o, o) /\ Under(ast, o, n)
         /\ \A m : Under(ast, m, o) => m \in DOMAIN ast.nodes /\ at(m).kind \in Expression /\ m <= o
<1>1. PICK j \in DOMAIN at(n).operands : at(n).operands[j] = o
  BY DEF Range
<1>2. o \in DOMAIN ast.nodes /\ at(o).kind \in Expression
  BY <1>1, AstFacts
<1>3. Child(ast, o, n)
  <2>1. At(at(n).operands, 0, Children(at(n)))
    BY Sections DEF at
  <2>2. 0 + j \in DOMAIN Children(at(n)) /\ Children(at(n))[0 + j] = o
    BY <1>1, <2>1 DEF At
  <2> QED BY <2>2 DEF Child, at
<1>4. Under(ast, o, n) /\ Under(ast, o, o)
  BY <1>2, <1>3, ChildUnder, UnderFacts
<1>5. ASSUME NEW m, Under(ast, m, o)
      PROVE  m \in DOMAIN ast.nodes /\ at(m).kind \in Expression /\ m <= o
  BY <1>2, <1>5, ExpressionsBelow, UnderFacts DEF at
<1> QED BY <1>2, <1>3, <1>4, <1>5

LEMMA NotExpressions ==
  /\ Expression \cap Declaration = {}
  /\ Expression \cap {"VariableDeclaration", "ConstantDeclaration", "Argument", "FunctionDeclaration", "If"} = {}
BY DEF Expression, Declaration, Literal

\* When its first item is replaced by others for the same node, or by none, the
\* current frame stays at that node of its list or goes to the next, and how
\* far its table has come moves with it.
LEMMA Goes ==
  ASSUME IInv, Running, Current.todo # << >>, NEW list, Scattered(list), NEW i, NEW r, NEW inner,
         Shape(Len(frames), list, i, r, inner, frames[Len(frames)].todo),
         NEW items \in Seq(Item), Offspring(items)
  PROVE  \E i2, r2, inner2 :
           /\ Shape(Len(frames), list, i2, r2, inner2, items \o Tail(frames[Len(frames)].todo))
           /\ Moves(list, r, Behind(list, i, inner), r2, Behind(list, i2, inner2))
           /\ \/ Head(Current.todo).do \in {"check_condition", "else_block"}
              \/ Head(Current.todo).do = "visit" /\ is_function(at(this))
              => i2 # 0 /\ i2 \in DOMAIN list /\ list[i2] = this
<1> DEFINE L == Len(frames)
           h == Head(Current.todo)
           what == h.do
           rest == Tail(frames[L].todo)
<1>1. /\ Len(list) \in Nat /\ DOMAIN list = 1 .. Len(list) /\ i \in 0 .. Len(list) /\ r \in 0 .. Len(list)
      /\ inner \in Seq(Item)
      /\ \A j \in DOMAIN list : list[j] \in DOMAIN ast.nodes
      /\ L # 1 \/ i # 0 => r = Len(list)
      /\ i # 0 => Belongs(list[i], inner)
  BY DEF Scattered, Shape
<1>0. Len(list) \in Nat /\ i \in 0 .. Len(list) /\ i \in Nat /\ r \in 0 .. Len(list)
  <2>1. Len(list) \in Nat /\ i \in 0 .. Len(list) /\ r \in 0 .. Len(list)
    BY DEF Scattered, Shape
  <2> QED BY <2>1
<1>2. h \in Item /\ this \in DOMAIN ast.nodes /\ this = h.node /\ IsAst(ast)
      /\ L \in Nat \ {0}
  BY HeadFacts DEF this, IInv
<1>3. what = "declare_variable" => at(this).kind = "VariableDeclaration"
  BY <1>2, HeadFacts DEF ItemAt, TopItem, Fits, at
<1>4. what \in {"check_condition", "else_block"} => at(this).kind = "If"
  BY <1>2, HeadFacts DEF ItemAt, TopItem, Fits, at
<1>5. CASE /\ inner = << >> /\ r = Len(list) /\ i + 1 \in DOMAIN list /\ i \in Nat
           /\ h.do = "visit" /\ h.node = list[i + 1]
           /\ rest = From("visit", list, i + 1)
  <2>1. Belongs(this, items)
    <3>1. ASSUME NEW j \in DOMAIN items
          PROVE  Inside(this, items[j]) /\ (items[j].do = "declare_variable" => j = Len(items))
      BY <1>2, <1>5, OperandUnder DEF Offspring, Inside
    <3>2. (at(this).kind \in Declaration /\ items # << >>) => items[Len(items)].do = "declare_variable"
      BY <1>5 DEF Offspring
    <3> QED BY <3>1, <3>2 DEF Belongs
  <2>0. PICK i2 : i2 = i + 1
    OBVIOUS
  <2>2. Shape(L, list, i2, r, items, items \o rest)
    <3>1. i2 # 0 /\ i2 \in 0 .. Len(list) /\ list[i2] = this
      BY <1>0, <1>1, <1>2, <1>5, <2>0
    <3>2. items \o rest = items \o From("visit", list, i2)
      BY <1>5, <2>0
    <3> QED BY <1>0, <1>5, <2>1, <3>1, <3>2 DEF Shape
  <2>3. Moves(list, r, Behind(list, i, inner), r, Behind(list, i2, items))
    <3>1. Behind(list, i, inner) = i
      BY <1>5 DEF Behind
    <3>2. i2 # 0 /\ i2 - 1 = i /\ i + 1 = i2 /\ list[i2] = this
      BY <1>0, <1>2, <1>5, <2>0
    <3>3. CASE items # << >> /\ at(this).kind \in Declaration
      <4>1. Behind(list, i2, items) = i
        BY <3>2, <3>3 DEF Behind
      <4> QED BY <1>5, <3>1, <3>3, <4>1 DEF Moves, Offspring, Declaration
    <3>4. CASE ~ (items # << >> /\ at(this).kind \in Declaration)
      <4>1. Behind(list, i2, items) = i2
        BY <3>2, <3>4 DEF Behind
      <4>2. at(this).kind # "VariableDeclaration"
        BY <1>5, <3>4 DEF Offspring, Declaration
      <4> QED BY <1>5, <3>1, <3>2, <4>1, <4>2 DEF Moves
    <3> QED BY <3>3, <3>4
  <2>4. i2 # 0 /\ i2 \in DOMAIN list /\ list[i2] = this
    BY <1>0, <1>2, <1>5, <2>0
  <2> QED BY <2>2, <2>3, <2>4
<1>6. CASE /\ i # 0 /\ i \in DOMAIN list /\ inner # << >> /\ r = Len(list)
           /\ h = inner[1] /\ Inside(list[i], h) /\ h.do # "register"
           /\ rest = Tail(inner) \o From("visit", list, i)
  <2> DEFINE m == list[i]
             inner2 == items \o Tail(inner)
  <2>1. m \in DOMAIN ast.nodes /\ Belongs(m, inner)
    BY <1>1, <1>6
  <2>2. (this = m /\ what \notin {"visit", "argument"}) \/ \E o \in Range(at(m).operands) : Under(ast, this, o)
    BY <1>2, <1>6 DEF Inside
  <2>3. (\E o \in Range(at(m).operands) : Under(ast, this, o)) => at(this).kind \in Expression
    BY <1>2, <2>1, OperandUnder
  <2>4. what = "visit" => at(this).kind \in Expression
    BY <2>2, <2>3
  <2>5. ASSUME NEW j \in DOMAIN items
        PROVE  Inside(m, items[j]) /\ items[j].do # "declare_variable"
    <3>1. items[j].do # "register"
      BY DEF Offspring
    <3>2. items[j].do # "declare_variable"
      BY <2>4, NotExpressions DEF Offspring
    <3>3. CASE items[j].node = this /\ (items[j].do \notin {"visit", "argument"} \/ what = "argument")
      BY <2>2, <3>1, <3>2, <3>3 DEF Inside
    <3>4. CASE what = "visit" /\ items[j].node \in Range(at(this).operands)
      <4>1. PICK o \in Range(at(m).operands) : Under(ast, this, o)
        BY <2>2, <3>4
      <4>2. o \in DOMAIN ast.nodes
        BY <1>2, <2>1, OperandUnder
      <4>3. Under(ast, items[j].node, this)
        BY <1>2, <3>4, OperandUnder
      <4>4. Under(ast, items[j].node, o)
        BY <1>2, <4>1, <4>2, <4>3, Transitive
      <4> QED BY <3>1, <3>2, <4>4 DEF Inside
    <3> QED BY <3>2, <3>3, <3>4 DEF Offspring
  <2>6. /\ Tail(inner) \in Seq(Item) /\ Len(Tail(inner)) = Len(inner) - 1 /\ Len(inner) \in Nat \ {0}
        /\ \A j \in 1 .. Len(inner) - 1 : Tail(inner)[j] = inner[j + 1]
        /\ Len(items) \in Nat /\ DOMAIN items = 1 .. Len(items) /\ DOMAIN inner = 1 .. Len(inner)
    BY <1>1, <1>6
  <2>7. /\ inner2 \in Seq(Item) /\ Len(inner2) = Len(items) + Len(inner) - 1
        /\ DOMAIN inner2 = 1 .. Len(inner2)
        /\ \A j \in 1 .. Len(items) : inner2[j] = items[j]
        /\ \A j \in 1 .. Len(inner) - 1 : inner2[Len(items) + j] = inner[j + 1]
    <3>1. PICK t : t = Tail(inner)
      OBVIOUS
    <3>2. /\ items \o t \in Seq(Item) /\ Len(items \o t) = Len(items) + Len(t)
          /\ DOMAIN (items \o t) = 1 .. Len(items) + Len(t)
          /\ \A j \in 1 .. Len(items) : (items \o t)[j] = items[j]
          /\ \A j \in 1 .. Len(t) : (items \o t)[Len(items) + j] = t[j]
      BY <2>6, <3>1, Joins
    <3> QED BY <2>6, <3>1, <3>2
  <2> HIDE DEF inner2
  <2>8. \A j \in DOMAIN inner : Inside(m, inner[j]) /\ (inner[j].do = "declare_variable" => j = Len(inner))
    BY <2>1 DEF Belongs
  <2>9. Belongs(m, inner2)
    <3>1. ASSUME NEW j \in DOMAIN inner2
          PROVE  Inside(m, inner2[j]) /\ (inner2[j].do = "declare_variable" => j = Len(inner2))
      <4>1. CASE j \in 1 .. Len(items)
        BY <2>5, <2>6, <2>7, <4>1
      <4>2. CASE j \notin 1 .. Len(items)
        <5>1. PICK q : q = j - Len(items)
          OBVIOUS
        <5>2. q \in 1 .. Len(inner) - 1 /\ j = Len(items) + q /\ q + 1 \in DOMAIN inner
          BY <2>6, <2>7, <4>2, <5>1
        <5>3. inner2[j] = inner[q + 1]
          BY <2>7, <5>2
        <5>4. q + 1 = Len(inner) => j = Len(inner2)
          <6>1. Len(inner2) = Len(items) + Len(inner) - 1 /\ Len(items) \in Nat /\ Len(inner) \in Nat /\ q \in Nat
            BY <2>6, <2>7, <5>2
          <6> QED BY <5>2, <6>1
        <5> QED BY <2>8, <5>2, <5>3, <5>4
      <4> QED BY <4>1, <4>2
    <3>2. ASSUME at(m).kind \in Declaration, inner2 # << >>
          PROVE  inner2[Len(inner2)].do = "declare_variable"
      <4>1. inner[Len(inner)].do = "declare_variable"
        BY <1>6, <2>1, <3>2 DEF Belongs
      <4>2. CASE Len(inner) = 1
        <5>1. what = "declare_variable"
          BY <1>6, <4>1, <4>2
        <5>2. items = << >>
          BY <5>1 DEF Offspring
        <5>3. Len(inner2) = 0
          BY <2>7, <4>2, <5>2
        <5> QED BY <2>7, <3>2, <5>3
      <4>3. CASE Len(inner) # 1
        <5>1. PICK q : q = Len(inner) - 1
          OBVIOUS
        <5>2. q \in 1 .. Len(inner) - 1 /\ Len(items) + q = Len(inner2) /\ q + 1 = Len(inner)
          BY <2>6, <2>7, <4>3, <5>1
        <5>3. inner2[Len(inner2)] = inner[Len(inner)]
          BY <2>7, <5>2
        <5> QED BY <4>1, <5>3
      <4> QED BY <4>2, <4>3
    <3> QED BY <3>1, <3>2 DEF Belongs
  <2>10. items \o rest = inner2 \o From("visit", list, i)
    <3>1. From("visit", list, i) \in Seq(Item)
      <4>1. "visit" \in Todo /\ \A j \in 1 .. Len(list) : list[j] \in Nat
        BY <1>1, <1>2, AstFacts DEF Todo
      <4> QED BY <1>1, <4>1, FromFacts
    <3>2. items \o (Tail(inner) \o From("visit", list, i)) = (items \o Tail(inner)) \o From("visit", list, i)
      <4>1. PICK a, b, c : a = items /\ b = Tail(inner) /\ c = From("visit", list, i)
        OBVIOUS
      <4>2. a \in Seq(Item) /\ b \in Seq(Item) /\ c \in Seq(Item)
        BY <2>6, <3>1, <4>1
      <4>3. a \o (b \o c) = (a \o b) \o c
        BY SMTT(20), <4>2
      <4> QED BY <4>1, <4>3
    <3> QED BY <1>6, <3>2 DEF inner2
  <2>11. Shape(L, list, i, r, inner2, items \o rest)
    BY <1>1, <1>6, <2>7, <2>9, <2>10 DEF Shape
  <2>12. Moves(list, r, Behind(list, i, inner), r, Behind(list, i, inner2))
    <3>1. ~ (what = "visit" /\ at(this).kind \in {"ConstantDeclaration", "Argument"})
      BY <2>4, NotExpressions
    <3>2. CASE at(m).kind \notin Declaration
      <4>1. Behind(list, i, inner) = i /\ Behind(list, i, inner2) = i
        BY <3>2 DEF Behind
      <4>2. what # "declare_variable"
        BY <1>3, <2>2, <2>3, <3>2, NotExpressions DEF Declaration
      <4> QED BY <1>6, <3>1, <4>1, <4>2 DEF Moves
    <3>3. CASE at(m).kind \in Declaration /\ inner2 # << >>
      <4>1. Behind(list, i, inner) = i - 1 /\ Behind(list, i, inner2) = i - 1
        BY <1>6, <3>3 DEF Behind
      <4>2. what # "declare_variable"
        <5>1. SUFFICES ASSUME what = "declare_variable"
                       PROVE  FALSE
          OBVIOUS
        <5>2. 1 = Len(inner)
          BY <1>6, <2>6, <2>8, <5>1
        <5>3. items = << >>
          BY <5>1 DEF Offspring
        <5>4. Len(inner2) = 0
          <6>1. Len(items) = 0
            BY <5>3
          <6>2. Len(inner2) = Len(items) + Len(inner) - 1
            BY <2>7
          <6> QED BY <5>2, <6>1, <6>2
        <5> QED BY <2>7, <3>3, <5>4
      <4> QED BY <1>6, <3>1, <4>1, <4>2 DEF Moves
    <3>4. CASE at(m).kind \in Declaration /\ inner2 = << >>
      <4>1. Behind(list, i, inner) = i - 1 /\ Behind(list, i, inner2) = i
        BY <1>6, <3>4 DEF Behind
      <4>2. Len(inner) = 1
        <5>1. Len(inner2) = 0
          BY <3>4
        <5> QED BY <2>6, <2>7, <5>1
      <4>3. what = "declare_variable"
        BY <1>6, <2>1, <3>4, <4>2 DEF Belongs
      <4>4. this = m
        BY <1>3, <2>2, <2>3, <4>3, NotExpressions
      <4>5. i = (i - 1) + 1
        BY <1>0
      <4> QED BY <1>6, <4>1, <4>3, <4>4, <4>5 DEF Moves
    <3> QED BY <3>2, <3>3, <3>4
  <2>13. (what \in {"check_condition", "else_block"} \/ (what = "visit" /\ is_function(at(this)))) => this = m
    BY <1>4, <2>2, <2>3, <2>4, NotExpressions DEF is_function
  <2> QED BY <1>6, <2>11, <2>12, <2>13
<1>7. CASE /\ i = 0 /\ r \in Nat /\ r + 1 \in DOMAIN list
           /\ h.do = "register" /\ h.node = list[r + 1]
           /\ rest = From("register", list, r + 1) \o From("visit", list, 0)
  <2> DEFINE inner2 == From("register", list, r + 1)
  <2>1. inner2 \in Seq(Item) /\ From("visit", list, 0) \in Seq(Item)
    <3>1. {"visit", "register"} \subseteq Todo /\ \A j \in 1 .. Len(list) : list[j] \in Nat
      BY <1>1, <1>2, AstFacts DEF Todo
    <3>2. r + 1 \in 0 .. Len(list) /\ 0 \in 0 .. Len(list)
      <4>1. r + 1 \in 1 .. Len(list)
        BY <1>1, <1>7
      <4> QED BY <1>0, <4>1
    <3> QED BY <1>1, <3>1, <3>2, FromFacts
  <2>2. items = << >>
    BY <1>7 DEF Offspring
  <2>3. items \o rest = inner2 \o From("visit", list, 0)
    <3>1. \A s \in Seq(Item) : << >> \o s = s
      BY ConcatEmptySeq
    <3>2. PICK s : s = inner2 \o From("visit", list, 0)
      OBVIOUS
    <3> HIDE DEF inner2
    <3>3. s \in Seq(Item)
      BY <2>1, <3>2, Joined
    <3> QED BY <1>7, <2>2, <3>1, <3>2, <3>3 DEF inner2
  <2> HIDE DEF inner2
  <2>4. L = 1
    BY <1>1, <1>7
  <2>5. Shape(L, list, 0, r + 1, inner2, items \o rest)
    <3>1. r + 1 \in 0 .. Len(list) /\ 0 \in 0 .. Len(list)
      <4>1. r + 1 \in 1 .. Len(list)
        BY <1>1, <1>7
      <4> QED BY <1>0, <4>1
    <3> QED BY <2>1, <2>3, <2>4, <3>1 DEF Shape, inner2
  <2>6. Behind(list, i, inner) = 0 /\ Behind(list, 0, inner2) = 0
    BY <1>7 DEF Behind
  <2>7. Moves(list, r, Behind(list, i, inner), r + 1, Behind(list, 0, inner2))
    BY <1>2, <1>7, <2>6 DEF Moves
  <2>8. what = "register"
    BY <1>7
  <2>9. /\ Shape(L, list, 0, r + 1, inner2, items \o rest)
        /\ Moves(list, r, Behind(list, i, inner), r + 1, Behind(list, 0, inner2))
        /\ \/ what \in {"check_condition", "else_block"}
           \/ what = "visit" /\ is_function(at(this))
           => 0 # 0 /\ 0 \in DOMAIN list /\ list[0] = this
    BY <2>5, <2>7, <2>8
  <2>10. PICK i2, r2 : i2 = 0 /\ r2 = r + 1
    OBVIOUS
  <2>11. /\ Shape(L, list, i2, r2, inner2, items \o rest)
         /\ Moves(list, r, Behind(list, i, inner), r2, Behind(list, i2, inner2))
         /\ \/ what \in {"check_condition", "else_block"}
            \/ what = "visit" /\ is_function(at(this))
            => i2 # 0 /\ i2 \in DOMAIN list /\ list[i2] = this
    BY <2>9, <2>10
  <2> QED BY <2>11
<1>8. \/ /\ inner = << >> /\ r = Len(list) /\ i + 1 \in DOMAIN list /\ i \in Nat
         /\ h.do = "visit" /\ h.node = list[i + 1]
         /\ rest = From("visit", list, i + 1)
      \/ /\ i # 0 /\ i \in DOMAIN list /\ inner # << >> /\ r = Len(list)
         /\ h = inner[1] /\ Inside(list[i], h) /\ h.do # "register"
         /\ rest = Tail(inner) \o From("visit", list, i)
      \/ /\ i = 0 /\ r \in Nat /\ r + 1 \in DOMAIN list
         /\ h.do = "register" /\ h.node = list[r + 1]
         /\ rest = From("register", list, r + 1) \o From("visit", list, 0)
  BY Heads
<1> QED BY <1>5, <1>6, <1>7, <1>8

-------------------------------------------------------------------------------
(* The tables of the frames through a step. *)
\* What the frames are at is said of the tree alone.
LEMMA SameShape ==
  ASSUME ast' = ast, NEW k, NEW list, NEW i, NEW r, NEW inner, NEW todo
  PROVE  /\ Shape(k, list, i, r, inner, todo)' <=> Shape(k, list, i, r, inner, todo)
         /\ Behind(list, i, inner)' = Behind(list, i, inner)
         /\ Scattered(list)' <=> Scattered(list)
         /\ \A n : Opens(n, list)' <=> Opens(n, list)
<1>1. Behind(list, i, inner)' = Behind(list, i, inner)
  BY DEF Behind, at
<1>2. Scattered(list)' <=> Scattered(list)
  BY DEF Scattered
<1>3. \A n : Opens(n, list)' <=> Opens(n, list)
  BY DEF Opens, at
<1>4. \A m, item : Inside(m, item)' <=> Inside(m, item)
  BY DEF Inside, at
<1>5. \A m : Belongs(m, inner)' <=> Belongs(m, inner)
  BY <1>4 DEF Belongs, at
<1>6. \A what, j : From(what, list, j)' = From(what, list, j)
  BY DEF From, do
<1>7. Shape(k, list, i, r, inner, todo)' <=> Shape(k, list, i, r, inner, todo)
  BY <1>5, <1>6 DEF Shape
<1> QED BY <1>1, <1>2, <1>3, <1>7

\* A table a step leaves alone holds what it held.
LEMMA SameTable ==
  ASSUME ast' = ast, NEW table, NEW list, NEW r, NEW p
  PROVE  Holds(table, list, r, p)' <=> Holds(table, list, r, p)
<1>1. \A x, j : Declares(list, x, j)' <=> Declares(list, x, j)
  BY DEF Declares, at
<1>2. \A j : Entered(list, r, p, j)' <=> Entered(list, r, p, j)
  BY DEF Entered, at
<1> QED BY <1>1, <1>2 DEF Holds

\* What becomes of the current table when the current frame moves on.
TableMoves ==
    \A list, r, p, r2, p2 :
      /\ Scattered(list) /\ r \in Nat /\ p \in Nat
      /\ Moves(list, r, p, r2, p2)
      /\ Holds(scopes[Len(frames)], list, r, p)
      => Holds(scopes'[Len(frames)], list, r2, p2)

\* A step that enters nothing leaves the last table what is declared up to
\* where the frame has come.
LEMMA StillTable ==
  ASSUME IInv, scopes'[Len(frames)] = scopes[Len(frames)],
         Head(Current.todo).do = "register" => ~ is_function(at(this)),
         Head(Current.todo).do = "visit" => at(this).kind \notin {"ConstantDeclaration", "Argument"},
         Head(Current.todo).do # "declare_variable"
  PROVE  TableMoves
<1> DEFINE what == Head(Current.todo).do
<1> SUFFICES ASSUME NEW list, NEW r, NEW p, NEW r2, NEW p2,
                    Scattered(list), r \in Nat, p \in Nat, Moves(list, r, p, r2, p2),
                    Holds(scopes[Len(frames)], list, r, p)
             PROVE  Holds(scopes[Len(frames)], list, r2, p2)
  BY DEF TableMoves
<1>1. ASSUME NEW j \in DOMAIN list, at(list[j]).kind \in Declaration
      PROVE  Entered(list, r, p, j) <=> Entered(list, r2, p2, j)
  <2>1. j \in Nat
    BY DEF Scattered
  <2>2. CASE what = "register"
    <3>1. r2 = r + 1 /\ p2 = p /\ list[r2] = this /\ ~ is_function(at(this))
      BY <2>2 DEF Moves
    <3> QED BY <2>1, <3>1 DEF Entered
  <2>3. CASE what # "register"
    <3>1. r2 = r /\ (p2 = p \/ (p2 = p + 1 /\ list[p2] = this /\ what = "visit"
                                 /\ at(this).kind # "VariableDeclaration"))
      BY <2>3 DEF Moves
    <3>2. (what = "visit" /\ at(this).kind # "VariableDeclaration") =>
            at(this).kind \notin Declaration \/ is_function(at(this))
      BY DEF Declaration, is_function
    <3>3. CASE p2 = p
      BY <3>1, <3>3 DEF Entered
    <3>4. CASE p2 # p
      <4>1. p2 = p + 1 /\ (j = p2 => is_function(at(list[j])))
        BY <1>1, <3>1, <3>2, <3>4
      <4> QED BY <2>1, <3>1, <4>1 DEF Entered
    <3> QED BY <3>3, <3>4
  <2> QED BY <2>2, <2>3
<1> QED BY <1>1, SameEntries

\* insert enters the name in the last table, unless it is there.
LEMMA InsertTable ==
  ASSUME IInv, Running, NEW n \in DOMAIN ast.nodes, NEW x \in Name, Table!insert(x, n)
  PROVE  /\ Len(frames) \in DOMAIN scopes
         /\ scopes[Len(frames)] \in [Name -> {NoNode} \cup DOMAIN ast.nodes]
         /\ scopes'[Len(frames)] = IF scopes[Len(frames)][x] = NoNode
                                  THEN [scopes[Len(frames)] EXCEPT ![x] = n] ELSE scopes[Len(frames)]
         /\ \A k \in DOMAIN scopes : k # Len(frames) => scopes'[k] = scopes[k]
<1> DEFINE L == Len(frames)
           T == [Name -> {NoNode} \cup DOMAIN ast.nodes]
           table == scopes[L]
<1>1. L = Len(scopes) /\ L \in DOMAIN scopes /\ scopes \in Seq(T) /\ L \in Nat \ {0}
  BY RunningScopes, ScopesFacts
<1>2. table \in T
  BY <1>1
<1>3. Table!is_new(x) <=> table[x] = NoNode
  BY <1>1 DEF Table!is_new
<1>4. scopes' = IF table[x] = NoNode THEN [scopes EXCEPT ![L] = [table EXCEPT ![x] = n]] ELSE scopes
  BY <1>1, <1>3 DEF Table!insert
<1> HIDE DEF L
<1>5. /\ scopes'[L] = IF table[x] = NoNode THEN [table EXCEPT ![x] = n] ELSE table
      /\ \A k \in DOMAIN scopes : k # L => scopes'[k] = scopes[k]
  BY <1>1, <1>4
<1> QED BY <1>1, <1>2, <1>5 DEF L

\* A table that a declaration is entered in holds the declarations up to it.
LEMMA EntryTable ==
  ASSUME IInv, Running, this \in DOMAIN ast.nodes, Table!insert(at(this).name, this),
         \/ Head(Current.todo).do = "register" /\ is_function(at(this))
         \/ Head(Current.todo).do = "visit" /\ at(this).kind \in {"ConstantDeclaration", "Argument"}
         \/ Head(Current.todo).do = "declare_variable" /\ at(this).kind = "VariableDeclaration"
  PROVE  TableMoves
<1> SUFFICES ASSUME NEW list, NEW r, NEW p, NEW r2, NEW p2,
                    Scattered(list), r \in Nat, p \in Nat, Moves(list, r, p, r2, p2),
                    Holds(scopes[Len(frames)], list, r, p)
             PROVE  Holds(scopes'[Len(frames)], list, r2, p2)
  BY DEF TableMoves
<1> DEFINE what == Head(Current.todo).do
           x == at(this).name
           table == scopes[Len(frames)]
<1>1. x \in Name /\ at(this).kind \in Declaration
  BY AstFacts DEF IInv, Named, Declaration, is_function
<1>2. /\ table \in [Name -> {NoNode} \cup DOMAIN ast.nodes]
      /\ scopes'[Len(frames)] = IF table[x] = NoNode THEN [table EXCEPT ![x] = this] ELSE table
  <2>1. PICK n, y : n = this /\ y = x
    OBVIOUS
  <2>2. n \in DOMAIN ast.nodes /\ y \in Name /\ Table!insert(y, n)
    BY <1>1, <2>1
  <2>3. /\ scopes[Len(frames)] \in [Name -> {NoNode} \cup DOMAIN ast.nodes]
        /\ scopes'[Len(frames)] = IF scopes[Len(frames)][y] = NoNode
                                 THEN [scopes[Len(frames)] EXCEPT ![y] = n] ELSE scopes[Len(frames)]
    BY <2>2, InsertTable
  <2> QED BY <2>1, <2>3
<1>3. \A j \in DOMAIN list : j \in Nat
  BY DEF Scattered
<1>4. \A j, k \in DOMAIN list : j < k => list[j] < list[k]
  BY DEF Scattered
<1>5. \E i \in DOMAIN list :
        /\ list[i] = this
        /\ ~ Entered(list, r, p, i)
        /\ \A j \in DOMAIN list : at(list[j]).kind \in Declaration =>
             (Entered(list, r2, p2, j) <=> Entered(list, r, p, j) \/ j = i)
        /\ \A j \in DOMAIN list :
             (at(list[j]).kind \in Declaration /\ ~ Entered(list, r, p, j) /\ j # i)
               => Precedes(ast, list[i], list[j])
  <2>1. CASE what = "register"
    <3>1. r2 = r + 1 /\ p2 = p /\ r2 \in DOMAIN list /\ list[r2] = this /\ is_function(at(this))
      BY <2>1 DEF Moves
    <3>2. ~ Entered(list, r, p, r2)
      BY <3>1 DEF Entered
    <3>3. ASSUME NEW j \in DOMAIN list
          PROVE  Entered(list, r2, p2, j) <=> Entered(list, r, p, j) \/ j = r2
      BY <1>3, <3>1 DEF Entered
    <3>4. ASSUME NEW j \in DOMAIN list, ~ Entered(list, r, p, j), j # r2
          PROVE  Precedes(ast, list[r2], list[j])
      <4>1. is_function(at(list[j])) => r2 < j
        BY <1>3, <3>1, <3>4 DEF Entered
      <4> QED BY <1>4, <3>1, <4>1 DEF Precedes, is_function, at
    <3> QED BY <3>1, <3>2, <3>3, <3>4
  <2>2. CASE what # "register"
    <3>1. /\ r2 = r /\ r = Len(list) /\ p2 = p + 1 /\ p2 \in DOMAIN list /\ list[p2] = this
          /\ ~ is_function(at(this))
      BY <2>2 DEF Moves, is_function
    <3>2. ~ Entered(list, r, p, p2)
      BY <3>1 DEF Entered
    <3>3. ASSUME NEW j \in DOMAIN list
          PROVE  Entered(list, r2, p2, j) <=> Entered(list, r, p, j) \/ j = p2
      BY <1>3, <3>1 DEF Entered
    <3>4. ASSUME NEW j \in DOMAIN list, ~ Entered(list, r, p, j), j # p2
          PROVE  Precedes(ast, list[p2], list[j])
      <4>1. ~ is_function(at(list[j])) /\ p2 < j
        BY <1>3, <3>1, <3>4 DEF Entered, Scattered
      <4> QED BY <1>4, <3>1, <4>1 DEF Precedes, is_function, at
    <3> QED BY <3>1, <3>2, <3>3, <3>4
  <2> QED BY <2>1, <2>2
<1>6. PICK i \in DOMAIN list :
        /\ list[i] = this
        /\ ~ Entered(list, r, p, i)
        /\ \A j \in DOMAIN list : at(list[j]).kind \in Declaration =>
             (Entered(list, r2, p2, j) <=> Entered(list, r, p, j) \/ j = i)
        /\ \A j \in DOMAIN list :
             (at(list[j]).kind \in Declaration /\ ~ Entered(list, r, p, j) /\ j # i)
               => Precedes(ast, list[i], list[j])
  BY <1>5
<1>7. Declares(list, x, i)
  BY <1>1, <1>6 DEF Declares
<1>8. PICK t, u, y : t = table /\ u = scopes'[Len(frames)] /\ y = x
  OBVIOUS
<1>9. /\ t \in [Name -> {NoNode} \cup DOMAIN ast.nodes] /\ y \in Name
      /\ u = IF t[y] = NoNode THEN [t EXCEPT ![y] = list[i]] ELSE t
      /\ Holds(t, list, r, p) /\ Declares(list, y, i)
  BY <1>1, <1>2, <1>6, <1>7, <1>8
<1>10. Holds(u, list, r2, p2)
  BY <1>6, <1>9, NewEntry
<1> QED BY <1>8, <1>10

-------------------------------------------------------------------------------
(* The frames through a step. *)
LEMMA BehindNat ==
  ASSUME NEW k, NEW list, NEW i, NEW r, NEW inner, NEW todo, Len(list) \in Nat,
         Shape(k, list, i, r, inner, todo)
  PROVE  i \in Nat /\ r \in Nat /\ Behind(list, i, inner) \in Nat
<1>1. i \in 0 .. Len(list) /\ r \in 0 .. Len(list)
  BY DEF Shape
<1>2. i \in Nat /\ r \in Nat /\ (i # 0 => i - 1 \in Nat)
  BY <1>1
<1> QED BY <1>2 DEF Behind

\* A frame that a step leaves alone stays where it is.
LEMMA Unmoved ==
  ASSUME ast' = ast, NEW k \in DOMAIN frames, NEW list, NEW i, NEW r, NEW inner,
         Placed(k, list, i, r, inner), frames'[k] = frames[k], scopes'[k] = scopes[k],
         k + 1 \in DOMAIN frames' => k + 1 \in DOMAIN frames /\ frames'[k + 1].owner = frames[k + 1].owner
  PROVE  Placed(k, list, i, r, inner)'
<1>1. ListAt(k, list)'
  BY SameShape DEF ListAt, Placed
<1>2. Shape(k, list, i, r, inner, frames[k].todo)'
  <2>1. PICK todo : todo = frames[k].todo /\ todo = frames'[k].todo
    OBVIOUS
  <2>2. Shape(k, list, i, r, inner, todo)'
    BY <2>1, SameShape DEF Placed
  <2> QED BY <2>1, <2>2 DEF Shape
<1>3. Holds(scopes[k], list, r, Behind(list, i, inner))'
  <2>1. PICK table, p : table = scopes[k] /\ table = scopes'[k] /\ p = Behind(list, i, inner)
    OBVIOUS
  <2>2. p = Behind(list, i, inner)'
    BY <2>1, SameShape
  <2>3. Holds(table, list, r, p)'
    BY <2>1, SameTable DEF Placed
  <2> QED BY <2>1, <2>2, <2>3 DEF Holds, Entered
<1>4. (k + 1 \in DOMAIN frames => i # 0 /\ list[i] = frames[k + 1].owner)'
  BY DEF Placed
<1> QED BY <1>1, <1>2, <1>3, <1>4 DEF Placed

\* The current frame moves on, and may have opened another.
LEMMA MovedOn ==
  ASSUME IInv, Running, Current.todo # << >>, ast' = ast, NEW items \in Seq(Item), Offspring(items),
         LET L == Len(frames) IN
         /\ L \in DOMAIN frames'
         /\ frames'[L].todo = items \o Tail(frames[L].todo)
         /\ frames'[L].owner = frames[L].owner
         /\ L + 1 \in DOMAIN frames' =>
              /\ frames'[L + 1].owner = this
              /\ \/ Head(Current.todo).do \in {"check_condition", "else_block"}
                 \/ Head(Current.todo).do = "visit" /\ is_function(at(this)),
         TableMoves,
         NEW k, k = Len(frames), NEW list, NEW i, NEW r, NEW inner, Placed(k, list, i, r, inner)
  PROVE  \E i2, r2, inner2 : Placed(k, list, i2, r2, inner2)'
<1> DEFINE L == Len(frames)
<1>0. L \in DOMAIN frames
  BY HeadFacts
<1>1. Scattered(list) /\ ListAt(L, list) /\ Shape(L, list, i, r, inner, frames[L].todo)
      /\ Holds(scopes[L], list, r, Behind(list, i, inner))
  BY <1>0, FrameList DEF Placed
<1>2. PICK i2, r2, inner2 :
        /\ Shape(L, list, i2, r2, inner2, items \o Tail(frames[L].todo))
        /\ Moves(list, r, Behind(list, i, inner), r2, Behind(list, i2, inner2))
        /\ \/ Head(Current.todo).do \in {"check_condition", "else_block"}
           \/ Head(Current.todo).do = "visit" /\ is_function(at(this))
           => i2 # 0 /\ i2 \in DOMAIN list /\ list[i2] = this
  BY <1>1, Goes
<1>3. PICK p, p2, todo, table, table2 :
        /\ p = Behind(list, i, inner) /\ p2 = Behind(list, i2, inner2)
        /\ todo = items \o Tail(frames[L].todo)
        /\ table = scopes[L] /\ table2 = scopes'[L]
  OBVIOUS
<1>4. r \in Nat /\ p \in Nat
  <2>1. Len(list) \in Nat
    BY <1>1 DEF Scattered
  <2> QED BY <1>1, <1>3, <2>1, BehindNat
<1>5. Holds(table2, list, r2, p2)
  BY <1>1, <1>2, <1>3, <1>4 DEF TableMoves
<1>6. todo = frames'[k].todo /\ frames'[k].owner = frames[k].owner
  BY <1>3
<1>7. ListAt(k, list)'
  BY <1>1, <1>3, <1>6, SameShape DEF ListAt
<1>8. Shape(k, list, i2, r2, inner2, frames[k].todo)'
  <2>1. Shape(k, list, i2, r2, inner2, todo)'
    BY <1>2, <1>3, SameShape
  <2> QED BY <1>6, <2>1 DEF Shape
<1>9. Holds(scopes[k], list, r2, Behind(list, i2, inner2))'
  <2>1. p2 = Behind(list, i2, inner2)' /\ table2 = scopes'[k]
    BY <1>3, SameShape
  <2>2. Holds(table2, list, r2, p2)'
    BY <1>5, SameTable
  <2> QED BY <2>1, <2>2 DEF Holds, Entered
<1>10. (k + 1 \in DOMAIN frames => i2 # 0 /\ list[i2] = frames[k + 1].owner)'
  <2>1. PICK n : n = this
    OBVIOUS
  <2> QED BY <1>2, <1>3, <2>1
<1>11. Placed(k, list, i2, r2, inner2)'
  BY <1>7, <1>8, <1>9, <1>10 DEF Placed
<1> QED BY <1>11

\* A step within the current frame.
LEMMA ThenPlaced ==
  ASSUME IInv, PlacedInv, Running, Current.todo # << >>, ast' = ast, NEW items \in Seq(Item), Then(items),
         Offspring(items), TableMoves, \A k \in DOMAIN scopes : k # Len(frames) => scopes'[k] = scopes[k]
  PROVE  PlacedInv'
<1> DEFINE L == Len(frames)
<1>1. /\ L \in DOMAIN frames /\ DOMAIN frames' = DOMAIN frames
      /\ frames'[L].todo = items \o Tail(frames[L].todo)
      /\ frames'[L].owner = frames[L].owner
      /\ \A k \in DOMAIN frames : k # L => frames'[k] = frames[k]
  BY ThenTodo
<1>2. DOMAIN frames = DOMAIN scopes /\ L + 1 \notin DOMAIN frames
  BY RunningScopes, HeadFacts, ScopesFacts DEF IInv, FramesInv
<1> SUFFICES ASSUME NEW k \in DOMAIN frames'
             PROVE  \E list, i, r, inner : Placed(k, list, i, r, inner)'
  BY DEF PlacedInv
<1>3. PICK list, i, r, inner : Placed(k, list, i, r, inner)
  BY <1>1 DEF PlacedInv
<1>4. CASE k = L
  BY <1>1, <1>2, <1>3, <1>4, MovedOn
<1>5. CASE k # L
  BY <1>1, <1>2, <1>3, <1>5, Unmoved
<1> QED BY <1>4, <1>5

\* Nothing has been declared in a frame that was just opened.
LEMMA OpenedPlaced ==
  ASSUME IInv, ast' = ast, this \in DOMAIN ast.nodes, NEW list, Opens(this, list),
         NEW k, k \in Nat \ {0, 1}, k + 1 \notin DOMAIN frames',
         frames'[k].owner = this, frames'[k].todo = visits(list),
         scopes'[k] = Table!EmptyTable
  PROVE  \E i, r, inner : Placed(k, list, i, r, inner)'
<1>1. PICK n, todo, table, L : n = this /\ todo = visits(list) /\ table = Table!EmptyTable /\ L = Len(list)
  OBVIOUS
<1>2. Scattered(list) /\ \A j \in DOMAIN list : Child(ast, list[j], n)
  BY <1>1, OpenedScattered DEF IInv
<1>3. DOMAIN list = 1 .. L /\ L \in Nat /\ \A j \in 1 .. L : list[j] \in Nat
  BY <1>1, <1>2, AstFacts DEF Scattered, IInv
<1>4. todo = From("visit", list, 0)
  BY <1>1, <1>3, VisitsFrom
<1>5. /\ From("register", list, L) = << >> /\ From("register", list, L) \in Seq(Item)
      /\ todo \in Seq(Item)
  <2>1. {"visit", "register"} \subseteq Todo /\ L \in 0 .. Len(list) /\ 0 \in 0 .. Len(list)
    BY <1>1, <1>3 DEF Todo
  <2> QED BY <1>1, <1>3, <1>4, <2>1, FromFacts
<1>6. Shape(k, list, 0, L, << >>, todo)
  <2>1. todo = << >> \o From("visit", list, 0)
    BY <1>4, <1>5, ConcatEmptySeq
  <2> QED BY <1>1, <1>3, <1>5, <2>1 DEF Shape
<1>7. Behind(list, 0, << >>) = 0
  BY DEF Behind
<1>8. Holds(table, list, L, 0)
  <2>1. ASSUME NEW j \in DOMAIN list
        PROVE  ~ is_function(at(list[j]))
    <3>1. n \in DOMAIN ast.nodes /\ Opens(n, list)
      BY <1>1
    <3>2. visits(list) \in Seq(InnerItem(ast))
      BY <3>1, StatementVisits DEF Opens
    <3>3. visits(list)[j] \in InnerItem(ast) /\ visits(list)[j] = do("visit", list[j])
      <4>1. j \in DOMAIN visits(list) /\ visits(list)[j] = do("visit", list[j])
        BY DEF visits
      <4> QED BY <3>2, <4>1
    <3> QED BY <3>3 DEF InnerItem, Fits, TopLevel, do, at, is_function
  <2>2. \A x \in Name, j \in DOMAIN list : ~ Entered(list, L, 0, j)
    BY <1>3, <2>1 DEF Entered
  <2>3. \A x \in Name : table[x] = NoNode
    BY <1>1 DEF Table!EmptyTable
  <2> QED BY <2>2, <2>3 DEF Holds
<1>9. PICK i, inner : i = 0 /\ inner = << >>
  OBVIOUS
<1>10. ListAt(k, list)'
  BY <1>1, SameShape DEF ListAt
<1>11. Shape(k, list, i, L, inner, frames[k].todo)'
  <2>1. Shape(k, list, i, L, inner, todo)'
    BY <1>6, <1>9, SameShape
  <2> QED BY <1>1, <2>1 DEF Shape
<1>12. Holds(scopes[k], list, L, Behind(list, i, inner))'
  <2>1. PICK p : p = Behind(list, i, inner)
    OBVIOUS
  <2>2. p = 0 /\ p = Behind(list, i, inner)'
    BY <1>7, <1>9, <2>1, SameShape
  <2>3. Holds(table, list, L, p)'
    BY <1>8, <2>2, SameTable
  <2>4. table = scopes'[k]
    BY <1>1
  <2> QED BY <2>2, <2>3, <2>4 DEF Holds, Entered
<1>13. Placed(k, list, i, L, inner)'
  BY <1>10, <1>11, <1>12 DEF Placed
<1> QED BY <1>13

\* A step that opens a frame for a list.
LEMMA EnterPlaced ==
  ASSUME IInv, PlacedInv, Running, Current.todo # << >>, ast' = ast, NEW items \in Seq(Item), NEW list,
         Enter(list, items), Offspring(items), Opens(this, list), Table!create_stack_frame,
         \/ Head(Current.todo).do \in {"check_condition", "else_block"}
         \/ Head(Current.todo).do = "visit" /\ is_function(at(this))
  PROVE  PlacedInv'
<1> DEFINE L == Len(frames)
<1>1. /\ L \in Nat \ {0} /\ L \in DOMAIN frames /\ DOMAIN frames' = DOMAIN frames \cup {L + 1}
      /\ L + 1 \notin DOMAIN frames
      /\ frames'[L].todo = items \o Tail(frames[L].todo)
      /\ frames'[L].owner = frames[L].owner
      /\ frames'[L + 1].owner = this /\ frames'[L + 1].todo = visits(list)
      /\ \A k \in DOMAIN frames : k # L => frames'[k] = frames[k]
  BY EnterTodo
<1>2. DOMAIN frames = 1 .. L
  BY DEF IInv, FramesInv
<1>3. scopes'[L + 1] = Table!EmptyTable /\ \A k \in DOMAIN frames : scopes'[k] = scopes[k]
  <2>1. Len(scopes) = L /\ DOMAIN scopes = 1 .. L
    BY RunningScopes, ScopesFacts
  <2>2. PICK S : scopes \in Seq(S)
    BY ScopesFacts
  <2>3. scopes' = Append(scopes, Table!EmptyTable)
    BY DEF Table!create_stack_frame
  <2>4. \A k \in 1 .. Len(scopes) : Append(scopes, Table!EmptyTable)[k] = scopes[k]
    BY <2>2
  <2>5. Append(scopes, Table!EmptyTable)[Len(scopes) + 1] = Table!EmptyTable
    BY <2>2
  <2> QED BY <1>2, <2>1, <2>3, <2>4, <2>5
<1>4. TableMoves
  <2>1. Head(Current.todo).do = "visit" => at(this).kind = "FunctionDeclaration"
    BY DEF is_function
  <2>2. PICK table : table = scopes[L] /\ table = scopes'[L]
    BY <1>1, <1>3
  <2> QED BY <2>1, <2>2, StillTable
<1> SUFFICES ASSUME NEW k \in DOMAIN frames'
             PROVE  \E s, i, r, inner : Placed(k, s, i, r, inner)'
  BY DEF PlacedInv
<1>5. CASE k = L + 1
  <2>1. k \in Nat \ {0, 1} /\ k + 1 \notin DOMAIN frames'
    BY <1>1, <1>2, <1>5
  <2>2. this \in DOMAIN ast.nodes
    BY HeadFacts
  <2>3. frames'[k].owner = this /\ frames'[k].todo = visits(list) /\ scopes'[k] = Table!EmptyTable
    BY <1>1, <1>3, <1>5
  <2> QED BY <2>1, <2>2, <2>3, OpenedPlaced
<1>6. ASSUME k \in DOMAIN frames
      PROVE  \E s, i, r, inner : Placed(k, s, i, r, inner)'
  <2>1. PICK s, i, r, inner : Placed(k, s, i, r, inner)
    BY <1>6 DEF PlacedInv
  <2>2. CASE k = L
    BY <1>1, <1>4, <2>1, <2>2, MovedOn
  <2>3. CASE k # L
    <3>1. k + 1 \in DOMAIN frames /\ frames'[k + 1].owner = frames[k + 1].owner
      <4>1. k + 1 \in 1 .. L
        BY <1>1, <1>2, <1>6, <2>3
      <4> QED BY <1>1, <1>2, <4>1
    <3>2. frames'[k] = frames[k] /\ scopes'[k] = scopes[k]
      BY <1>1, <1>3, <1>6, <2>3
    <3> QED BY <1>6, <2>1, <3>1, <3>2, Unmoved
  <2> QED BY <2>2, <2>3
<1> QED BY <1>1, <1>5, <1>6

\* Without the last frame the others are where they were, and the one before is
\* inside the node that owned it no more.
LEMMA ReleasePlaced ==
  ASSUME IInv, PlacedInv, release_stack_frame
  PROVE  PlacedInv'
<1> DEFINE L == Len(frames)
<1>1. /\ L > 1 /\ L \in Nat /\ DOMAIN frames = 1 .. L /\ ast' = ast
      /\ frames' = SubSeq(frames, 1, L - 1) /\ Table!release_stack_frame
  BY DEF release_stack_frame, IInv, FramesInv
<1>2. DOMAIN frames' = 1 .. L - 1 /\ \A k \in 1 .. L - 1 : frames'[k] = frames[k]
  <2>1. frames \in Seq(Frame)
    BY DEF IInv, FramesInv
  <2> QED BY <1>1, <2>1
<1>3. \A k \in 1 .. L - 1 : scopes'[k] = scopes[k]
  <2>1. Len(scopes) = L
    BY <1>1, RunningScopes DEF Running
  <2>2. scopes \in Seq([Name -> {NoNode} \cup DOMAIN ast.nodes])
    BY ScopesFacts
  <2>3. scopes' = SubSeq(scopes, 1, L - 1)
    BY <1>1, <2>1 DEF Table!release_stack_frame
  <2> HIDE DEF L
  <2> QED BY <1>1, <2>1, <2>2, <2>3
<1> SUFFICES ASSUME NEW k \in DOMAIN frames'
             PROVE  \E s, i, r, inner : Placed(k, s, i, r, inner)'
  BY DEF PlacedInv
<1>4. k \in 1 .. L - 1 /\ k \in DOMAIN frames
  BY <1>1, <1>2
<1>5. PICK s, i, r, inner : Placed(k, s, i, r, inner)
  BY <1>4 DEF PlacedInv
<1>6. frames'[k] = frames[k] /\ scopes'[k] = scopes[k]
  BY <1>2, <1>3, <1>4
<1>7. k + 1 \in DOMAIN frames' => k + 1 \in DOMAIN frames /\ frames'[k + 1].owner = frames[k + 1].owner
  <2>1. ASSUME k + 1 \in 1 .. L - 1
        PROVE  k + 1 \in 1 .. L
    BY <1>1, <2>1
  <2> QED BY <1>1, <1>2, <2>1
<1> QED BY <1>1, <1>4, <1>5, <1>6, <1>7, Unmoved

\* No frame is left.
LEMMA finishPlaced ==
  ASSUME finish
  PROVE  PlacedInv'
<1>1. DOMAIN frames' = {}
  BY DEF finish
<1> QED BY <1>1 DEF PlacedInv

\* A validation starts before the first instruction, with an empty table.
LEMMA validatePlaced ==
  ASSUME IInv, validate
  PROVE  PlacedInv'
<1>1. PICK top, todo, L, table :
        top = ast.top /\ todo = top_level_items /\ L = Len(top) /\ table = Table!EmptyTable
  OBVIOUS
<1>2. /\ ast' = ast /\ frames' = << [owner |-> NoNode, todo |-> todo] >> /\ scopes' = << table >>
  BY <1>1 DEF validate, Table!reset
<1>3. Scattered(top)
  BY <1>1, TopScattered DEF IInv
<1>4. DOMAIN top = 1 .. L /\ L \in Nat /\ \A j \in 1 .. L : top[j] \in Nat
  BY <1>1, <1>3, AstFacts DEF Scattered, IInv
<1>5. PICK inner : inner = From("register", top, 0)
  OBVIOUS
<1>6. inner \in Seq(Item)
  <2>1. "register" \in Todo /\ 0 \in 0 .. Len(top)
    BY <1>1, <1>4 DEF Todo
  <2> QED BY <1>1, <1>4, <1>5, <2>1, FromFacts
<1>7. todo = inner \o From("visit", top, 0)
  <2>1. visits(top) = From("visit", top, 0)
    BY <1>1, <1>4, VisitsFrom
  <2>2. [j \in DOMAIN top |-> do("register", top[j])] = From("register", top, 0)
    <3>1. Len(top) - 0 = Len(top) /\ \A j \in 1 .. Len(top) : 0 + j = j
      BY <1>1, <1>4
    <3> QED BY <1>1, <1>4, <3>1 DEF From
  <2> QED BY <1>1, <1>5, <2>1, <2>2 DEF top_level_items
<1>8. PICK k, i, r : k = 1 /\ i = 0 /\ r = 0
  OBVIOUS
<1>9. Shape(k, top, i, r, inner, todo)
  BY <1>1, <1>4, <1>5, <1>6, <1>7, <1>8 DEF Shape
<1>10. PICK p : p = Behind(top, i, inner)
  OBVIOUS
<1>11. p = 0
  BY <1>8, <1>10 DEF Behind
<1>12. Holds(table, top, r, p)
  <2>1. \A j \in DOMAIN top : ~ Entered(top, r, p, j)
    BY <1>4, <1>8, <1>11 DEF Entered
  <2> QED BY <1>1, <2>1 DEF Holds, Table!EmptyTable
<1>13. frames'[k].todo = todo /\ scopes'[k] = table /\ DOMAIN frames' = {k} /\ k + 1 \notin DOMAIN frames'
  BY <1>2, <1>8
<1>14. ListAt(k, top)'
  BY <1>1, <1>2, <1>8 DEF ListAt
<1>15. Shape(k, top, i, r, inner, frames[k].todo)'
  <2>1. Shape(k, top, i, r, inner, todo)'
    BY <1>2, <1>9, SameShape
  <2> QED BY <1>13, <2>1 DEF Shape
<1>16. Holds(scopes[k], top, r, Behind(top, i, inner))'
  <2>1. Holds(table, top, r, p)' /\ p = Behind(top, i, inner)'
    BY <1>2, <1>10, <1>12, SameShape, SameTable
  <2> QED BY <1>13, <2>1 DEF Holds, Entered
<1>17. Placed(k, top, i, r, inner)'
  BY <1>13, <1>14, <1>15, <1>16 DEF Placed
<1> QED BY <1>13, <1>17 DEF PlacedInv

\* Nothing happens.
LEMMA StutterPlaced ==
  ASSUME PlacedInv, UNCHANGED vars
  PROVE  PlacedInv'
<1> SUFFICES ASSUME NEW k \in DOMAIN frames'
             PROVE  \E s, i, r, inner : Placed(k, s, i, r, inner)'
  BY DEF PlacedInv
<1>1. ast' = ast /\ frames' = frames /\ scopes' = scopes
  BY DEF vars
<1>2. PICK s, i, r, inner : Placed(k, s, i, r, inner)
  BY <1>1 DEF PlacedInv
<1> QED BY <1>1, <1>2, Unmoved

-------------------------------------------------------------------------------
(* The visitors, one after the other. *)

\* A visitor that declares nothing and goes on in the current frame.
LEMMA QuietPlaced ==
  ASSUME IInv, PlacedInv, NEW what, Now(what), what \notin {"register", "declare_variable"},
         what = "visit" => at(this).kind \notin {"ConstantDeclaration", "Argument"},
         KeepScope, NEW items \in Seq(Item), Then(items), Offspring(items)
  PROVE  PlacedInv'
<1>1. Running /\ Current.todo # << >> /\ Head(Current.todo).do = what /\ ast' = ast /\ scopes' = scopes
  BY DEF Now, KeepScope
<1>2. TableMoves
  <2>1. scopes'[Len(frames)] = scopes[Len(frames)]
    BY <1>1
  <2> QED BY <1>1, <2>1, StillTable
<1> QED BY <1>1, <1>2, ThenPlaced

\* Nothing is left to be done.
LEMMA DonePlaced ==
  ASSUME IInv, PlacedInv, NEW what, Now(what), what \notin {"register", "declare_variable"},
         what = "visit" => at(this).kind \notin Declaration,
         KeepScope, Then(<< >>)
  PROVE  PlacedInv'
<1>1. Head(Current.todo).do = what
  BY DEF Now
<1>2. Offspring(<< >>)
  BY <1>1 DEF Offspring, Declaration
<1>3. << >> \in Seq(Item)
  OBVIOUS
<1> QED BY <1>2, <1>3, QuietPlaced DEF Declaration

\* The visits of the operands, and then the item.
LEMMA OperandTodo ==
  ASSUME IInv, this \in DOMAIN ast.nodes, NEW item \in Item
  PROVE  LET ops == at(this).operands
             items == visits(ops) \o << item >>
         IN /\ items \in Seq(Item)
            /\ DOMAIN items = 1 .. Len(ops) + 1 /\ Len(ops) \in Nat /\ Len(items) = Len(ops) + 1
            /\ items[Len(ops) + 1] = item
            /\ \A i \in 1 .. Len(ops) : items[i] = do("visit", ops[i])
            /\ DOMAIN ops = 1 .. Len(ops)
<1> DEFINE ops == at(this).operands
           items == visits(ops) \o << item >>
<1>1. /\ DOMAIN items = 1 .. Len(ops) + 1 /\ Len(ops) \in Nat
      /\ items[Len(ops) + 1] = item
      /\ \A i \in 1 .. Len(ops) : items[i] = do("visit", ops[i])
      /\ DOMAIN ops = 1 .. Len(ops)
  BY OperandItems
<1>2. items \in Seq(Item)
  <2>1. \A j \in 1 .. Len(ops) : ops[j] \in Nat
    BY <1>1, AstFacts DEF IInv
  <2>2. visits(ops) = From("visit", ops, 0) /\ "visit" \in Todo /\ 0 \in 0 .. Len(ops)
    BY <1>1, VisitsFrom DEF Todo
  <2>3. From("visit", ops, 0) \in Seq(Item)
    BY <1>1, <2>1, <2>2, FromFacts
  <2> QED BY <2>2, <2>3
<1> HIDE DEF items
<1>3. Len(items) = Len(ops) + 1
  BY <1>1, <1>2
<1> QED BY <1>1, <1>2, <1>3 DEF items

\* A visitor that leaves an item to be done after its operands.
LEMMA OperandsPlaced ==
  ASSUME IInv, PlacedInv, NEW kind, Visiting(kind), KeepScope,
         NEW item \in Item, item.node = this, << kind, item.do >> \in Afterwards,
         Then(visits(at(this).operands) \o << item >>)
  PROVE  PlacedInv'
<1> DEFINE ops == at(this).operands
           items == visits(ops) \o << item >>
<1>1. /\ Now("visit") /\ at(this).kind = kind /\ this \in DOMAIN ast.nodes
      /\ Head(Current.todo).do = "visit"
  BY HeadFacts DEF Visiting, Now
<1>2. /\ kind \notin {"ConstantDeclaration", "Argument", "FunctionDeclaration"}
      /\ item.do \notin {"register", "visit", "argument"}
      /\ kind = "VariableDeclaration" <=> item.do = "declare_variable"
  BY DEF Afterwards
<1>3. /\ DOMAIN items = 1 .. Len(ops) + 1 /\ Len(ops) \in Nat
      /\ items[Len(ops) + 1] = item
      /\ \A i \in 1 .. Len(ops) : items[i] = do("visit", ops[i])
      /\ DOMAIN ops = 1 .. Len(ops)
  BY <1>1, OperandTodo
<1>4. items \in Seq(Item) /\ Len(items) = Len(ops) + 1
  BY <1>1, OperandTodo
<1>5. Then(items)
  OBVIOUS
<1> HIDE DEF items
<1>6. ASSUME NEW j \in DOMAIN items
      PROVE  \/ j = Len(items) /\ items[j] = item
             \/ items[j].do = "visit" /\ items[j].node \in Range(ops)
  <2>1. CASE j = Len(ops) + 1
    BY <1>3, <1>4, <2>1
  <2>2. CASE j # Len(ops) + 1
    <3>1. j \in 1 .. Len(ops)
      BY <1>3, <2>2
    <3>2. items[j] = do("visit", ops[j]) /\ ops[j] \in Range(ops)
      BY <1>3, <3>1 DEF Range
    <3> QED BY <3>2 DEF do
  <2> QED BY <2>1, <2>2
<1>7. Offspring(items)
  <2>1. \A j \in DOMAIN items :
         /\ items[j].do # "register"
         /\ \/ items[j].node = this /\ items[j].do \notin {"visit", "argument"}
            \/ items[j].node \in Range(ops)
         /\ items[j].do = "declare_variable" => at(this).kind = "VariableDeclaration" /\ j = Len(items)
    BY <1>1, <1>2, <1>6
  <2>2. items # << >> /\ items[Len(items)] = item
    BY <1>3, <1>4
  <2> QED BY <1>1, <1>2, <2>1, <2>2 DEF Offspring, Declaration
<1> QED BY <1>1, <1>2, <1>4, <1>5, <1>7, QuietPlaced

\* A declaration is inserted into the current table.
LEMMA DeclarePlaced ==
  ASSUME IInv, PlacedInv, NEW what, Now(what), NEW message, insert_or_fail(this, message),
         \/ what = "register" /\ is_function(at(this))
         \/ what = "visit" /\ at(this).kind \in {"ConstantDeclaration", "Argument"}
         \/ what = "declare_variable" /\ at(this).kind = "VariableDeclaration"
  PROVE  PlacedInv'
<1>1. /\ Running /\ Current.todo # << >> /\ Head(Current.todo).do = what
      /\ this \in DOMAIN ast.nodes /\ ast' = ast /\ Then(<< >>)
      /\ Table!insert(at(this).name, this)
  BY HeadFacts DEF Now, insert_or_fail
<1>2. TableMoves
  BY <1>1, EntryTable
<1>3. \A k \in DOMAIN scopes : k # Len(frames) => scopes'[k] = scopes[k]
  <2>1. PICK n, y : n = this /\ y = at(this).name
    OBVIOUS
  <2>2. y \in Name
    BY <1>1, <2>1, AstFacts DEF IInv, Named, Declaration, is_function
  <2>3. n \in DOMAIN ast.nodes /\ Table!insert(y, n)
    BY <1>1, <2>1
  <2> QED BY <1>1, <2>2, <2>3, InsertTable
<1>4. Offspring(<< >>) /\ << >> \in Seq(Item)
  BY <1>1 DEF Offspring
<1> QED BY <1>1, <1>2, <1>3, <1>4, ThenPlaced

\* Visitors that visit the operands first.
LEMMA OperatorsPlaced ==
  ASSUME IInv, PlacedInv,
         \/ validate_variable_declaration \/ validate_binary_op \/ validate_unary_op
         \/ validate_function_return \/ validate_if
  PROVE  PlacedInv'
<1>1. ASSUME NEW kind, NEW next, Visiting(kind), << kind, next >> \in Afterwards,
             KeepScope, Then(visits(at(this).operands) \o << do(next, this) >>)
      PROVE  PlacedInv'
  <2>1. this \in Nat /\ next \in Todo
    <3>1. this \in DOMAIN ast.nodes
      BY <1>1, HeadFacts DEF Visiting, Now
    <3> QED BY <1>1, <3>1, AstFacts DEF Afterwards, Todo, IInv
  <2>2. do(next, this) \in Item /\ do(next, this).node = this /\ do(next, this).do = next
    BY <2>1 DEF do, Item, NoNode
  <2> QED BY <1>1, <2>2, OperandsPlaced
<1>2. CASE validate_variable_declaration
  BY <1>1, <1>2 DEF validate_variable_declaration, Afterwards
<1>3. CASE validate_binary_op
  BY <1>1, <1>3 DEF validate_binary_op, Afterwards
<1>4. CASE validate_unary_op
  BY <1>1, <1>4 DEF validate_unary_op, Afterwards
<1>5. CASE validate_function_return
  BY <1>1, <1>5 DEF validate_function_return, Afterwards
<1>6. CASE validate_if
  BY <1>1, <1>6 DEF validate_if, Afterwards
<1> QED BY <1>2, <1>3, <1>4, <1>5, <1>6

\* Whatever they decide, they leave nothing to be done.
LEMMA ChecksPlaced ==
  ASSUME IInv, PlacedInv,
         \/ validate_literal \/ validate_variable_lookup \/ check_assignment \/ check_argument
         \/ check_return \/ type_binary_op \/ type_unary_op
  PROVE  PlacedInv'
<1>1. \A message : Fail(message) => Then(<< >>)
  BY DEF Fail
<1>2. \A n, type, message : Assign(n, type, message) => Then(<< >>)
  BY DEF Assign
<1>3. CASE validate_literal
  <2>1. Now("visit") /\ at(this).kind \notin Declaration /\ KeepScope /\ Then(<< >>)
    BY <1>3, NotExpressions DEF validate_literal, Expression
  <2> QED BY <2>1, DonePlaced
<1>4. CASE validate_variable_lookup
  <2>1. Now("visit") /\ at(this).kind \notin Declaration /\ KeepScope /\ Then(<< >>)
    BY <1>1, <1>4 DEF validate_variable_lookup, Visiting, Declaration
  <2> QED BY <2>1, DonePlaced
<1>5. CASE check_assignment
  <2>1. Now("check_assignment") /\ KeepScope /\ Then(<< >>)
    BY <1>2, <1>5 DEF check_assignment
  <2> QED BY <2>1, DonePlaced
<1>6. CASE check_argument
  <2>1. Now("check_argument") /\ KeepScope /\ Then(<< >>)
    BY <1>2, <1>6 DEF check_argument
  <2> QED BY <2>1, DonePlaced
<1>7. CASE check_return
  <2>1. Now("check_return") /\ KeepScope /\ Then(<< >>)
    BY <1>1, <1>2, <1>7 DEF check_return
  <2> QED BY <2>1, DonePlaced
<1>8. CASE type_binary_op
  <2>1. Now("type_binary_op") /\ KeepScope /\ Then(<< >>)
    BY <1>1, <1>8 DEF type_binary_op
  <2> QED BY <2>1, DonePlaced
<1>9. CASE type_unary_op
  <2>1. Now("type_unary_op") /\ KeepScope /\ Then(<< >>)
    BY <1>1, <1>9 DEF type_unary_op
  <2> QED BY <2>1, DonePlaced
<1> QED BY <1>3, <1>4, <1>5, <1>6, <1>7, <1>8, <1>9

\* An assignment visits its value, or reports its name.
LEMMA validate_variable_assignmentPlaced ==
  ASSUME IInv, PlacedInv, validate_variable_assignment
  PROVE  PlacedInv'
<1> DEFINE found == Table!lookup(at(this).name)
           check == [do |-> "check_assignment", node |-> this, entry |-> found]
<1>1. /\ Visiting("VariableAssignment") /\ Now("visit") /\ at(this).kind = "VariableAssignment" /\ KeepScope
      /\ \/ Then(<< >>)
         \/ Then(visits(at(this).operands) \o << check >>)
  BY DEF validate_variable_assignment, Visiting, Fail
<1>2. check \in Item
  <2>1. this \in DOMAIN ast.nodes
    BY <1>1, HeadFacts DEF Now
  <2>2. found \in {NoNode} \cup DOMAIN ast.nodes /\ DOMAIN ast.nodes \subseteq Nat
    BY <1>1, <2>1, AstFacts, LookupInTree DEF IInv, Named
  <2> HIDE DEF found
  <2> QED BY <2>1, <2>2 DEF Item, Todo, NoNode
<1>3. check.node = this /\ << "VariableAssignment", check.do >> \in Afterwards
  BY DEF Afterwards
<1> HIDE DEF check
<1>4. CASE Then(<< >>)
  BY <1>1, <1>4, DonePlaced DEF Declaration
<1> QED BY <1>1, <1>2, <1>3, <1>4, OperandsPlaced

\* The arguments of a call are items to be done.
LEMMA CallTodo ==
  ASSUME IInv, NEW n \in DOMAIN ast.nodes, NEW f \in DOMAIN ast.nodes,
         Len(at(n).operands) = Len(at(f).params)
  PROVE  /\ [i \in DOMAIN at(n).operands |->
                [do |-> "argument", node |-> at(n).operands[i], entry |-> at(f).params[i]]] \in Seq(Item)
         /\ DOMAIN [i \in DOMAIN at(n).operands |->
                [do |-> "argument", node |-> at(n).operands[i], entry |-> at(f).params[i]]]
              = DOMAIN at(n).operands
<1>1. PICK a, p : a = at(n).operands /\ p = at(f).params
  OBVIOUS
<1>2. a \in Seq(Nat) /\ p \in Seq(Nat) /\ Len(a) = Len(p)
  BY <1>1, AstFacts DEF IInv, AstNode
<1>3. \A i \in 1 .. Len(a) : [do |-> "argument", node |-> a[i], entry |-> p[i]] \in Item
  BY <1>2 DEF Item, Todo
<1>4. [i \in DOMAIN a |-> [do |-> "argument", node |-> a[i], entry |-> p[i]]] \in Seq(Item)
  <2> DEFINE item(i) == [do |-> "argument", node |-> a[i], entry |-> p[i]]
  <2>1. DOMAIN a = 1 .. Len(a) /\ Len(a) \in Nat /\ \A i \in 1 .. Len(a) : item(i) \in Item
    BY <1>2, <1>3
  <2> HIDE DEF item
  <2>2. [i \in DOMAIN a |-> item(i)] \in Seq(Item)
    BY <2>1
  <2> QED BY <2>2 DEF item
<1> QED BY <1>1, <1>4

\* A call checks its arguments one by one, or reports itself.
LEMMA validate_function_callPlaced ==
  ASSUME IInv, PlacedInv, validate_function_call
  PROVE  PlacedInv'
<1> DEFINE found == Table!lookup(at(this).name)
           args == at(this).operands
           params == at(found).params
           items == [i \in DOMAIN args |-> [do |-> "argument", node |-> args[i], entry |-> params[i]]]
<1>1. /\ Now("visit") /\ at(this).kind = "FunctionCall" /\ KeepScope
      /\ \/ Then(<< >>)
         \/ /\ found # NoNode /\ Len(args) = Len(params) /\ Then(items)
  BY DEF validate_function_call, Visiting, Fail
<1>2. CASE Then(<< >>)
  BY <1>1, <1>2, DonePlaced DEF Declaration
<1>3. CASE found # NoNode /\ Len(args) = Len(params) /\ Then(items)
  <2>1. /\ this \in DOMAIN ast.nodes /\ Head(Current.todo).do = "visit"
        /\ found \in DOMAIN ast.nodes
    <3>1. this \in DOMAIN ast.nodes /\ Head(Current.todo).do = "visit"
      BY <1>1, HeadFacts DEF Now
    <3> QED BY <1>1, <1>3, <3>1, AstFacts, LookupInTree DEF IInv, Named
  <2>2. items \in Seq(Item) /\ DOMAIN items = DOMAIN args
    BY <1>3, <2>1, CallTodo
  <2>4. \A i \in DOMAIN items : items[i].do = "argument" /\ items[i].node \in Range(args)
    BY DEF Range
  <2>5. Then(items)
    BY <1>3
  <2> HIDE DEF items, args
  <2>6. Offspring(items)
    BY <1>1, <2>1, <2>4 DEF Offspring, Declaration, args
  <2> QED BY <1>1, <2>2, <2>5, <2>6, QuietPlaced
<1> QED BY <1>1, <1>2, <1>3

\* An argument is visited, then checked.
LEMMA validate_call_argumentPlaced ==
  ASSUME IInv, PlacedInv, validate_call_argument
  PROVE  PlacedInv'
<1> DEFINE check == [do |-> "check_argument", node |-> this, entry |-> held_entry]
           items == << do("visit", this), check >>
<1>1. Now("argument") /\ KeepScope /\ Then(items)
  BY DEF validate_call_argument
<1>2. /\ this \in Nat /\ held_entry \in Nat /\ Head(Current.todo).do = "argument"
  <2>1. Head(Current.todo) \in Item /\ Head(Current.todo).do = "argument"
    BY <1>1, HeadFacts DEF Now
  <2> QED BY <2>1 DEF Item, this, held_entry
<1>3. do("visit", this) \in Item /\ check \in Item
  BY <1>2 DEF do, Item, Todo, NoNode
<1>4. items \in Seq(Item)
  BY <1>3
<1>5. \A j \in DOMAIN items : items[j].do \in {"visit", "check_argument"} /\ items[j].node = this
  BY DEF do
<1> HIDE DEF items
<1>6. Offspring(items)
  BY <1>2, <1>5 DEF Offspring
<1> QED BY <1>1, <1>4, <1>6, QuietPlaced

\* The first loop registers the functions, and passes over the constants.
LEMMA register_functionPlaced ==
  ASSUME IInv, PlacedInv, register_function
  PROVE  PlacedInv'
<1>1. CASE is_function(at(this)) /\ insert_or_fail(this, "already defined")
  BY <1>1, DeclarePlaced DEF register_function
<1>2. CASE ~ is_function(at(this)) /\ Then(<< >>) /\ KeepScope
  <2>1. Running /\ Current.todo # << >> /\ Head(Current.todo).do = "register" /\ ast' = ast /\ scopes' = scopes
    BY <1>2 DEF register_function, Now, KeepScope
  <2>2. TableMoves
    <3>1. scopes'[Len(frames)] = scopes[Len(frames)]
      BY <2>1
    <3> QED BY <1>2, <2>1, <3>1, StillTable
  <2>3. Offspring(<< >>) /\ << >> \in Seq(Item)
    BY <2>1 DEF Offspring
  <2> QED BY <1>2, <2>1, <2>2, <2>3, ThenPlaced
<1> QED BY <1>1, <1>2 DEF register_function

\* The other declarations enter themselves.
LEMMA DeclarationsPlaced ==
  ASSUME IInv, PlacedInv, validate_constant_declaration \/ validate_argument \/ declare_variable
  PROVE  PlacedInv'
<1>1. CASE validate_constant_declaration
  BY <1>1, DeclarePlaced DEF validate_constant_declaration, Visiting
<1>2. CASE validate_argument
  BY <1>2, DeclarePlaced DEF validate_argument, Visiting
<1>3. CASE declare_variable
  <2>1. Now("declare_variable") /\ insert_or_fail(this, "already defined")
    BY <1>3 DEF declare_variable
  <2>2. at(this).kind = "VariableDeclaration"
    BY <2>1, HeadFacts DEF Now, ItemAt, TopItem, Fits, at, this
  <2> QED BY <2>1, <2>2, DeclarePlaced
<1> QED BY <1>1, <1>2, <1>3

\* A function, and each block of an if, gets a frame for its list.
LEMMA EntersPlaced ==
  ASSUME IInv, PlacedInv, validate_function_declaration \/ check_condition \/ validate_else_block
  PROVE  PlacedInv'
<1>1. CASE validate_function_declaration
  <2>1. /\ Now("visit") /\ at(this).kind = "FunctionDeclaration" /\ Table!create_stack_frame /\ ast' = ast
        /\ Enter(at(this).params \o at(this).body, << >>)
    BY <1>1 DEF validate_function_declaration, Visiting
  <2>2. Running /\ Current.todo # << >> /\ Head(Current.todo).do = "visit" /\ is_function(at(this))
    BY <2>1 DEF Now, is_function
  <2>3. Offspring(<< >>) /\ << >> \in Seq(Item) /\ Opens(this, at(this).params \o at(this).body)
    BY <2>1, <2>2 DEF Offspring, Opens
  <2> QED BY <2>1, <2>2, <2>3, EnterPlaced
<1>2. CASE check_condition
  <2> DEFINE items == IF has_else(at(this)) THEN << do("else_block", this) >> ELSE << >>
  <2>1. /\ Now("check_condition") /\ Table!create_stack_frame /\ ast' = ast
        /\ Enter(at(this).body, items)
    BY <1>2 DEF check_condition
  <2>2. /\ Running /\ Current.todo # << >> /\ Head(Current.todo).do = "check_condition"
        /\ this \in DOMAIN ast.nodes /\ at(this).kind = "If"
    BY <2>1, IfOpens DEF Now
  <2>3. items \in Seq(Item)
    <3>1. do("else_block", this) \in Item
      BY <2>2, AstFacts DEF do, Item, Todo, NoNode, IInv
    <3> QED BY <3>1
  <2>4. Offspring(items)
    <3>1. \A j \in DOMAIN items : items[j].do = "else_block" /\ items[j].node = this
      BY DEF do
    <3> HIDE DEF items
    <3> QED BY <2>2, <3>1 DEF Offspring
  <2>5. Opens(this, at(this).body)
    BY <2>2 DEF Opens, is_function
  <2> HIDE DEF items
  <2> QED BY <2>1, <2>2, <2>3, <2>4, <2>5, EnterPlaced
<1>3. CASE validate_else_block
  <2>1. Now("else_block") /\ Table!create_stack_frame /\ Enter(at(this).orelse, << >>) /\ ast' = ast
    BY <1>3 DEF validate_else_block
  <2>2. /\ Running /\ Current.todo # << >> /\ Head(Current.todo).do = "else_block"
        /\ this \in DOMAIN ast.nodes /\ at(this).kind = "If"
    BY <2>1, IfOpens DEF Now
  <2>3. Offspring(<< >>) /\ << >> \in Seq(Item) /\ Opens(this, at(this).orelse)
    BY <2>2 DEF Offspring, Opens, is_function
  <2> QED BY <2>1, <2>2, <2>3, EnterPlaced
<1> QED BY <1>1, <1>2, <1>3

\* Every frame stays at a node of its list, and its table holds what is
\* declared there.
LEMMA PlacedStep ==
  ASSUME IInv, PlacedInv, [Next]_vars
  PROVE  PlacedInv'
BY validatePlaced, register_functionPlaced, EntersPlaced, DeclarationsPlaced, OperatorsPlaced,
   validate_variable_assignmentPlaced, ChecksPlaced, validate_function_callPlaced,
   validate_call_argumentPlaced, ReleasePlaced, finishPlaced, StutterPlaced
   DEF Next
================================================================================
