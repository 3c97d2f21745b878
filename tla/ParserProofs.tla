------------------------------ MODULE ParserProofs ------------------------------
(***************************************************************************)
(* For any files, names and sessions: what parse returns is a tree the     *)
(* validator may be given, every file it opens is closed once, and flex's  *)
(* buffer is carried over only after an exception.                         *)
(***************************************************************************)
EXTENDS ParserProperties, TLAPS, FiniteSetTheorems, WellFoundedInduction

-------------------------------------------------------------------------------
(***************************************************************************)
(* Nodes and values.  Fits says what an action may count on in the value   *)
(* of a symbol, with the nodes ns made so far; Sound is IsAst without the  *)
(* top-level list.                                                         *)
(***************************************************************************)

Of(ns, kinds) == {n \in 1 .. Len(ns) : ns[n].kind \in kinds}

\* The kinds of the node that is the value of X.
Makes(X) ==
    CASE X = "const_value" -> Literal
      [] X = "expr"        -> Expression
      [] X = "arg"         -> {"Argument"}
      [] X = "statement"   -> Statement
      [] OTHER             -> TopLevel

NodeSymbol == {"const_value", "expr", "arg", "statement", "instruction", "const_definition", "function"}

\* The symbols whose values are lists of nodes.
ListSymbol == {"block", "statements", "def_args", "call_args", "top_level", "parse"}

Fits(X, v, ns) ==
    /\ X \in NodeSymbol => v \in Of(ns, Makes(X))
    /\ X \in {"block", "statements"} => v \in Seq(Of(ns, Statement))
    /\ X = "def_args" => v \in Seq(Of(ns, {"Argument"}))
    /\ X = "call_args" => v \in Seq(Of(ns, Expression))
    /\ X \in {"top_level", "parse"} => v \in Seq(Of(ns, TopLevel))
    /\ X \in {"reftype", "TYPE"} => v \in RefType
    /\ X = "IDENTIFIER" => v \in Name

Legal(node, ns) ==
    /\ node.operands \in Seq(Of(ns, Expression))
    /\ node.params \in Seq(Of(ns, {"Argument"}))
    /\ node.body \in Seq(Of(ns, Statement))
    /\ node.orelse \in Seq(Of(ns, Statement))
    /\ Len(node.operands) \in Operands(node.kind)
    /\ node.kind \in Named => node.name \in Name
    /\ node.type \in DeclaredTypes(node.kind)
    /\ node.op \in Operators(node.kind)
    /\ node.kind = "ConstantDeclaration" => node.operands \in Seq(Of(ns, Literal))
    /\ node.kind # "FunctionDeclaration" => node.params = << >>
    /\ node.kind \notin {"FunctionDeclaration", "If"} => node.body = << >>
    /\ node.kind # "If" => node.orelse = << >>

Sound(ns) ==
    /\ ns \in Seq(AstNode)
    /\ \A n \in 1 .. Len(ns) :
         LET node == ns[n]
             Before(kinds) == {k \in 1 .. n - 1 : ns[k].kind \in kinds}
         IN  /\ node.operands \in Seq(Before(Expression))
             /\ node.params \in Seq(Before({"Argument"}))
             /\ node.body \in Seq(Before(Statement))
             /\ node.orelse \in Seq(Before(Statement))
             /\ Len(node.operands) \in Operands(node.kind)
             /\ node.kind \in Named => node.name \in Name
             /\ node.type \in DeclaredTypes(node.kind)
             /\ node.op \in Operators(node.kind)
             /\ node.kind = "ConstantDeclaration" => node.operands \in Seq(Before(Literal))
             /\ node.kind # "FunctionDeclaration" => node.params = << >>
             /\ node.kind \notin {"FunctionDeclaration", "If"} => node.body = << >>
             /\ node.kind # "If" => node.orelse = << >>

\* A node only adds to those of each kind.
LEMMA OfGrows ==
    ASSUME NEW ns \in Seq(AstNode), NEW node, NEW kinds
    PROVE  /\ Of(ns, kinds) \subseteq Of(Append(ns, node), kinds)
           /\ node.kind \in kinds => Len(ns) + 1 \in Of(Append(ns, node), kinds)
  BY DEF Of

LEMMA SeqGrows ==
    ASSUME NEW S, NEW T, S \subseteq T, NEW s \in Seq(S)
    PROVE  s \in Seq(T)
  OBVIOUS

LEMMA AppendFacts ==
    ASSUME NEW S, NEW s \in Seq(S), NEW e
    PROVE  /\ Append(s, e) \in Seq(S \cup {e})
           /\ Append(s, e) # << >>
           /\ Len(Append(s, e)) = Len(s) + 1
           /\ Append(s, e)[Len(s) + 1] = e
           /\ \A k \in 1 .. Len(s) : Append(s, e)[k] = s[k]
  OBVIOUS

LEMMA PrefixFacts ==
    ASSUME NEW S, NEW s \in Seq(S), NEW n \in 1 .. Len(s)
    PROVE  /\ SubSeq(s, 1, n) \in Seq(S)
           /\ SubSeq(s, 1, n) # << >>
           /\ Len(SubSeq(s, 1, n)) = n
           /\ \A k \in 1 .. n : SubSeq(s, 1, n)[k] = s[k]
  OBVIOUS

\* What fits still fits when nodes have been added.
LEMMA FitsStays ==
    ASSUME NEW ns \in Seq(AstNode), NEW node, NEW X, NEW v, Fits(X, v, ns)
    PROVE  Fits(X, v, Append(ns, node))
<1>1. \A kinds : Of(ns, kinds) \subseteq Of(Append(ns, node), kinds)
  BY OfGrows
<1>2. \A kinds : \A s \in Seq(Of(ns, kinds)) : s \in Seq(Of(Append(ns, node), kinds))
  BY <1>1, SeqGrows
<1>. HIDE DEF Of
<1>. QED
  BY <1>1, <1>2 DEF Fits

\* A legal node behind sound nodes leaves them sound.
LEMMA SoundStays ==
    ASSUME NEW ns, Sound(ns), NEW node \in AstNode, Legal(node, ns)
    PROVE  Sound(Append(ns, node))
<1>1. Append(ns, node) \in Seq(AstNode)
  BY DEF Sound
<1>. SUFFICES ASSUME NEW n \in 1 .. Len(Append(ns, node))
     PROVE  LET all == Append(ns, node)
                Before(kinds) == {k \in 1 .. n - 1 : all[k].kind \in kinds}
            IN  /\ all[n].operands \in Seq(Before(Expression))
                /\ all[n].params \in Seq(Before({"Argument"}))
                /\ all[n].body \in Seq(Before(Statement))
                /\ all[n].orelse \in Seq(Before(Statement))
                /\ Len(all[n].operands) \in Operands(all[n].kind)
                /\ all[n].kind \in Named => all[n].name \in Name
                /\ all[n].type \in DeclaredTypes(all[n].kind)
                /\ all[n].op \in Operators(all[n].kind)
                /\ all[n].kind = "ConstantDeclaration" => all[n].operands \in Seq(Before(Literal))
                /\ all[n].kind # "FunctionDeclaration" => all[n].params = << >>
                /\ all[n].kind \notin {"FunctionDeclaration", "If"} => all[n].body = << >>
                /\ all[n].kind # "If" => all[n].orelse = << >>
  BY <1>1 DEF Sound
<1>2. \A kinds : {k \in 1 .. n - 1 : Append(ns, node)[k].kind \in kinds}
                   = {k \in 1 .. n - 1 : ns[k].kind \in kinds}
  BY DEF Sound
<1>3. CASE n = Len(ns) + 1
  <2>1. Append(ns, node)[n] = node /\ n - 1 = Len(ns)
    BY <1>3 DEF Sound
  <2>. QED
    BY <2>1, <1>2 DEF Legal, Of
<1>4. CASE n # Len(ns) + 1
  <2>1. n \in 1 .. Len(ns) /\ Append(ns, node)[n] = ns[n]
    BY <1>4 DEF Sound
  <2>. QED
    BY <2>1, <1>2 DEF Sound
<1>. QED
  BY <1>3, <1>4

-------------------------------------------------------------------------------
(* The actions of the grammar. *)

\* The node is one of X's, and legal behind ns.
Made(node, X, ns) ==
    /\ X \in NodeSymbol
    /\ node \in AstNode
    /\ node.kind \in Makes(X)
    /\ Legal(node, ns)

LEMMA DeclaredTypesAreTypes ==
    ASSUME NEW kind
    PROVE  DeclaredTypes(kind) \subseteq ResultType
  BY DEF DeclaredTypes, RefType, SizedInteger, ResultType, PrimitiveType, NoType, UNDEF, INT, INT64, UINT,
         UINT64, FLOAT16, FLOAT64, BOOL

LEMMA RecordIsMade ==
    ASSUME NEW ns, NEW X \in NodeSymbol, NEW kind \in Kind, kind \in Makes(X),
           NEW name \in Name \cup {NoName}, NEW op \in Operator \cup {"none"}, op \in Operators(kind),
           NEW type \in DeclaredTypes(kind),
           NEW operands \in Seq(Of(ns, Expression)), NEW params \in Seq(Of(ns, {"Argument"})),
           NEW body \in Seq(Of(ns, Statement)), NEW orelse \in Seq(Of(ns, Statement)),
           Len(operands) \in Operands(kind), kind \in Named => name \in Name,
           kind = "ConstantDeclaration" => operands \in Seq(Of(ns, Literal)),
           kind # "FunctionDeclaration" => params = << >>,
           kind \notin {"FunctionDeclaration", "If"} => body = << >>,
           kind # "If" => orelse = << >>
    PROVE  Made([kind |-> kind, name |-> name, op |-> op, type |-> type, operands |-> operands,
                 params |-> params, body |-> body, orelse |-> orelse], X, ns)
<1>1. \A kinds : \A s \in Seq(Of(ns, kinds)) : s \in Seq(Nat)
  BY SeqGrows DEF Of
<1>. DEFINE node == [kind |-> kind, name |-> name, op |-> op, type |-> type, operands |-> operands,
                     params |-> params, body |-> body, orelse |-> orelse]
<1>2. node \in AstNode
  BY <1>1, DeclaredTypesAreTypes DEF AstNode
<1>3. Legal(node, ns)
  BY DEF Legal
<1>. QED
  BY <1>2, <1>3 DEF Made

LEMMA const_definition_made ==
    ASSUME NEW ns, NEW x \in Name, NEW value \in Of(ns, Literal)
    PROVE  Made(const_definition(x, value), "const_definition", ns)
<1>1. "ConstantDeclaration" \in Kind /\ "ConstantDeclaration" \in Makes("const_definition") /\ "const_definition" \in NodeSymbol
  BY DEF Kind, Makes, NodeSymbol, Declaration, Expression, Literal, Statement, TopLevel
<1>2. const_definition(x, value)
        = [kind |-> "ConstantDeclaration", name |-> x, op |-> "none", type |-> NoType, operands |-> << value >>,
           params |-> << >>, body |-> << >>, orelse |-> << >>]
  BY DEF const_definition, declaration
<1>3. /\ << >> \in Seq(Of(ns, {"Argument"}))
      /\ << >> \in Seq(Of(ns, Statement))
      /\ << value >> \in Seq(Of(ns, Expression))
      /\ << value >> \in Seq(Of(ns, Literal))
  BY DEF Expression, Of
<1>4. Len(<< value >>) \in Operands("ConstantDeclaration")
  BY DEF Operands, Literal
<1>5. NoName \in Name \cup {NoName} /\ "none" \in Operator \cup {"none"} /\ "none" \in Operators("ConstantDeclaration")
  BY DEF Operator, BinaryToken, Arithmetic, Comparison, Logical, Operators, Literal, UnaryOperator
<1>6. "ConstantDeclaration" \in Named => x \in Name
  BY DEF Named, Declaration, Literal
<1>8. NoType \in DeclaredTypes("ConstantDeclaration")
  BY DEF DeclaredTypes, Literal
<1>. HIDE DEF Of
<1>. QED
  BY <1>1, <1>2, <1>3, <1>4, <1>5, <1>6, <1>8, RecordIsMade

LEMMA function_made ==
    ASSUME NEW ns, NEW f \in Name, NEW args \in Seq(Of(ns, {"Argument"})),
           NEW type \in RefType \cup {UNDEF}, NEW block \in Seq(Of(ns, Statement))
    PROVE  Made(function(f, args, type, block), "function", ns)
<1>1. "FunctionDeclaration" \in Kind /\ "FunctionDeclaration" \in Makes("function") /\ "function" \in NodeSymbol
  BY DEF Kind, Makes, NodeSymbol, Declaration, Expression, Literal, Statement, TopLevel
<1>2. function(f, args, type, block)
        = [kind |-> "FunctionDeclaration", name |-> f, op |-> "none", type |-> type, operands |-> << >>,
           params |-> args, body |-> block, orelse |-> << >>]
  BY DEF function
<1>3. /\ << >> \in Seq(Of(ns, {"Argument"}))
      /\ << >> \in Seq(Of(ns, Statement))
      /\ << >> \in Seq(Of(ns, Expression))
  BY DEF Expression
<1>4. Len(<< >>) \in Operands("FunctionDeclaration")
  BY DEF Operands, Literal
<1>5. NoName \in Name \cup {NoName} /\ "none" \in Operator \cup {"none"} /\ "none" \in Operators("FunctionDeclaration")
  BY DEF Operator, BinaryToken, Arithmetic, Comparison, Logical, Operators, Literal, UnaryOperator
<1>6. "FunctionDeclaration" \in Named => f \in Name
  BY DEF Named, Declaration, Literal
<1>8. type \in DeclaredTypes("FunctionDeclaration")
  BY DEF DeclaredTypes, Literal
<1>. HIDE DEF Of
<1>7. Made([kind |-> "FunctionDeclaration", name |-> f, op |-> "none", type |-> type, operands |-> << >>,
             params |-> args, body |-> block, orelse |-> << >>], "function", ns)
  BY <1>1, <1>3, <1>4, <1>5, <1>6, <1>8, RecordIsMade
<1>. QED
  BY <1>2, <1>7

LEMMA arg_made ==
    ASSUME NEW ns, NEW x \in Name, NEW type \in RefType
    PROVE  Made(arg(x, type), "arg", ns)
<1>1. "Argument" \in Kind /\ "Argument" \in Makes("arg") /\ "arg" \in NodeSymbol
  BY DEF Kind, Makes, NodeSymbol, Declaration, Expression, Literal, Statement, TopLevel
<1>2. arg(x, type)
        = [kind |-> "Argument", name |-> x, op |-> "none", type |-> type, operands |-> << >>,
           params |-> << >>, body |-> << >>, orelse |-> << >>]
  BY DEF arg, declaration
<1>3. /\ << >> \in Seq(Of(ns, {"Argument"}))
      /\ << >> \in Seq(Of(ns, Statement))
      /\ << >> \in Seq(Of(ns, Expression))
  BY DEF Expression
<1>4. Len(<< >>) \in Operands("Argument")
  BY DEF Operands, Literal
<1>5. NoName \in Name \cup {NoName} /\ "none" \in Operator \cup {"none"} /\ "none" \in Operators("Argument")
  BY DEF Operator, BinaryToken, Arithmetic, Comparison, Logical, Operators, Literal, UnaryOperator
<1>6. "Argument" \in Named => x \in Name
  BY DEF Named, Declaration, Literal
<1>8. type \in DeclaredTypes("Argument")
  BY DEF DeclaredTypes, Literal
<1>. HIDE DEF Of
<1>. QED
  BY <1>1, <1>2, <1>3, <1>4, <1>5, <1>6, <1>8, RecordIsMade

LEMMA variable_declaration_made ==
    ASSUME NEW ns, NEW x \in Name, NEW type \in RefType,
           NEW value \in Seq(Of(ns, Expression)), Len(value) \in {0, 1}
    PROVE  Made(variable_declaration(x, type, value), "statement", ns)
<1>1. "VariableDeclaration" \in Kind /\ "VariableDeclaration" \in Makes("statement") /\ "statement" \in NodeSymbol
  BY DEF Kind, Makes, NodeSymbol, Declaration, Expression, Literal, Statement, TopLevel
<1>2. variable_declaration(x, type, value)
        = [kind |-> "VariableDeclaration", name |-> x, op |-> "none", type |-> type, operands |-> value,
           params |-> << >>, body |-> << >>, orelse |-> << >>]
  BY DEF variable_declaration, declaration
<1>3. /\ << >> \in Seq(Of(ns, {"Argument"}))
      /\ << >> \in Seq(Of(ns, Statement))
      /\ value \in Seq(Of(ns, Expression))
  BY DEF Expression
<1>4. Len(value) \in Operands("VariableDeclaration")
  BY DEF Operands, Literal
<1>5. NoName \in Name \cup {NoName} /\ "none" \in Operator \cup {"none"} /\ "none" \in Operators("VariableDeclaration")
  BY DEF Operator, BinaryToken, Arithmetic, Comparison, Logical, Operators, Literal, UnaryOperator
<1>6. "VariableDeclaration" \in Named => x \in Name
  BY DEF Named, Declaration, Literal
<1>8. type \in DeclaredTypes("VariableDeclaration")
  BY DEF DeclaredTypes, Literal
<1>. HIDE DEF Of
<1>. QED
  BY <1>1, <1>2, <1>3, <1>4, <1>5, <1>6, <1>8, RecordIsMade

LEMMA variable_assignment_made ==
    ASSUME NEW ns, NEW x \in Name, NEW value \in Of(ns, Expression)
    PROVE  Made(variable_assignment(x, value), "statement", ns)
<1>1. "VariableAssignment" \in Kind /\ "VariableAssignment" \in Makes("statement") /\ "statement" \in NodeSymbol
  BY DEF Kind, Makes, NodeSymbol, Declaration, Expression, Literal, Statement, TopLevel
<1>2. variable_assignment(x, value)
        = [kind |-> "VariableAssignment", name |-> x, op |-> "none", type |-> NoType, operands |-> << value >>,
           params |-> << >>, body |-> << >>, orelse |-> << >>]
  BY DEF variable_assignment, expression
<1>3. /\ << >> \in Seq(Of(ns, {"Argument"}))
      /\ << >> \in Seq(Of(ns, Statement))
      /\ << value >> \in Seq(Of(ns, Expression))
  BY DEF Expression
<1>4. Len(<< value >>) \in Operands("VariableAssignment")
  BY DEF Operands, Literal
<1>5. NoName \in Name \cup {NoName} /\ "none" \in Operator \cup {"none"} /\ "none" \in Operators("VariableAssignment")
  BY DEF Operator, BinaryToken, Arithmetic, Comparison, Logical, Operators, Literal, UnaryOperator
<1>6. "VariableAssignment" \in Named => x \in Name
  BY DEF Named, Declaration, Literal
<1>8. NoType \in DeclaredTypes("VariableAssignment")
  BY DEF DeclaredTypes, Literal
<1>. HIDE DEF Of
<1>. QED
  BY <1>1, <1>2, <1>3, <1>4, <1>5, <1>6, <1>8, RecordIsMade

LEMMA function_return_made ==
    ASSUME NEW ns, NEW value \in Seq(Of(ns, Expression)), Len(value) \in {0, 1}
    PROVE  Made(function_return(value), "statement", ns)
<1>1. "FunctionReturn" \in Kind /\ "FunctionReturn" \in Makes("statement") /\ "statement" \in NodeSymbol
  BY DEF Kind, Makes, NodeSymbol, Declaration, Expression, Literal, Statement, TopLevel
<1>2. function_return(value)
        = [kind |-> "FunctionReturn", name |-> NoName, op |-> "none", type |-> NoType, operands |-> value,
           params |-> << >>, body |-> << >>, orelse |-> << >>]
  BY DEF function_return, expression
<1>3. /\ << >> \in Seq(Of(ns, {"Argument"}))
      /\ << >> \in Seq(Of(ns, Statement))
      /\ value \in Seq(Of(ns, Expression))
  BY DEF Expression
<1>4. Len(value) \in Operands("FunctionReturn")
  BY DEF Operands, Literal
<1>5. NoName \in Name \cup {NoName} /\ "none" \in Operator \cup {"none"} /\ "none" \in Operators("FunctionReturn")
  BY DEF Operator, BinaryToken, Arithmetic, Comparison, Logical, Operators, Literal, UnaryOperator
<1>6. "FunctionReturn" \in Named => NoName \in Name
  BY DEF Named, Declaration, Literal
<1>8. NoType \in DeclaredTypes("FunctionReturn")
  BY DEF DeclaredTypes, Literal
<1>. HIDE DEF Of
<1>. QED
  BY <1>1, <1>2, <1>3, <1>4, <1>5, <1>6, <1>8, RecordIsMade

LEMMA if_statement_made ==
    ASSUME NEW ns, NEW condition \in Of(ns, Expression),
           NEW then_block \in Seq(Of(ns, Statement)), NEW else_block \in Seq(Of(ns, Statement))
    PROVE  Made(if_statement(condition, then_block, else_block), "statement", ns)
<1>1. "If" \in Kind /\ "If" \in Makes("statement") /\ "statement" \in NodeSymbol
  BY DEF Kind, Makes, NodeSymbol, Declaration, Expression, Literal, Statement, TopLevel
<1>2. if_statement(condition, then_block, else_block)
        = [kind |-> "If", name |-> NoName, op |-> "none", type |-> NoType, operands |-> << condition >>,
           params |-> << >>, body |-> then_block, orelse |-> else_block]
  BY DEF if_statement
<1>3. /\ << >> \in Seq(Of(ns, {"Argument"}))
      /\ << >> \in Seq(Of(ns, Statement))
      /\ << condition >> \in Seq(Of(ns, Expression))
  BY DEF Expression
<1>4. Len(<< condition >>) \in Operands("If")
  BY DEF Operands, Literal
<1>5. NoName \in Name \cup {NoName} /\ "none" \in Operator \cup {"none"} /\ "none" \in Operators("If")
  BY DEF Operator, BinaryToken, Arithmetic, Comparison, Logical, Operators, Literal, UnaryOperator
<1>6. "If" \in Named => NoName \in Name
  BY DEF Named, Declaration, Literal
<1>8. NoType \in DeclaredTypes("If")
  BY DEF DeclaredTypes, Literal
<1>. HIDE DEF Of
<1>7. Made([kind |-> "If", name |-> NoName, op |-> "none", type |-> NoType, operands |-> << condition >>,
             params |-> << >>, body |-> then_block, orelse |-> else_block], "statement", ns)
  BY <1>1, <1>3, <1>4, <1>5, <1>6, <1>8, RecordIsMade
<1>. QED
  BY <1>2, <1>7

LEMMA variable_lookup_made ==
    ASSUME NEW ns, NEW x \in Name
    PROVE  Made(variable_lookup(x), "expr", ns)
<1>1. "VariableLookup" \in Kind /\ "VariableLookup" \in Makes("expr") /\ "expr" \in NodeSymbol
  BY DEF Kind, Makes, NodeSymbol, Declaration, Expression, Literal, Statement, TopLevel
<1>2. variable_lookup(x)
        = [kind |-> "VariableLookup", name |-> x, op |-> "none", type |-> NoType, operands |-> << >>,
           params |-> << >>, body |-> << >>, orelse |-> << >>]
  BY DEF variable_lookup, expression
<1>3. /\ << >> \in Seq(Of(ns, {"Argument"}))
      /\ << >> \in Seq(Of(ns, Statement))
      /\ << >> \in Seq(Of(ns, Expression))
  BY DEF Expression
<1>4. Len(<< >>) \in Operands("VariableLookup")
  BY DEF Operands, Literal
<1>5. NoName \in Name \cup {NoName} /\ "none" \in Operator \cup {"none"} /\ "none" \in Operators("VariableLookup")
  BY DEF Operator, BinaryToken, Arithmetic, Comparison, Logical, Operators, Literal, UnaryOperator
<1>6. "VariableLookup" \in Named => x \in Name
  BY DEF Named, Declaration, Literal
<1>8. NoType \in DeclaredTypes("VariableLookup")
  BY DEF DeclaredTypes, Literal
<1>. HIDE DEF Of
<1>. QED
  BY <1>1, <1>2, <1>3, <1>4, <1>5, <1>6, <1>8, RecordIsMade

LEMMA function_call_made ==
    ASSUME NEW ns, NEW f \in Name, NEW args \in Seq(Of(ns, Expression))
    PROVE  Made(function_call(f, args), "expr", ns)
<1>1. "FunctionCall" \in Kind /\ "FunctionCall" \in Makes("expr") /\ "expr" \in NodeSymbol
  BY DEF Kind, Makes, NodeSymbol, Declaration, Expression, Literal, Statement, TopLevel
<1>2. function_call(f, args)
        = [kind |-> "FunctionCall", name |-> f, op |-> "none", type |-> NoType, operands |-> args,
           params |-> << >>, body |-> << >>, orelse |-> << >>]
  BY DEF function_call, expression
<1>3. /\ << >> \in Seq(Of(ns, {"Argument"}))
      /\ << >> \in Seq(Of(ns, Statement))
      /\ args \in Seq(Of(ns, Expression))
  BY DEF Expression
<1>4. Len(args) \in Operands("FunctionCall")
  BY DEF Operands, Literal
<1>5. NoName \in Name \cup {NoName} /\ "none" \in Operator \cup {"none"} /\ "none" \in Operators("FunctionCall")
  BY DEF Operator, BinaryToken, Arithmetic, Comparison, Logical, Operators, Literal, UnaryOperator
<1>6. "FunctionCall" \in Named => f \in Name
  BY DEF Named, Declaration, Literal
<1>8. NoType \in DeclaredTypes("FunctionCall")
  BY DEF DeclaredTypes, Literal
<1>. HIDE DEF Of
<1>. QED
  BY <1>1, <1>2, <1>3, <1>4, <1>5, <1>6, <1>8, RecordIsMade

LEMMA unary_op_made ==
    ASSUME NEW ns, NEW op \in UnaryOperator, NEW operand \in Of(ns, Expression)
    PROVE  Made(unary_op(op, operand), "expr", ns)
<1>1. "UnaryOp" \in Kind /\ "UnaryOp" \in Makes("expr") /\ "expr" \in NodeSymbol
  BY DEF Kind, Makes, NodeSymbol, Declaration, Expression, Literal, Statement, TopLevel
<1>2. unary_op(op, operand)
        = [kind |-> "UnaryOp", name |-> NoName, op |-> op, type |-> NoType, operands |-> << operand >>,
           params |-> << >>, body |-> << >>, orelse |-> << >>]
  BY DEF unary_op, expression
<1>3. /\ << >> \in Seq(Of(ns, {"Argument"}))
      /\ << >> \in Seq(Of(ns, Statement))
      /\ << operand >> \in Seq(Of(ns, Expression))
  BY DEF Expression
<1>4. Len(<< operand >>) \in Operands("UnaryOp")
  BY DEF Operands, Literal
<1>5. NoName \in Name \cup {NoName} /\ op \in Operator \cup {"none"} /\ op \in Operators("UnaryOp")
  BY DEF Operator, BinaryToken, Arithmetic, Comparison, Logical, Operators, Literal, UnaryOperator
<1>6. "UnaryOp" \in Named => NoName \in Name
  BY DEF Named, Declaration, Literal
<1>8. NoType \in DeclaredTypes("UnaryOp")
  BY DEF DeclaredTypes, Literal
<1>. HIDE DEF Of
<1>. QED
  BY <1>1, <1>2, <1>3, <1>4, <1>5, <1>6, <1>8, RecordIsMade

LEMMA binary_op_made ==
    ASSUME NEW ns, NEW op \in BinaryToken, NEW left \in Of(ns, Expression), NEW right \in Of(ns, Expression)
    PROVE  Made(binary_op(op, left, right), "expr", ns)
<1>1. "BinaryOp" \in Kind /\ "BinaryOp" \in Makes("expr") /\ "expr" \in NodeSymbol
  BY DEF Kind, Makes, NodeSymbol, Declaration, Expression, Literal, Statement, TopLevel
<1>2. binary_op(op, left, right)
        = [kind |-> "BinaryOp", name |-> NoName, op |-> op, type |-> NoType, operands |-> << left, right >>,
           params |-> << >>, body |-> << >>, orelse |-> << >>]
  BY DEF binary_op, expression
<1>3. /\ << >> \in Seq(Of(ns, {"Argument"}))
      /\ << >> \in Seq(Of(ns, Statement))
      /\ << left, right >> \in Seq(Of(ns, Expression))
  BY DEF Expression
<1>4. Len(<< left, right >>) \in Operands("BinaryOp")
  BY DEF Operands, Literal
<1>5. NoName \in Name \cup {NoName} /\ op \in Operator \cup {"none"} /\ op \in Operators("BinaryOp")
  BY DEF Operator, BinaryToken, Arithmetic, Comparison, Logical, Operators, Literal, UnaryOperator
<1>6. "BinaryOp" \in Named => NoName \in Name
  BY DEF Named, Declaration, Literal
<1>8. NoType \in DeclaredTypes("BinaryOp")
  BY DEF DeclaredTypes, Literal
<1>. HIDE DEF Of
<1>. QED
  BY <1>1, <1>2, <1>3, <1>4, <1>5, <1>6, <1>8, RecordIsMade

LEMMA const_value_made ==
    ASSUME NEW ns, NEW kind \in Literal
    PROVE  Made(const_value(kind), "const_value", ns)
<1>1. kind \in Kind /\ kind \in Makes("const_value") /\ "const_value" \in NodeSymbol
  BY DEF Kind, Makes, NodeSymbol, Declaration, Expression, Literal, Statement, TopLevel
<1>2. const_value(kind)
        = [kind |-> kind, name |-> NoName, op |-> "none", type |-> NoType, operands |-> << >>,
           params |-> << >>, body |-> << >>, orelse |-> << >>]
  BY DEF const_value, expression
<1>3. /\ << >> \in Seq(Of(ns, {"Argument"}))
      /\ << >> \in Seq(Of(ns, Statement))
      /\ << >> \in Seq(Of(ns, Expression))
  BY DEF Expression
<1>4. Len(<< >>) \in Operands(kind)
  BY DEF Operands, Literal
<1>5. NoName \in Name \cup {NoName} /\ "none" \in Operator \cup {"none"} /\ "none" \in Operators(kind)
  BY DEF Operator, BinaryToken, Arithmetic, Comparison, Logical, Operators, Literal, UnaryOperator
<1>6. (kind \in Named => NoName \in Name) /\ kind # "ConstantDeclaration"
  BY DEF Named, Declaration, Literal
<1>8. NoType \in DeclaredTypes(kind)
  BY DEF DeclaredTypes, Literal
<1>. HIDE DEF Of
<1>. QED
  BY <1>1, <1>2, <1>3, <1>4, <1>5, <1>6, <1>8, RecordIsMade

\* Which symbols stand for a node and which for a list of nodes.
LEMMA SymbolKinds ==
    /\ \A X \in {"const_value", "expr", "arg", "statement", "instruction", "const_definition", "function"} :
         X \in NodeSymbol /\ X \notin ListSymbol
    /\ \A X \in {"block", "statements", "def_args", "call_args", "top_level", "parse"} :
         X \in ListSymbol /\ X \notin NodeSymbol
    /\ \A X \in {"EOF", "CLOSE_CUR", "CLOSE_PAR", "COMMA", "EQUALS", "EXCLAMATION", "IDENTIFIER",
                  "KEYWORD_CONST", "KEYWORD_ELSE", "KEYWORD_FUN", "KEYWORD_IF", "KEYWORD_RET",
                  "KEYWORD_VAR", "MINUS", "OPEN_CUR", "OPEN_PAR", "TYPE", "reftype"} :
         X \notin NodeSymbol \cup ListSymbol
    /\ \A X \in BinaryToken \cup LiteralToken : X \notin NodeSymbol \cup ListSymbol
  BY DEF NodeSymbol, ListSymbol, BinaryToken, LiteralToken

\* The grammar, rule by rule.
LEMMA GrammarRules ==
    /\ \A r \in BinaryToken : Grammar[r] = rule("expr", << "expr", r, "expr" >>)
    /\ \A r \in LiteralToken : Grammar[r] = rule("const_value", << r >>)
    /\ Grammar["accept"] = rule("accept", << "parse", "EOF" >>)
    /\ Grammar["parse"] = rule("parse", << "top_level" >>)
    /\ Grammar["top_level"] = rule("top_level", << "instruction" >>)
    /\ Grammar["top_level_more"] = rule("top_level", << "top_level", "instruction" >>)
    /\ Grammar["instruction_const"] = rule("instruction", << "const_definition" >>)
    /\ Grammar["instruction_fun"] = rule("instruction", << "function" >>)
    /\ Grammar["const_definition"] = rule("const_definition", << "KEYWORD_CONST", "IDENTIFIER", "EQUALS", "const_value" >>)
    /\ Grammar["function"] = rule("function", << "KEYWORD_FUN", "IDENTIFIER", "OPEN_PAR", "CLOSE_PAR", "block" >>)
    /\ Grammar["function_args"] = rule("function", << "KEYWORD_FUN", "IDENTIFIER", "OPEN_PAR", "def_args", "CLOSE_PAR", "block" >>)
    /\ Grammar["function_type"] = rule("function", << "KEYWORD_FUN", "IDENTIFIER", "OPEN_PAR", "CLOSE_PAR", "reftype", "block" >>)
    /\ Grammar["function_args_type"] = rule("function", << "KEYWORD_FUN", "IDENTIFIER", "OPEN_PAR", "def_args", "CLOSE_PAR", "reftype", "block" >>)
    /\ Grammar["block"] = rule("block", << "OPEN_CUR", "statements", "CLOSE_CUR" >>)
    /\ Grammar["block_empty"] = rule("block", << "OPEN_CUR", "CLOSE_CUR" >>)
    /\ Grammar["arg"] = rule("arg", << "IDENTIFIER", "reftype" >>)
    /\ Grammar["def_args"] = rule("def_args", << "arg" >>)
    /\ Grammar["def_args_more"] = rule("def_args", << "def_args", "COMMA", "arg" >>)
    /\ Grammar["call_args"] = rule("call_args", << "expr" >>)
    /\ Grammar["call_args_more"] = rule("call_args", << "call_args", "COMMA", "expr" >>)
    /\ Grammar["statements"] = rule("statements", << "statement" >>)
    /\ Grammar["statements_more"] = rule("statements", << "statements", "statement" >>)
    /\ Grammar["var"] = rule("statement", << "KEYWORD_VAR", "IDENTIFIER", "reftype" >>)
    /\ Grammar["var_value"] = rule("statement", << "KEYWORD_VAR", "IDENTIFIER", "reftype", "EQUALS", "expr" >>)
    /\ Grammar["assignment"] = rule("statement", << "IDENTIFIER", "EQUALS", "expr" >>)
    /\ Grammar["expression"] = rule("statement", << "expr" >>)
    /\ Grammar["ret_value"] = rule("statement", << "KEYWORD_RET", "expr" >>)
    /\ Grammar["ret"] = rule("statement", << "KEYWORD_RET" >>)
    /\ Grammar["if"] = rule("statement", << "KEYWORD_IF", "expr", "block" >>)
    /\ Grammar["if_else"] = rule("statement", << "KEYWORD_IF", "expr", "block", "KEYWORD_ELSE", "block" >>)
    /\ Grammar["literal"] = rule("expr", << "const_value" >>)
    /\ Grammar["lookup"] = rule("expr", << "IDENTIFIER" >>)
    /\ Grammar["call"] = rule("expr", << "IDENTIFIER", "OPEN_PAR", "CLOSE_PAR" >>)
    /\ Grammar["call_with_args"] = rule("expr", << "IDENTIFIER", "OPEN_PAR", "call_args", "CLOSE_PAR" >>)
    /\ Grammar["NOT"] = rule("expr", << "EXCLAMATION", "expr" >>)
    /\ Grammar["NEGATE"] = rule("expr", << "MINUS", "expr" >>)
    /\ Grammar["parentheses"] = rule("expr", << "OPEN_PAR", "expr", "CLOSE_PAR" >>)
    /\ Grammar["reftype"] = rule("reftype", << "TYPE" >>)
<1>1. \A r \in BinaryToken : Grammar[r] = rule("expr", << "expr", r, "expr" >>)
  BY DEF Grammar
<1>2. \A r \in LiteralToken : Grammar[r] = rule("const_value", << r >>)
  BY DEF Grammar, BinaryToken, LiteralToken
<1>3. \A r \in DOMAIN Alternative \ (BinaryToken \cup LiteralToken) : Grammar[r] = Alternative[r]
  BY DEF Grammar
<1>4. \A r \in {"accept", "parse", "top_level", "top_level_more", "instruction_const", "instruction_fun", "const_definition", "function", "function_args", "function_type", "function_args_type", "block", "block_empty", "arg", "def_args", "def_args_more", "call_args", "call_args_more", "statements", "statements_more", "var", "var_value", "assignment", "expression", "ret_value", "ret", "if", "if_else", "literal", "lookup", "call", "call_with_args", "NOT", "NEGATE", "parentheses", "reftype"} :
        r \in DOMAIN Alternative \ (BinaryToken \cup LiteralToken)
  BY DEF Alternative, BinaryToken, LiteralToken
<1>5. Grammar["accept"] = rule("accept", << "parse", "EOF" >>)
  BY <1>3, <1>4 DEF Alternative
<1>6. Grammar["parse"] = rule("parse", << "top_level" >>)
  BY <1>3, <1>4 DEF Alternative
<1>7. Grammar["top_level"] = rule("top_level", << "instruction" >>)
  BY <1>3, <1>4 DEF Alternative
<1>8. Grammar["top_level_more"] = rule("top_level", << "top_level", "instruction" >>)
  BY <1>3, <1>4 DEF Alternative
<1>9. Grammar["instruction_const"] = rule("instruction", << "const_definition" >>)
  BY <1>3, <1>4 DEF Alternative
<1>10. Grammar["instruction_fun"] = rule("instruction", << "function" >>)
  BY <1>3, <1>4 DEF Alternative
<1>11. Grammar["const_definition"] = rule("const_definition", << "KEYWORD_CONST", "IDENTIFIER", "EQUALS", "const_value" >>)
  BY <1>3, <1>4 DEF Alternative
<1>12. Grammar["function"] = rule("function", << "KEYWORD_FUN", "IDENTIFIER", "OPEN_PAR", "CLOSE_PAR", "block" >>)
  BY <1>3, <1>4 DEF Alternative
<1>13. Grammar["function_args"] = rule("function", << "KEYWORD_FUN", "IDENTIFIER", "OPEN_PAR", "def_args", "CLOSE_PAR", "block" >>)
  BY <1>3, <1>4 DEF Alternative
<1>14. Grammar["function_type"] = rule("function", << "KEYWORD_FUN", "IDENTIFIER", "OPEN_PAR", "CLOSE_PAR", "reftype", "block" >>)
  BY <1>3, <1>4 DEF Alternative
<1>15. Grammar["function_args_type"] = rule("function", << "KEYWORD_FUN", "IDENTIFIER", "OPEN_PAR", "def_args", "CLOSE_PAR", "reftype", "block" >>)
  BY <1>3, <1>4 DEF Alternative
<1>16. Grammar["block"] = rule("block", << "OPEN_CUR", "statements", "CLOSE_CUR" >>)
  BY <1>3, <1>4 DEF Alternative
<1>17. Grammar["block_empty"] = rule("block", << "OPEN_CUR", "CLOSE_CUR" >>)
  BY <1>3, <1>4 DEF Alternative
<1>18. Grammar["arg"] = rule("arg", << "IDENTIFIER", "reftype" >>)
  BY <1>3, <1>4 DEF Alternative
<1>19. Grammar["def_args"] = rule("def_args", << "arg" >>)
  BY <1>3, <1>4 DEF Alternative
<1>20. Grammar["def_args_more"] = rule("def_args", << "def_args", "COMMA", "arg" >>)
  BY <1>3, <1>4 DEF Alternative
<1>21. Grammar["call_args"] = rule("call_args", << "expr" >>)
  BY <1>3, <1>4 DEF Alternative
<1>22. Grammar["call_args_more"] = rule("call_args", << "call_args", "COMMA", "expr" >>)
  BY <1>3, <1>4 DEF Alternative
<1>23. Grammar["statements"] = rule("statements", << "statement" >>)
  BY <1>3, <1>4 DEF Alternative
<1>24. Grammar["statements_more"] = rule("statements", << "statements", "statement" >>)
  BY <1>3, <1>4 DEF Alternative
<1>25. Grammar["var"] = rule("statement", << "KEYWORD_VAR", "IDENTIFIER", "reftype" >>)
  BY <1>3, <1>4 DEF Alternative
<1>26. Grammar["var_value"] = rule("statement", << "KEYWORD_VAR", "IDENTIFIER", "reftype", "EQUALS", "expr" >>)
  BY <1>3, <1>4 DEF Alternative
<1>27. Grammar["assignment"] = rule("statement", << "IDENTIFIER", "EQUALS", "expr" >>)
  BY <1>3, <1>4 DEF Alternative
<1>28. Grammar["expression"] = rule("statement", << "expr" >>)
  BY <1>3, <1>4 DEF Alternative
<1>29. Grammar["ret_value"] = rule("statement", << "KEYWORD_RET", "expr" >>)
  BY <1>3, <1>4 DEF Alternative
<1>30. Grammar["ret"] = rule("statement", << "KEYWORD_RET" >>)
  BY <1>3, <1>4 DEF Alternative
<1>31. Grammar["if"] = rule("statement", << "KEYWORD_IF", "expr", "block" >>)
  BY <1>3, <1>4 DEF Alternative
<1>32. Grammar["if_else"] = rule("statement", << "KEYWORD_IF", "expr", "block", "KEYWORD_ELSE", "block" >>)
  BY <1>3, <1>4 DEF Alternative
<1>33. Grammar["literal"] = rule("expr", << "const_value" >>)
  BY <1>3, <1>4 DEF Alternative
<1>34. Grammar["lookup"] = rule("expr", << "IDENTIFIER" >>)
  BY <1>3, <1>4 DEF Alternative
<1>35. Grammar["call"] = rule("expr", << "IDENTIFIER", "OPEN_PAR", "CLOSE_PAR" >>)
  BY <1>3, <1>4 DEF Alternative
<1>36. Grammar["call_with_args"] = rule("expr", << "IDENTIFIER", "OPEN_PAR", "call_args", "CLOSE_PAR" >>)
  BY <1>3, <1>4 DEF Alternative
<1>37. Grammar["NOT"] = rule("expr", << "EXCLAMATION", "expr" >>)
  BY <1>3, <1>4 DEF Alternative
<1>38. Grammar["NEGATE"] = rule("expr", << "MINUS", "expr" >>)
  BY <1>3, <1>4 DEF Alternative
<1>39. Grammar["parentheses"] = rule("expr", << "OPEN_PAR", "expr", "CLOSE_PAR" >>)
  BY <1>3, <1>4 DEF Alternative
<1>40. Grammar["reftype"] = rule("reftype", << "TYPE" >>)
  BY <1>3, <1>4 DEF Alternative
<1>. QED
  BY <1>1, <1>2, <1>5, <1>6, <1>7, <1>8, <1>9, <1>10, <1>11, <1>12, <1>13, <1>14, <1>15, <1>16, <1>17, <1>18, <1>19, <1>20, <1>21, <1>22, <1>23, <1>24, <1>25, <1>26, <1>27, <1>28, <1>29, <1>30, <1>31, <1>32, <1>33, <1>34, <1>35, <1>36, <1>37, <1>38, <1>39, <1>40

\* Every action that makes a node makes a legal one of its symbol.
LEMMA ActionsMakeLegalNodes ==
    ASSUME NEW ns, NEW v, NEW r \in NodeRule,
           \A j \in DOMAIN Grammar[r].rhs : Fits(Grammar[r].rhs[j], v[j], ns)
    PROVE  Made(node_of(r, v), Grammar[r].lhs, ns)
<1>1. CASE r = "const_definition"
  <2>1. Grammar[r] = rule("const_definition", << "KEYWORD_CONST", "IDENTIFIER", "EQUALS", "const_value" >>)
    BY <1>1, GrammarRules
  <2>2. Fits("IDENTIFIER", v[2], ns) /\ Fits("const_value", v[4], ns)
    BY <2>1 DEF rule
  <2>3. v[2] \in Name /\ v[4] \in Of(ns, Literal)
    BY <2>2 DEF Fits, Makes, NodeSymbol
  <2>4. node_of("const_definition", v) = const_definition(v[2], v[4])
    BY DEF node_of, BinaryToken
  <2>5. Made(const_definition(v[2], v[4]), "const_definition", ns)
    BY <2>3, const_definition_made
  <2>. QED
    BY <1>1, <2>1, <2>4, <2>5 DEF rule
<1>2. CASE r = "function"
  <2>1. Grammar[r] = rule("function", << "KEYWORD_FUN", "IDENTIFIER", "OPEN_PAR", "CLOSE_PAR", "block" >>)
    BY <1>2, GrammarRules
  <2>2. Fits("IDENTIFIER", v[2], ns) /\ Fits("block", v[5], ns)
    BY <2>1 DEF rule
  <2>3. v[2] \in Name /\ v[5] \in Seq(Of(ns, Statement))
    BY <2>2 DEF Fits, Makes, NodeSymbol
  <2>4. node_of("function", v) = function(v[2], << >>, UNDEF, v[5])
    BY DEF node_of, BinaryToken
  <2>6. << >> \in Seq(Of(ns, {"Argument"})) /\ UNDEF \in RefType \cup {UNDEF}
    OBVIOUS
  <2>5. Made(function(v[2], << >>, UNDEF, v[5]), "function", ns)
    BY <2>3, <2>6, function_made
  <2>. QED
    BY <1>2, <2>1, <2>4, <2>5 DEF rule
<1>3. CASE r = "function_args"
  <2>1. Grammar[r] = rule("function", << "KEYWORD_FUN", "IDENTIFIER", "OPEN_PAR", "def_args", "CLOSE_PAR", "block" >>)
    BY <1>3, GrammarRules
  <2>2. Fits("IDENTIFIER", v[2], ns) /\ Fits("def_args", v[4], ns) /\ Fits("block", v[6], ns)
    BY <2>1 DEF rule
  <2>3. v[2] \in Name /\ v[4] \in Seq(Of(ns, {"Argument"})) /\ v[6] \in Seq(Of(ns, Statement))
    BY <2>2 DEF Fits, Makes, NodeSymbol
  <2>4. node_of("function_args", v) = function(v[2], v[4], UNDEF, v[6])
    BY DEF node_of, BinaryToken
  <2>6. UNDEF \in RefType \cup {UNDEF}
    OBVIOUS
  <2>5. Made(function(v[2], v[4], UNDEF, v[6]), "function", ns)
    BY <2>3, <2>6, function_made
  <2>. QED
    BY <1>3, <2>1, <2>4, <2>5 DEF rule
<1>4. CASE r = "function_type"
  <2>1. Grammar[r] = rule("function", << "KEYWORD_FUN", "IDENTIFIER", "OPEN_PAR", "CLOSE_PAR", "reftype", "block" >>)
    BY <1>4, GrammarRules
  <2>2. Fits("IDENTIFIER", v[2], ns) /\ Fits("reftype", v[5], ns) /\ Fits("block", v[6], ns)
    BY <2>1 DEF rule
  <2>3. v[2] \in Name /\ v[5] \in RefType /\ v[6] \in Seq(Of(ns, Statement))
    BY <2>2 DEF Fits, Makes, NodeSymbol
  <2>4. node_of("function_type", v) = function(v[2], << >>, v[5], v[6])
    BY DEF node_of, BinaryToken
  <2>6. << >> \in Seq(Of(ns, {"Argument"}))
    OBVIOUS
  <2>5. Made(function(v[2], << >>, v[5], v[6]), "function", ns)
    BY <2>3, <2>6, function_made
  <2>. QED
    BY <1>4, <2>1, <2>4, <2>5 DEF rule
<1>5. CASE r = "function_args_type"
  <2>1. Grammar[r] = rule("function", << "KEYWORD_FUN", "IDENTIFIER", "OPEN_PAR", "def_args", "CLOSE_PAR", "reftype", "block" >>)
    BY <1>5, GrammarRules
  <2>2. Fits("IDENTIFIER", v[2], ns) /\ Fits("def_args", v[4], ns) /\ Fits("reftype", v[6], ns) /\ Fits("block", v[7], ns)
    BY <2>1 DEF rule
  <2>3. v[2] \in Name /\ v[4] \in Seq(Of(ns, {"Argument"})) /\ v[6] \in RefType /\ v[7] \in Seq(Of(ns, Statement))
    BY <2>2 DEF Fits, Makes, NodeSymbol
  <2>4. node_of("function_args_type", v) = function(v[2], v[4], v[6], v[7])
    BY DEF node_of, BinaryToken
  <2>5. Made(function(v[2], v[4], v[6], v[7]), "function", ns)
    BY <2>3, function_made
  <2>. QED
    BY <1>5, <2>1, <2>4, <2>5 DEF rule
<1>6. CASE r = "arg"
  <2>1. Grammar[r] = rule("arg", << "IDENTIFIER", "reftype" >>)
    BY <1>6, GrammarRules
  <2>2. Fits("IDENTIFIER", v[1], ns) /\ Fits("reftype", v[2], ns)
    BY <2>1 DEF rule
  <2>3. v[1] \in Name /\ v[2] \in RefType
    BY <2>2 DEF Fits, Makes, NodeSymbol
  <2>4. node_of("arg", v) = arg(v[1], v[2])
    BY DEF node_of, BinaryToken
  <2>5. Made(arg(v[1], v[2]), "arg", ns)
    BY <2>3, arg_made
  <2>. QED
    BY <1>6, <2>1, <2>4, <2>5 DEF rule
<1>7. CASE r = "var"
  <2>1. Grammar[r] = rule("statement", << "KEYWORD_VAR", "IDENTIFIER", "reftype" >>)
    BY <1>7, GrammarRules
  <2>2. Fits("IDENTIFIER", v[2], ns) /\ Fits("reftype", v[3], ns)
    BY <2>1 DEF rule
  <2>3. v[2] \in Name /\ v[3] \in RefType
    BY <2>2 DEF Fits, Makes, NodeSymbol
  <2>4. node_of("var", v) = variable_declaration(v[2], v[3], << >>)
    BY DEF node_of, BinaryToken
  <2>6. << >> \in Seq(Of(ns, Expression)) /\ Len(<< >>) \in {0, 1}
    OBVIOUS
  <2>5. Made(variable_declaration(v[2], v[3], << >>), "statement", ns)
    BY <2>3, <2>6, variable_declaration_made
  <2>. QED
    BY <1>7, <2>1, <2>4, <2>5 DEF rule
<1>8. CASE r = "var_value"
  <2>1. Grammar[r] = rule("statement", << "KEYWORD_VAR", "IDENTIFIER", "reftype", "EQUALS", "expr" >>)
    BY <1>8, GrammarRules
  <2>2. Fits("IDENTIFIER", v[2], ns) /\ Fits("reftype", v[3], ns) /\ Fits("expr", v[5], ns)
    BY <2>1 DEF rule
  <2>3. v[2] \in Name /\ v[3] \in RefType /\ v[5] \in Of(ns, Expression)
    BY <2>2 DEF Fits, Makes, NodeSymbol
  <2>4. node_of("var_value", v) = variable_declaration(v[2], v[3], << v[5] >>)
    BY DEF node_of, BinaryToken
  <2>6. << v[5] >> \in Seq(Of(ns, Expression)) /\ Len(<< v[5] >>) \in {0, 1}
    BY <2>3
  <2>5. Made(variable_declaration(v[2], v[3], << v[5] >>), "statement", ns)
    BY <2>3, <2>6, variable_declaration_made
  <2>. QED
    BY <1>8, <2>1, <2>4, <2>5 DEF rule
<1>9. CASE r = "assignment"
  <2>1. Grammar[r] = rule("statement", << "IDENTIFIER", "EQUALS", "expr" >>)
    BY <1>9, GrammarRules
  <2>2. Fits("IDENTIFIER", v[1], ns) /\ Fits("expr", v[3], ns)
    BY <2>1 DEF rule
  <2>3. v[1] \in Name /\ v[3] \in Of(ns, Expression)
    BY <2>2 DEF Fits, Makes, NodeSymbol
  <2>4. node_of("assignment", v) = variable_assignment(v[1], v[3])
    BY DEF node_of, BinaryToken
  <2>5. Made(variable_assignment(v[1], v[3]), "statement", ns)
    BY <2>3, variable_assignment_made
  <2>. QED
    BY <1>9, <2>1, <2>4, <2>5 DEF rule
<1>10. CASE r = "ret_value"
  <2>1. Grammar[r] = rule("statement", << "KEYWORD_RET", "expr" >>)
    BY <1>10, GrammarRules
  <2>2. Fits("expr", v[2], ns)
    BY <2>1 DEF rule
  <2>3. v[2] \in Of(ns, Expression)
    BY <2>2 DEF Fits, Makes, NodeSymbol
  <2>4. node_of("ret_value", v) = function_return(<< v[2] >>)
    BY DEF node_of, BinaryToken
  <2>6. << v[2] >> \in Seq(Of(ns, Expression)) /\ Len(<< v[2] >>) \in {0, 1}
    BY <2>3
  <2>5. Made(function_return(<< v[2] >>), "statement", ns)
    BY <2>3, <2>6, function_return_made
  <2>. QED
    BY <1>10, <2>1, <2>4, <2>5 DEF rule
<1>11. CASE r = "ret"
  <2>1. Grammar[r] = rule("statement", << "KEYWORD_RET" >>)
    BY <1>11, GrammarRules
  <2>4. node_of("ret", v) = function_return(<< >>)
    BY DEF node_of, BinaryToken
  <2>6. << >> \in Seq(Of(ns, Expression)) /\ Len(<< >>) \in {0, 1}
    OBVIOUS
  <2>5. Made(function_return(<< >>), "statement", ns)
    BY <2>6, function_return_made
  <2>. QED
    BY <1>11, <2>1, <2>4, <2>5 DEF rule
<1>12. CASE r = "if"
  <2>1. Grammar[r] = rule("statement", << "KEYWORD_IF", "expr", "block" >>)
    BY <1>12, GrammarRules
  <2>2. Fits("expr", v[2], ns) /\ Fits("block", v[3], ns)
    BY <2>1 DEF rule
  <2>3. v[2] \in Of(ns, Expression) /\ v[3] \in Seq(Of(ns, Statement))
    BY <2>2 DEF Fits, Makes, NodeSymbol
  <2>4. node_of("if", v) = if_statement(v[2], v[3], << >>)
    BY DEF node_of, BinaryToken
  <2>6. << >> \in Seq(Of(ns, Statement))
    OBVIOUS
  <2>5. Made(if_statement(v[2], v[3], << >>), "statement", ns)
    BY <2>3, <2>6, if_statement_made
  <2>. QED
    BY <1>12, <2>1, <2>4, <2>5 DEF rule
<1>13. CASE r = "if_else"
  <2>1. Grammar[r] = rule("statement", << "KEYWORD_IF", "expr", "block", "KEYWORD_ELSE", "block" >>)
    BY <1>13, GrammarRules
  <2>2. Fits("expr", v[2], ns) /\ Fits("block", v[3], ns) /\ Fits("block", v[5], ns)
    BY <2>1 DEF rule
  <2>3. v[2] \in Of(ns, Expression) /\ v[3] \in Seq(Of(ns, Statement)) /\ v[5] \in Seq(Of(ns, Statement))
    BY <2>2 DEF Fits, Makes, NodeSymbol
  <2>4. node_of("if_else", v) = if_statement(v[2], v[3], v[5])
    BY DEF node_of, BinaryToken
  <2>5. Made(if_statement(v[2], v[3], v[5]), "statement", ns)
    BY <2>3, if_statement_made
  <2>. QED
    BY <1>13, <2>1, <2>4, <2>5 DEF rule
<1>14. CASE r = "lookup"
  <2>1. Grammar[r] = rule("expr", << "IDENTIFIER" >>)
    BY <1>14, GrammarRules
  <2>2. Fits("IDENTIFIER", v[1], ns)
    BY <2>1 DEF rule
  <2>3. v[1] \in Name
    BY <2>2 DEF Fits, Makes, NodeSymbol
  <2>4. node_of("lookup", v) = variable_lookup(v[1])
    BY DEF node_of, BinaryToken
  <2>5. Made(variable_lookup(v[1]), "expr", ns)
    BY <2>3, variable_lookup_made
  <2>. QED
    BY <1>14, <2>1, <2>4, <2>5 DEF rule
<1>15. CASE r = "call"
  <2>1. Grammar[r] = rule("expr", << "IDENTIFIER", "OPEN_PAR", "CLOSE_PAR" >>)
    BY <1>15, GrammarRules
  <2>2. Fits("IDENTIFIER", v[1], ns)
    BY <2>1 DEF rule
  <2>3. v[1] \in Name
    BY <2>2 DEF Fits, Makes, NodeSymbol
  <2>4. node_of("call", v) = function_call(v[1], << >>)
    BY DEF node_of, BinaryToken
  <2>6. << >> \in Seq(Of(ns, Expression))
    OBVIOUS
  <2>5. Made(function_call(v[1], << >>), "expr", ns)
    BY <2>3, <2>6, function_call_made
  <2>. QED
    BY <1>15, <2>1, <2>4, <2>5 DEF rule
<1>16. CASE r = "call_with_args"
  <2>1. Grammar[r] = rule("expr", << "IDENTIFIER", "OPEN_PAR", "call_args", "CLOSE_PAR" >>)
    BY <1>16, GrammarRules
  <2>2. Fits("IDENTIFIER", v[1], ns) /\ Fits("call_args", v[3], ns)
    BY <2>1 DEF rule
  <2>3. v[1] \in Name /\ v[3] \in Seq(Of(ns, Expression))
    BY <2>2 DEF Fits, Makes, NodeSymbol
  <2>4. node_of("call_with_args", v) = function_call(v[1], v[3])
    BY DEF node_of, BinaryToken
  <2>5. Made(function_call(v[1], v[3]), "expr", ns)
    BY <2>3, function_call_made
  <2>. QED
    BY <1>16, <2>1, <2>4, <2>5 DEF rule
<1>17. CASE r = "NOT"
  <2>1. Grammar[r] = rule("expr", << "EXCLAMATION", "expr" >>)
    BY <1>17, GrammarRules
  <2>2. Fits("expr", v[2], ns)
    BY <2>1 DEF rule
  <2>3. v[2] \in Of(ns, Expression)
    BY <2>2 DEF Fits, Makes, NodeSymbol
  <2>4. node_of("NOT", v) = unary_op("NOT", v[2])
    BY DEF node_of, BinaryToken
  <2>6. "NOT" \in UnaryOperator
    BY DEF UnaryOperator
  <2>5. Made(unary_op("NOT", v[2]), "expr", ns)
    BY <2>3, <2>6, unary_op_made
  <2>. QED
    BY <1>17, <2>1, <2>4, <2>5 DEF rule
<1>18. CASE r = "NEGATE"
  <2>1. Grammar[r] = rule("expr", << "MINUS", "expr" >>)
    BY <1>18, GrammarRules
  <2>2. Fits("expr", v[2], ns)
    BY <2>1 DEF rule
  <2>3. v[2] \in Of(ns, Expression)
    BY <2>2 DEF Fits, Makes, NodeSymbol
  <2>4. node_of("NEGATE", v) = unary_op("NEGATE", v[2])
    BY DEF node_of, BinaryToken
  <2>6. "NEGATE" \in UnaryOperator
    BY DEF UnaryOperator
  <2>5. Made(unary_op("NEGATE", v[2]), "expr", ns)
    BY <2>3, <2>6, unary_op_made
  <2>. QED
    BY <1>18, <2>1, <2>4, <2>5 DEF rule
<1>19. CASE r \in BinaryToken
  <2>1. Grammar[r] = rule("expr", << "expr", r, "expr" >>)
    BY <1>19, GrammarRules DEF BinaryToken, LiteralToken
  <2>2. Fits("expr", v[1], ns) /\ Fits("expr", v[3], ns)
    BY <2>1 DEF rule
  <2>3. v[1] \in Of(ns, Expression) /\ v[3] \in Of(ns, Expression)
    BY <2>2 DEF Fits, Makes, NodeSymbol
  <2>4. node_of(r, v) = binary_op(r, v[1], v[3])
    BY <1>19 DEF node_of, BinaryToken
  <2>5. Made(binary_op(r, v[1], v[3]), "expr", ns)
    BY <1>19, <2>3, binary_op_made
  <2>. QED
    BY <1>19, <2>1, <2>4, <2>5 DEF rule
<1>20. CASE r = "INTEGER"
  <2>1. Grammar[r] = rule("const_value", << "INTEGER" >>)
    BY <1>20, GrammarRules DEF BinaryToken, LiteralToken
  <2>4. node_of("INTEGER", v) = const_value("ConstantInteger")
    BY DEF node_of, BinaryToken
  <2>6. "ConstantInteger" \in Literal
    BY DEF Literal
  <2>5. Made(const_value("ConstantInteger"), "const_value", ns)
    BY <2>6, const_value_made
  <2>. QED
    BY <1>20, <2>1, <2>4, <2>5 DEF rule
<1>21. CASE r = "UINTEGER"
  <2>1. Grammar[r] = rule("const_value", << "UINTEGER" >>)
    BY <1>21, GrammarRules DEF BinaryToken, LiteralToken
  <2>4. node_of("UINTEGER", v) = const_value("ConstantUnsignedInteger")
    BY DEF node_of, BinaryToken
  <2>6. "ConstantUnsignedInteger" \in Literal
    BY DEF Literal
  <2>5. Made(const_value("ConstantUnsignedInteger"), "const_value", ns)
    BY <2>6, const_value_made
  <2>. QED
    BY <1>21, <2>1, <2>4, <2>5 DEF rule
<1>22. CASE r = "FLOAT"
  <2>1. Grammar[r] = rule("const_value", << "FLOAT" >>)
    BY <1>22, GrammarRules DEF BinaryToken, LiteralToken
  <2>4. node_of("FLOAT", v) = const_value("ConstantFloat")
    BY DEF node_of, BinaryToken
  <2>6. "ConstantFloat" \in Literal
    BY DEF Literal
  <2>5. Made(const_value("ConstantFloat"), "const_value", ns)
    BY <2>6, const_value_made
  <2>. QED
    BY <1>22, <2>1, <2>4, <2>5 DEF rule
<1>23. CASE r = "BOOL"
  <2>1. Grammar[r] = rule("const_value", << "BOOL" >>)
    BY <1>23, GrammarRules DEF BinaryToken, LiteralToken
  <2>4. node_of("BOOL", v) = const_value("ConstantBool")
    BY DEF node_of, BinaryToken
  <2>6. "ConstantBool" \in Literal
    BY DEF Literal
  <2>5. Made(const_value("ConstantBool"), "const_value", ns)
    BY <2>6, const_value_made
  <2>. QED
    BY <1>23, <2>1, <2>4, <2>5 DEF rule
<1>. QED
  BY <1>1, <1>2, <1>3, <1>4, <1>5, <1>6, <1>7, <1>8, <1>9, <1>10, <1>11, <1>12, <1>13, <1>14, <1>15, <1>16, <1>17, <1>18, <1>19, <1>20, <1>21, <1>22, <1>23 DEF NodeRule, LiteralToken

\* Every action that makes no node passes on what fits its symbol.
LEMMA ActionsPassOn ==
    ASSUME NEW ns \in Seq(AstNode), NEW v, NEW r \in Rule \ NodeRule,
           \A j \in DOMAIN Grammar[r].rhs : Fits(Grammar[r].rhs[j], v[j], ns)
    PROVE  Fits(Grammar[r].lhs, passed_on(r, v), ns)
<1>. DEFINE P == Fits(Grammar[r].lhs, passed_on(r, v), ns)
<1>1. CASE r \in {"top_level", "statements", "def_args", "call_args"}
  <2>1. passed_on(r, v) = << v[1] >>
    BY <1>1 DEF passed_on
  <2>2. Grammar[r] \in {rule("top_level", << "instruction" >>), rule("statements", << "statement" >>),
                       rule("def_args", << "arg" >>), rule("call_args", << "expr" >>)}
    <3>1. CASE r \in {"top_level", "statements"}
      BY <3>1, GrammarRules
    <3>2. CASE r \in {"def_args", "call_args"}
      BY <3>2, GrammarRules
    <3>. QED
      BY <1>1, <3>1, <3>2
  <2>3. DOMAIN Grammar[r].rhs = {1}
        /\ << Grammar[r].rhs[1], Grammar[r].lhs >> \in
             {<< "instruction", "top_level" >>, << "statement", "statements" >>,
              << "arg", "def_args" >>, << "expr", "call_args" >>}
    BY <2>2 DEF rule
  <2>. QED
    BY <2>1, <2>3 DEF Fits, Makes, NodeSymbol
<1>2. CASE r \in {"def_args_more", "call_args_more"}
  <2>1. passed_on(r, v) = Append(v[1], v[3])
    BY <1>2 DEF passed_on
  <2>2. Grammar[r] \in {rule("def_args", << "def_args", "COMMA", "arg" >>),
                       rule("call_args", << "call_args", "COMMA", "expr" >>)}
    BY <1>2, GrammarRules
  <2>3. DOMAIN Grammar[r].rhs = 1 .. 3
        /\ << Grammar[r].rhs[1], Grammar[r].rhs[3], Grammar[r].lhs >> \in
             {<< "def_args", "arg", "def_args" >>, << "call_args", "expr", "call_args" >>}
    BY <2>2 DEF rule
  <2>. QED
    BY <2>1, <2>3 DEF Fits, Makes, NodeSymbol
<1>3. CASE r \in {"top_level_more", "statements_more"}
  <2>1. passed_on(r, v) = Append(v[1], v[2])
    BY <1>3 DEF passed_on
  <2>2. Grammar[r] \in {rule("top_level", << "top_level", "instruction" >>),
                       rule("statements", << "statements", "statement" >>)}
    BY <1>3, GrammarRules
  <2>3. DOMAIN Grammar[r].rhs = 1 .. 2
        /\ << Grammar[r].rhs[1], Grammar[r].rhs[2], Grammar[r].lhs >> \in
             {<< "top_level", "instruction", "top_level" >>, << "statements", "statement", "statements" >>}
    BY <2>2 DEF rule
  <2>. QED
    BY <2>1, <2>3 DEF Fits, Makes, NodeSymbol
<1>4. CASE r = "block_empty"
  <2>1. Grammar[r].lhs = "block" /\ passed_on(r, v) = << >>
    BY <1>4, GrammarRules DEF rule, passed_on
  <2>. QED
    BY <2>1 DEF Fits, NodeSymbol
<1>5. CASE r \in {"block", "parentheses"}
  <2>1. passed_on(r, v) = v[2]
    BY <1>5 DEF passed_on
  <2>3. Grammar[r] \in {rule("block", << "OPEN_CUR", "statements", "CLOSE_CUR" >>),
                       rule("expr", << "OPEN_PAR", "expr", "CLOSE_PAR" >>)}
    BY <1>5, GrammarRules
  <2>2. DOMAIN Grammar[r].rhs = 1 .. 3
        /\ << Grammar[r].rhs[2], Grammar[r].lhs >> \in {<< "statements", "block" >>, << "expr", "expr" >>}
    BY <2>3 DEF rule
  <2>. QED
    BY <2>1, <2>2 DEF Fits, Makes, NodeSymbol
<1>6. CASE r \in {"parse", "instruction_const", "instruction_fun", "expression", "literal", "reftype"}
  <2>1. passed_on(r, v) = v[1]
    BY <1>6 DEF passed_on
  <2>2. Grammar[r] \in
          {rule("parse", << "top_level" >>), rule("instruction", << "const_definition" >>),
           rule("instruction", << "function" >>), rule("statement", << "expr" >>),
           rule("expr", << "const_value" >>), rule("reftype", << "TYPE" >>)}
    <3>1. r \in {"parse", "instruction_const"}
            => Grammar[r] \in {rule("parse", << "top_level" >>), rule("instruction", << "const_definition" >>)}
      BY GrammarRules
    <3>2. r \in {"instruction_fun", "expression"}
            => Grammar[r] \in {rule("instruction", << "function" >>), rule("statement", << "expr" >>)}
      BY GrammarRules
    <3>3. r \in {"literal", "reftype"}
            => Grammar[r] \in {rule("expr", << "const_value" >>), rule("reftype", << "TYPE" >>)}
      BY GrammarRules
    <3>. QED
      BY <1>6, <3>1, <3>2, <3>3
  <2>6. DOMAIN Grammar[r].rhs = {1}
        /\ << Grammar[r].rhs[1], Grammar[r].lhs >> \in
             {<< "top_level", "parse" >>, << "const_definition", "instruction" >>,
              << "function", "instruction" >>, << "expr", "statement" >>, << "const_value", "expr" >>,
              << "TYPE", "reftype" >>}
    BY <2>2 DEF rule
  <2>3. \A kinds, larger : kinds \subseteq larger => Of(ns, kinds) \subseteq Of(ns, larger)
    BY DEF Of
  <2>4. Literal \subseteq Expression /\ Expression \subseteq Statement
    BY DEF Expression, Statement
  <2>5. Of(ns, Literal) \subseteq Of(ns, Expression) /\ Of(ns, Expression) \subseteq Of(ns, Statement)
    BY <2>3, <2>4
  <2>. QED
    BY <2>1, <2>6, <2>5 DEF Fits, Makes, NodeSymbol
<1>7. CASE r = "accept"
  <2>1. Grammar[r].lhs = "accept"
    BY <1>7, GrammarRules DEF rule
  <2>. QED
    BY <2>1 DEF Fits, NodeSymbol
<1>8. r \in {"accept", "parse", "top_level", "top_level_more", "instruction_const", "instruction_fun",
             "block", "block_empty", "def_args", "def_args_more", "call_args", "call_args_more",
             "statements", "statements_more", "expression", "literal", "parentheses", "reftype"}
  BY DEF Rule, Grammar, Alternative, NodeRule
<1>. QED
  BY <1>1, <1>2, <1>3, <1>4, <1>5, <1>6, <1>7, <1>8

-------------------------------------------------------------------------------
(***************************************************************************)
(* Tokens and bison's states.  An item with its dot behind d symbols is    *)
(* only ever in a state above d entries with these symbols.                *)
(***************************************************************************)

Terminal == {"KEYWORD_VAR", "KEYWORD_FUN", "KEYWORD_RET", "KEYWORD_CONST", "KEYWORD_IF",
             "KEYWORD_ELSE", "BOOL", "TYPE", "PLUS", "MINUS", "STAR", "SLASH", "EQUALS", "COMMA",
             "OPEN_PAR", "CLOSE_PAR", "OPEN_CUR", "CLOSE_CUR", "EQUALS_EQUALS", "NOT_EQUALS",
             "GREATER_THAN", "LESS_THAN", "GREATER_THAN_OR_EQUALS", "LESS_THAN_OR_EQUALS", "AND",
             "OR", "EXCLAMATION", "INTEGER", "UINTEGER", "FLOAT", "IDENTIFIER"}

LEMMA LexemeIsTerminal ==
    ASSUME NEW s, lexeme(s) \notin {"comment", "blank", "newline", "none"}
    PROVE  lexeme(s) \in Terminal
<1>1. \A w \in DOMAIN Keyword : Keyword[w] \in Terminal
  BY DEF Keyword, Terminal
<1>2. symbol(s) # "none" => symbol(s) \in Terminal
  BY DEF symbol, Terminal
<1>3. \/ Len(s) = 1 /\ s[1] \in DOMAIN Keyword /\ lexeme(s) = Keyword[s[1]]
      \/ symbol(s) # "none" /\ lexeme(s) = symbol(s)
      \/ lexeme(s) \in {"INTEGER", "UINTEGER", "FLOAT", "IDENTIFIER"}
  <2>1. CASE Len(s) = 1 /\ s[1] \in DOMAIN Keyword
    BY <2>1 DEF lexeme
  <2>2. CASE ~ (Len(s) = 1 /\ s[1] \in DOMAIN Keyword) /\ symbol(s) # "none"
    BY <2>2 DEF lexeme
  <2>3. CASE ~ (Len(s) = 1 /\ s[1] \in DOMAIN Keyword) /\ symbol(s) = "none"
    BY <2>3 DEF lexeme
  <2>. QED
    BY <2>1, <2>2, <2>3
<1>4. {"INTEGER", "UINTEGER", "FLOAT", "IDENTIFIER"} \subseteq Terminal
  BY DEF Terminal
<1>. QED
  BY <1>1, <1>2, <1>3, <1>4

LEMMA TypeKeywords ==
    ASSUME NEW s, lexeme(s) = "TYPE"
    PROVE  type_named[s[1]] \in RefType
<1>1. symbol(s) # "TYPE"
  BY DEF symbol
<1>2. s[1] \in DOMAIN Keyword /\ Keyword[s[1]] = "TYPE"
  BY <1>1 DEF lexeme
<1>. QED
  BY <1>2 DEF Keyword, type_named, RefType, SizedInteger, INT, INT8, INT16, INT32, INT64, UINT,
              UINT8, UINT16, UINT32, UINT64, FLOAT16, FLOAT32, FLOAT64, BOOL, UNDEF

LEMMA NamesAreNames == ASSUME NEW s PROVE name_of(s) \in Name
  BY SomeName DEF name_of

Agrees(s, k) ==
    \A i \in s[k].kernel :
        /\ i.rule \in Rule
        /\ i.dot \in 0 .. Len(Grammar[i.rule].rhs)
        /\ i.dot < k
        /\ \A j \in 1 .. i.dot : s[k - i.dot + j].symbol = Grammar[i.rule].rhs[j]

\* The rules, one by one: where the two outermost symbols and the end of the file can be expected.
LEMMA RuleFacts ==
    ASSUME NEW r \in Rule
    PROVE  /\ Grammar[r].lhs \in NodeSymbol \cup ListSymbol \cup {"accept", "reftype"}
           /\ Grammar[r].lhs \in {"accept", "parse"} => r = Grammar[r].lhs
           /\ Grammar[r].rhs[1] \in {"accept", "parse", "EOF"} => r = "accept" /\ Grammar[r].rhs[1] = "parse"
           /\ \A j \in 2 .. Len(Grammar[r].rhs) :
                Grammar[r].rhs[j] \in {"accept", "parse", "EOF"} => r = "accept" /\ Grammar[r].rhs[j] = "EOF" /\ j = 2
           /\ Len(Grammar[r].rhs) \in Nat /\ DOMAIN Grammar[r].rhs = 1 .. Len(Grammar[r].rhs)
<1>1. CASE r \in BinaryToken
  <2>1. Grammar[r] = rule("expr", << "expr", r, "expr" >>) /\ r \notin {"accept", "parse", "EOF"}
    BY <1>1, GrammarRules DEF BinaryToken
  <2>. QED
    BY <2>1 DEF rule, NodeSymbol, ListSymbol
<1>2. CASE r \in LiteralToken
  <2>1. Grammar[r] = rule("const_value", << r >>) /\ r \notin {"accept", "parse", "EOF"}
    BY <1>2, GrammarRules DEF BinaryToken, LiteralToken
  <2>. QED
    BY <2>1 DEF rule, NodeSymbol, ListSymbol
<1>3. CASE r = "accept"
  <2>1. Grammar[r] = rule("accept", << "parse", "EOF" >>)
    BY <1>3, GrammarRules
  <2>. QED
    BY <1>3, <2>1 DEF rule, NodeSymbol, ListSymbol
<1>4. CASE r = "parse"
  <2>1. Grammar[r] = rule("parse", << "top_level" >>)
    BY <1>4, GrammarRules
  <2>. QED
    BY <1>4, <2>1 DEF rule, NodeSymbol, ListSymbol
<1>5. CASE r = "top_level"
  <2>1. Grammar[r] = rule("top_level", << "instruction" >>)
    BY <1>5, GrammarRules
  <2>. QED
    BY <1>5, <2>1 DEF rule, NodeSymbol, ListSymbol
<1>6. CASE r = "top_level_more"
  <2>1. Grammar[r] = rule("top_level", << "top_level", "instruction" >>)
    BY <1>6, GrammarRules
  <2>. QED
    BY <1>6, <2>1 DEF rule, NodeSymbol, ListSymbol
<1>7. CASE r = "instruction_const"
  <2>1. Grammar[r] = rule("instruction", << "const_definition" >>)
    BY <1>7, GrammarRules
  <2>. QED
    BY <1>7, <2>1 DEF rule, NodeSymbol, ListSymbol
<1>8. CASE r = "instruction_fun"
  <2>1. Grammar[r] = rule("instruction", << "function" >>)
    BY <1>8, GrammarRules
  <2>. QED
    BY <1>8, <2>1 DEF rule, NodeSymbol, ListSymbol
<1>9. CASE r = "const_definition"
  <2>1. Grammar[r] = rule("const_definition", << "KEYWORD_CONST", "IDENTIFIER", "EQUALS", "const_value" >>)
    BY <1>9, GrammarRules
  <2>. QED
    BY <1>9, <2>1 DEF rule, NodeSymbol, ListSymbol
<1>10. CASE r = "function"
  <2>1. Grammar[r] = rule("function", << "KEYWORD_FUN", "IDENTIFIER", "OPEN_PAR", "CLOSE_PAR", "block" >>)
    BY <1>10, GrammarRules
  <2>. QED
    BY <1>10, <2>1 DEF rule, NodeSymbol, ListSymbol
<1>11. CASE r = "function_args"
  <2>1. Grammar[r] = rule("function", << "KEYWORD_FUN", "IDENTIFIER", "OPEN_PAR", "def_args", "CLOSE_PAR", "block" >>)
    BY <1>11, GrammarRules
  <2>. QED
    BY <1>11, <2>1 DEF rule, NodeSymbol, ListSymbol
<1>12. CASE r = "function_type"
  <2>1. Grammar[r] = rule("function", << "KEYWORD_FUN", "IDENTIFIER", "OPEN_PAR", "CLOSE_PAR", "reftype", "block" >>)
    BY <1>12, GrammarRules
  <2>. QED
    BY <1>12, <2>1 DEF rule, NodeSymbol, ListSymbol
<1>13. CASE r = "function_args_type"
  <2>1. Grammar[r] = rule("function", << "KEYWORD_FUN", "IDENTIFIER", "OPEN_PAR", "def_args", "CLOSE_PAR", "reftype", "block" >>)
    BY <1>13, GrammarRules
  <2>. QED
    BY <1>13, <2>1 DEF rule, NodeSymbol, ListSymbol
<1>14. CASE r = "block"
  <2>1. Grammar[r] = rule("block", << "OPEN_CUR", "statements", "CLOSE_CUR" >>)
    BY <1>14, GrammarRules
  <2>. QED
    BY <1>14, <2>1 DEF rule, NodeSymbol, ListSymbol
<1>15. CASE r = "block_empty"
  <2>1. Grammar[r] = rule("block", << "OPEN_CUR", "CLOSE_CUR" >>)
    BY <1>15, GrammarRules
  <2>. QED
    BY <1>15, <2>1 DEF rule, NodeSymbol, ListSymbol
<1>16. CASE r = "arg"
  <2>1. Grammar[r] = rule("arg", << "IDENTIFIER", "reftype" >>)
    BY <1>16, GrammarRules
  <2>. QED
    BY <1>16, <2>1 DEF rule, NodeSymbol, ListSymbol
<1>17. CASE r = "def_args"
  <2>1. Grammar[r] = rule("def_args", << "arg" >>)
    BY <1>17, GrammarRules
  <2>. QED
    BY <1>17, <2>1 DEF rule, NodeSymbol, ListSymbol
<1>18. CASE r = "def_args_more"
  <2>1. Grammar[r] = rule("def_args", << "def_args", "COMMA", "arg" >>)
    BY <1>18, GrammarRules
  <2>. QED
    BY <1>18, <2>1 DEF rule, NodeSymbol, ListSymbol
<1>19. CASE r = "call_args"
  <2>1. Grammar[r] = rule("call_args", << "expr" >>)
    BY <1>19, GrammarRules
  <2>. QED
    BY <1>19, <2>1 DEF rule, NodeSymbol, ListSymbol
<1>20. CASE r = "call_args_more"
  <2>1. Grammar[r] = rule("call_args", << "call_args", "COMMA", "expr" >>)
    BY <1>20, GrammarRules
  <2>. QED
    BY <1>20, <2>1 DEF rule, NodeSymbol, ListSymbol
<1>21. CASE r = "statements"
  <2>1. Grammar[r] = rule("statements", << "statement" >>)
    BY <1>21, GrammarRules
  <2>. QED
    BY <1>21, <2>1 DEF rule, NodeSymbol, ListSymbol
<1>22. CASE r = "statements_more"
  <2>1. Grammar[r] = rule("statements", << "statements", "statement" >>)
    BY <1>22, GrammarRules
  <2>. QED
    BY <1>22, <2>1 DEF rule, NodeSymbol, ListSymbol
<1>23. CASE r = "var"
  <2>1. Grammar[r] = rule("statement", << "KEYWORD_VAR", "IDENTIFIER", "reftype" >>)
    BY <1>23, GrammarRules
  <2>. QED
    BY <1>23, <2>1 DEF rule, NodeSymbol, ListSymbol
<1>24. CASE r = "var_value"
  <2>1. Grammar[r] = rule("statement", << "KEYWORD_VAR", "IDENTIFIER", "reftype", "EQUALS", "expr" >>)
    BY <1>24, GrammarRules
  <2>. QED
    BY <1>24, <2>1 DEF rule, NodeSymbol, ListSymbol
<1>25. CASE r = "assignment"
  <2>1. Grammar[r] = rule("statement", << "IDENTIFIER", "EQUALS", "expr" >>)
    BY <1>25, GrammarRules
  <2>. QED
    BY <1>25, <2>1 DEF rule, NodeSymbol, ListSymbol
<1>26. CASE r = "expression"
  <2>1. Grammar[r] = rule("statement", << "expr" >>)
    BY <1>26, GrammarRules
  <2>. QED
    BY <1>26, <2>1 DEF rule, NodeSymbol, ListSymbol
<1>27. CASE r = "ret_value"
  <2>1. Grammar[r] = rule("statement", << "KEYWORD_RET", "expr" >>)
    BY <1>27, GrammarRules
  <2>. QED
    BY <1>27, <2>1 DEF rule, NodeSymbol, ListSymbol
<1>28. CASE r = "ret"
  <2>1. Grammar[r] = rule("statement", << "KEYWORD_RET" >>)
    BY <1>28, GrammarRules
  <2>. QED
    BY <1>28, <2>1 DEF rule, NodeSymbol, ListSymbol
<1>29. CASE r = "if"
  <2>1. Grammar[r] = rule("statement", << "KEYWORD_IF", "expr", "block" >>)
    BY <1>29, GrammarRules
  <2>. QED
    BY <1>29, <2>1 DEF rule, NodeSymbol, ListSymbol
<1>30. CASE r = "if_else"
  <2>1. Grammar[r] = rule("statement", << "KEYWORD_IF", "expr", "block", "KEYWORD_ELSE", "block" >>)
    BY <1>30, GrammarRules
  <2>. QED
    BY <1>30, <2>1 DEF rule, NodeSymbol, ListSymbol
<1>31. CASE r = "literal"
  <2>1. Grammar[r] = rule("expr", << "const_value" >>)
    BY <1>31, GrammarRules
  <2>. QED
    BY <1>31, <2>1 DEF rule, NodeSymbol, ListSymbol
<1>32. CASE r = "lookup"
  <2>1. Grammar[r] = rule("expr", << "IDENTIFIER" >>)
    BY <1>32, GrammarRules
  <2>. QED
    BY <1>32, <2>1 DEF rule, NodeSymbol, ListSymbol
<1>33. CASE r = "call"
  <2>1. Grammar[r] = rule("expr", << "IDENTIFIER", "OPEN_PAR", "CLOSE_PAR" >>)
    BY <1>33, GrammarRules
  <2>. QED
    BY <1>33, <2>1 DEF rule, NodeSymbol, ListSymbol
<1>34. CASE r = "call_with_args"
  <2>1. Grammar[r] = rule("expr", << "IDENTIFIER", "OPEN_PAR", "call_args", "CLOSE_PAR" >>)
    BY <1>34, GrammarRules
  <2>. QED
    BY <1>34, <2>1 DEF rule, NodeSymbol, ListSymbol
<1>35. CASE r = "NOT"
  <2>1. Grammar[r] = rule("expr", << "EXCLAMATION", "expr" >>)
    BY <1>35, GrammarRules
  <2>. QED
    BY <1>35, <2>1 DEF rule, NodeSymbol, ListSymbol
<1>36. CASE r = "NEGATE"
  <2>1. Grammar[r] = rule("expr", << "MINUS", "expr" >>)
    BY <1>36, GrammarRules
  <2>. QED
    BY <1>36, <2>1 DEF rule, NodeSymbol, ListSymbol
<1>37. CASE r = "parentheses"
  <2>1. Grammar[r] = rule("expr", << "OPEN_PAR", "expr", "CLOSE_PAR" >>)
    BY <1>37, GrammarRules
  <2>. QED
    BY <1>37, <2>1 DEF rule, NodeSymbol, ListSymbol
<1>38. CASE r = "reftype"
  <2>1. Grammar[r] = rule("reftype", << "TYPE" >>)
    BY <1>38, GrammarRules
  <2>. QED
    BY <1>38, <2>1 DEF rule, NodeSymbol, ListSymbol
<1>39. r \in BinaryToken \/ r \in LiteralToken \/ r \in DOMAIN Alternative
  BY DEF Rule, Grammar
<1>40. DOMAIN Alternative = {"accept", "parse", "top_level", "top_level_more", "instruction_const", "instruction_fun",
                              "const_definition", "function", "function_args", "function_type", "function_args_type", "block",
                              "block_empty", "arg", "def_args", "def_args_more", "call_args", "call_args_more",
                              "statements", "statements_more", "var", "var_value", "assignment", "expression",
                              "ret_value", "ret", "if", "if_else", "literal", "lookup",
                              "call", "call_with_args", "NOT", "NEGATE", "parentheses", "reftype"}
  BY DEF Alternative
<1>. QED
  BY <1>1, <1>2, <1>3, <1>4, <1>5, <1>6, <1>7, <1>8, <1>9, <1>10, <1>11, <1>12, <1>13, <1>14, <1>15, <1>16, <1>17, <1>18, <1>19, <1>20, <1>21, <1>22, <1>23, <1>24, <1>25, <1>26, <1>27, <1>28, <1>29, <1>30, <1>31, <1>32, <1>33, <1>34, <1>35, <1>36, <1>37, <1>38, <1>39, <1>40

LEMMA OutermostRules ==
    ASSUME NEW r \in Rule
    PROVE  /\ Grammar[r].lhs \in NodeSymbol \cup ListSymbol \cup {"accept", "reftype"}
           /\ Grammar[r].lhs \in {"accept", "parse"} => r = Grammar[r].lhs
           /\ Grammar[r].rhs[1] \in {"accept", "parse", "EOF"} => r = "accept" /\ Grammar[r].rhs[1] = "parse"
           /\ \A j \in 2 .. Len(Grammar[r].rhs) :
                Grammar[r].rhs[j] \in {"accept", "parse", "EOF"} => r = "accept" /\ Grammar[r].rhs[j] = "EOF" /\ j = 2
BY RuleFacts

LEMMA RulesHaveSymbols ==
    ASSUME NEW r \in Rule
    PROVE  Len(Grammar[r].rhs) \in Nat /\ DOMAIN Grammar[r].rhs = 1 .. Len(Grammar[r].rhs)
BY RuleFacts

\* A state behind X comes from items that expected X.
LEMMA GotoMovesDots ==
    ASSUME NEW kernel, NEW X, NEW i \in goto(kernel, X)
    PROVE  \E j : /\ j \in kernel \/ \E r \in Rule : j = item(r, 0)
                  /\ ~ Complete(j)
                  /\ Expected(j) = X
                  /\ i = item(j.rule, j.dot + 1)
<1>1. PICK j \in closure(kernel) : ~ Complete(j) /\ Expected(j) = X /\ i = item(j.rule, j.dot + 1)
  BY DEF goto
<1>2. j \in kernel \/ \E r \in Rule : j = item(r, 0)
  BY DEF closure, Begins
<1>. QED
  BY <1>1, <1>2

LEMMA SameDistance ==
    ASSUME NEW n \in Nat, NEW m \in Nat, NEW d \in Nat, NEW e \in Nat, NEW j \in Nat, n = m + 1, d = e + 1
    PROVE  n - d + j = m - e + j
  OBVIOUS

LEMMA BelowTheDot ==
    ASSUME NEW n \in Nat, NEW k \in 1 .. n, NEW d \in Nat, NEW j \in 1 .. d, d < k
    PROVE  k - d + j \in 1 .. n
  OBVIOUS

LEMMA PushAgrees ==
    ASSUME NEW S, NEW s \in Seq(S), s # << >>, \A k \in 1 .. Len(s) : Agrees(s, k),
           NEW X, NEW value, NEW line
    PROVE  LET all == Append(s, Entry(X, goto(s[Len(s)].kernel, X), value, line))
           IN  \A k \in 1 .. Len(all) : Agrees(all, k)
<1>. DEFINE top == Entry(X, goto(s[Len(s)].kernel, X), value, line)
            all == Append(s, top)
<1>1. Len(all) = Len(s) + 1 /\ Len(s) \in Nat \ {0} /\ all[Len(s) + 1] = top
      /\ \A k \in 1 .. Len(s) : all[k] = s[k]
  OBVIOUS
<1>4. top.symbol = X /\ top.kernel = goto(s[Len(s)].kernel, X)
  BY DEF Entry
<1>. HIDE DEF top, all
<1>2. ASSUME NEW k \in 1 .. Len(s)
      PROVE  Agrees(all, k)
  <2>1. ASSUME NEW i \in s[k].kernel, NEW j \in 1 .. i.dot
        PROVE  all[k - i.dot + j].symbol = Grammar[i.rule].rhs[j]
    <3>1. i.dot < k /\ i.dot \in Nat /\ s[k - i.dot + j].symbol = Grammar[i.rule].rhs[j]
      BY <2>1, RulesHaveSymbols DEF Agrees
    <3>2. k - i.dot + j \in 1 .. Len(s)
      BY <3>1, <1>1
    <3>. QED
      BY <3>1, <3>2, <1>1
  <2>. QED
    BY <1>1, <1>2, <2>1 DEF Agrees
<1>3. ASSUME NEW n, n = Len(s) + 1
      PROVE  Agrees(all, n)
  <2>6. all[n].kernel = goto(s[Len(s)].kernel, X)
    BY <1>1, <1>3, <1>4
  <2>. SUFFICES ASSUME NEW i \in all[n].kernel
       PROVE  /\ i.rule \in Rule
              /\ i.dot \in 0 .. Len(Grammar[i.rule].rhs)
              /\ i.dot < n
              /\ \A j \in 1 .. i.dot : all[n - i.dot + j].symbol = Grammar[i.rule].rhs[j]
    BY DEF Agrees
  <2>1. PICK q : /\ q \in s[Len(s)].kernel \/ \E r \in Rule : q = item(r, 0)
                 /\ ~ Complete(q)
                 /\ Expected(q) = X
                 /\ i = item(q.rule, q.dot + 1)
    BY <2>6, GotoMovesDots
  <2>2. /\ q.rule \in Rule
        /\ q.dot \in 0 .. Len(Grammar[q.rule].rhs)
        /\ q.dot < Len(s)
        /\ \A j \in 1 .. q.dot : s[Len(s) - q.dot + j].symbol = Grammar[q.rule].rhs[j]
    <3>1. CASE q \in s[Len(s)].kernel
      BY <3>1, <1>1 DEF Agrees
    <3>2. CASE \E r \in Rule : q = item(r, 0)
      BY <3>2, <1>1, RulesHaveSymbols DEF item
    <3>. QED
      BY <2>1, <3>1, <3>2
  <2>5. q.dot \in Nat
    BY <2>2, RulesHaveSymbols
  <2>3. i.rule = q.rule /\ i.dot = q.dot + 1 /\ i.dot \in 0 .. Len(Grammar[i.rule].rhs)
    BY <2>1, <2>2, RulesHaveSymbols DEF item, Complete
  <2>9. n \in Nat /\ Len(s) \in Nat /\ q.dot \in Nat /\ i.dot \in Nat /\ n = Len(s) + 1 /\ i.dot = q.dot + 1
    BY <1>1, <1>3, <2>3, <2>5
  <2>4. ASSUME NEW j \in 1 .. i.dot
        PROVE  all[n - i.dot + j].symbol = Grammar[i.rule].rhs[j]
    <3>1. CASE j = i.dot
      <4>1. Grammar[i.rule].rhs[j] = X
        BY <3>1, <2>1, <2>3, <2>5 DEF Expected
      <4>2. n - i.dot + j = Len(s) + 1
        BY <3>1, <2>9
      <4>. QED
        BY <4>1, <4>2, <1>1, <1>4
    <3>2. CASE j # i.dot
      <4>3. j \in 1 .. q.dot + 1 /\ j # q.dot + 1
        BY <3>2, <2>3, <2>4
      <4>4. j \in 1 .. q.dot /\ j \in Nat
        BY <4>3, <2>5
      <4>5. n - i.dot + j = Len(s) - q.dot + j
        BY <4>4, <2>9, SameDistance
      <4>1. j \in 1 .. q.dot /\ n - i.dot + j = Len(s) - q.dot + j
        BY <4>4, <4>5
      <4>2. Len(s) - q.dot + j \in 1 .. Len(s)
        BY <4>1, <2>2, <2>5, <1>1, <1>3
      <4>. QED
        BY <4>1, <4>2, <2>2, <2>3, <1>1
    <3>. QED
      BY <3>1, <3>2
  <2>8. i.dot < n
    BY <1>3, <2>2, <2>3, <2>5, <1>1
  <2>. QED
    BY <2>2, <2>3, <2>4, <2>8
<1>5. \A k \in 1 .. Len(all) : k \in 1 .. Len(s) \/ k = Len(s) + 1
  BY <1>1
<1>. QED
  BY <1>5, <1>2, <1>3 DEF top, all

-------------------------------------------------------------------------------
(***************************************************************************)
(* Values and nodes are one behind the other: what the value of a symbol   *)
(* has below it are the nodes made since the symbol before it.             *)
(***************************************************************************)

\* The subtrees in the value of X are the nodes behind a up to b.
Carries(first, X, v, a, b) ==
    /\ X \in NodeSymbol => first[v] = a + 1 /\ v = b
    /\ X \in ListSymbol => Spans(first, v, a, b)
    /\ X \notin NodeSymbol \cup ListSymbol => a = b

LEMMA SpansNone ==
    ASSUME NEW first, NEW a
    PROVE  Spans(first, << >>, a, a)
  BY DEF Spans

LEMMA SpansOne ==
    ASSUME NEW first, NEW x, NEW a, first[x] = a + 1
    PROVE  Spans(first, << x >>, a, x)
  BY DEF Spans

LEMMA SpansAppend ==
    ASSUME NEW first, NEW S, NEW s \in Seq(S), NEW x, NEW a, NEW b, Spans(first, s, a, b), first[x] = b + 1
    PROVE  Spans(first, Append(s, x), a, x)
<1>. DEFINE t == Append(s, x)
<1>1. Len(t) = Len(s) + 1 /\ Len(s) \in Nat /\ t[Len(s) + 1] = x /\ \A i \in 1 .. Len(s) : t[i] = s[i]
  BY AppendFacts
<1>2. t # << >>
  BY <1>1
<1>. HIDE DEF t
<1>3. first[t[1]] = a + 1
  <2>1. CASE s = << >>
    BY <1>1, <2>1 DEF Spans
  <2>2. CASE s # << >>
    BY <1>1, <2>2 DEF Spans
  <2>. QED
    BY <2>1, <2>2
<1>4. ASSUME NEW i \in 1 .. Len(t) - 1
      PROVE  first[t[i + 1]] = t[i] + 1
  <2>1. CASE i = Len(s)
    <3>1. s # << >>
      BY <1>4, <2>1, <1>1
    <3>2. s[Len(s)] = b
      BY <3>1 DEF Spans
    <3>. QED
      BY <1>1, <1>4, <2>1, <3>2
  <2>2. CASE i # Len(s)
    <3>1. i \in 1 .. Len(s) - 1 /\ i + 1 \in 1 .. Len(s) /\ i \in 1 .. Len(s)
      BY <1>1, <1>4, <2>2
    <3>. QED
      BY <1>1, <3>1 DEF Spans
  <2>. QED
    BY <2>1, <2>2
<1>. QED
  BY <1>1, <1>2, <1>3, <1>4 DEF Spans, t

LEMMA SpansJoined ==
    ASSUME NEW first, NEW S, NEW s \in Seq(S), NEW t \in Seq(S), NEW a, NEW b, NEW c,
           Spans(first, s, a, b), Spans(first, t, b, c)
    PROVE  Spans(first, s \o t, a, c)
<1>1. CASE s = << >>
  BY <1>1 DEF Spans
<1>2. CASE t = << >>
  BY <1>2 DEF Spans
<1>3. CASE s # << >> /\ t # << >>
  <2>. DEFINE u == s \o t
              m == Len(s)
  <2>1. /\ m \in Nat \ {0} /\ Len(t) \in Nat \ {0} /\ Len(u) = m + Len(t)
        /\ \A i \in 1 .. m : u[i] = s[i]
        /\ \A i \in 1 .. Len(t) : u[m + i] = t[i]
    BY <1>3
  <2>2. u # << >>
    BY <2>1
  <2>. HIDE DEF u
  <2>3. first[u[1]] = a + 1
    BY <1>3, <2>1 DEF Spans
  <2>4. u[Len(u)] = c
    BY <1>3, <2>1 DEF Spans
  <2>5. ASSUME NEW i \in 1 .. Len(u) - 1
        PROVE  first[u[i + 1]] = u[i] + 1
    <3>1. CASE i < m
      <4>1. i \in 1 .. m - 1 /\ i + 1 \in 1 .. m /\ i \in 1 .. m
        BY <2>1, <2>5, <3>1
      <4>. QED
        BY <4>1, <2>1 DEF Spans
    <3>2. CASE i = m
      BY <3>2, <2>1, <1>3 DEF Spans
    <3>3. CASE i > m
      <4>. DEFINE j == i - m
      <4>1. j \in 1 .. Len(t) - 1 /\ j \in 1 .. Len(t) /\ j + 1 \in 1 .. Len(t) /\ i = m + j /\ i + 1 = m + (j + 1)
        BY <2>1, <2>5, <3>3
      <4>. HIDE DEF j
      <4>2. u[i] = t[j] /\ u[i + 1] = t[j + 1]
        BY <4>1, <2>1
      <4>. QED
        BY <4>1, <4>2 DEF Spans
    <3>. QED
      BY <3>1, <3>2, <3>3, <2>1, <2>5
  <2>. QED
    BY <2>2, <2>3, <2>4, <2>5 DEF Spans, u
<1>. QED
  BY <1>1, <1>2, <1>3

LEMMA FitsNumbers ==
    ASSUME NEW X, NEW v, NEW ns \in Seq(AstNode), Fits(X, v, ns)
    PROVE  (X \in NodeSymbol => v \in Nat) /\ (X \in ListSymbol => v \in Seq(Nat))
<1>1. \A kinds : Of(ns, kinds) \subseteq Nat
  BY DEF Of
<1>2. \A kinds : Seq(Of(ns, kinds)) \subseteq Seq(Nat)
  <2>. HIDE DEF Of
  <2>. QED
    BY <1>1, SeqGrows
<1>. QED
  BY <1>1, <1>2 DEF Fits, ListSymbol

LEMMA OperandsAlone ==
    ASSUME NEW node, NEW S, node.operands \in Seq(S), node.params = << >>, node.body = << >>, node.orelse = << >>
    PROVE  Children(node) = node.operands
  BY DEF Children

LEMMA FunctionChildren ==
    ASSUME NEW f, NEW args \in Seq(Nat), NEW type, NEW block \in Seq(Nat)
    PROVE  Children(function(f, args, type, block)) = args \o block
<1>1. Children(function(f, args, type, block)) = << >> \o args \o block \o << >>
  BY DEF Children, function
<1>. QED
  BY <1>1

LEMMA PairJoined == ASSUME NEW a, NEW b PROVE << a >> \o << b >> = << a, b >>
<1>. DEFINE s == << a >> \o << b >>
<1>1. << a >> \in Seq({a, b}) /\ << b >> \in Seq({a, b}) /\ Len(<< a >>) = 1 /\ Len(<< b >>) = 1
  OBVIOUS
<1>2. s \in Seq({a, b}) /\ Len(s) = 2 /\ s[1] = a /\ s[2] = b
  BY <1>1
<1>. HIDE DEF s
<1>3. s = << s[1], s[2] >>
  BY <1>2
<1>. QED
  BY <1>2, <1>3 DEF s

LEMMA IfChildren ==
    ASSUME NEW condition, NEW then_block \in Seq(Nat), NEW else_block \in Seq(Nat)
    PROVE  Children(if_statement(condition, then_block, else_block)) = << condition >> \o then_block \o else_block
<1>. DEFINE node == if_statement(condition, then_block, else_block)
<1>1. node.operands = << condition >> /\ node.params = << >> /\ node.body = then_block /\ node.orelse = else_block
  BY DEF if_statement
<1>. HIDE DEF node
<1>2. << condition >> \o << >> = << condition >>
  OBVIOUS
<1>. QED
  BY <1>1, <1>2 DEF Children, node

\* The lists that grow from single nodes.
LEMMA SpansBehind ==
    ASSUME NEW first, NEW x \in Nat, NEW s \in Seq(Nat), NEW a, NEW b, first[x] = a + 1, Spans(first, s, x, b)
    PROVE  Spans(first, << x >> \o s, a, b)
<1>1. << x >> \in Seq(Nat) /\ Spans(first, << x >>, a, x)
  BY SpansOne
<1>. QED
  BY <1>1, SpansJoined

\* The children of the node an action makes are behind each other.
LEMMA ActionsMakeTiledNodes ==
    ASSUME NEW ns \in Seq(AstNode), NEW v, NEW r \in NodeRule, NEW first, NEW c,
           \A j \in DOMAIN Grammar[r].rhs :
             Fits(Grammar[r].rhs[j], v[j], ns) /\ Carries(first, Grammar[r].rhs[j], v[j], c[j - 1], c[j])
    PROVE  Spans(first, Children(node_of(r, v)), c[0], c[Len(Grammar[r].rhs)])
<1>. DEFINE m == Len(Grammar[r].rhs)
<1>0. \A j \in DOMAIN Grammar[r].rhs :
        /\ Grammar[r].rhs[j] \in NodeSymbol => first[v[j]] = c[j - 1] + 1 /\ v[j] = c[j] /\ v[j] \in Nat
        /\ Grammar[r].rhs[j] \in ListSymbol => Spans(first, v[j], c[j - 1], c[j]) /\ v[j] \in Seq(Nat)
        /\ Grammar[r].rhs[j] \notin NodeSymbol \cup ListSymbol => c[j - 1] = c[j]
  BY FitsNumbers DEF Carries
<1>1. CASE r = "const_definition"
  <2>1. Grammar[r] = rule("const_definition", << "KEYWORD_CONST", "IDENTIFIER", "EQUALS", "const_value" >>)
    BY <1>1, GrammarRules
  <2>2. /\ m = 4 /\ DOMAIN Grammar[r].rhs = 1 .. 4
        /\ Grammar[r].rhs[1] = "KEYWORD_CONST" /\ Grammar[r].rhs[2] = "IDENTIFIER" /\ Grammar[r].rhs[3] = "EQUALS" /\ Grammar[r].rhs[4] = "const_value"
    BY <2>1 DEF rule
  <2>3. /\ c[0] = c[1]
        /\ c[1] = c[2]
        /\ c[2] = c[3]
        /\ first[v[4]] = c[3] + 1 /\ v[4] = c[4]
        /\ v[4] \in Nat
    BY <1>0, <1>1, <2>2, SymbolKinds
  <2>4. v[4] \in Nat
    BY <2>3
  <2>5. node_of(r, v) = const_definition(v[2], v[4])
    BY <1>1 DEF node_of, BinaryToken
  <2>6. /\ node_of(r, v).operands = << v[4] >>
        /\ node_of(r, v).params = << >> /\ node_of(r, v).body = << >> /\ node_of(r, v).orelse = << >>
    BY <2>5 DEF const_definition, declaration
  <2>7. << v[4] >> \in Seq(Nat)
    BY <2>4
  <2>8. Children(node_of(r, v)) = << v[4] >>
    BY <2>6, <2>7, OperandsAlone
  <2>. QED
    BY <2>2, <2>3, <2>8, SpansOne
<1>2. CASE r = "function"
  <2>1. Grammar[r] = rule("function", << "KEYWORD_FUN", "IDENTIFIER", "OPEN_PAR", "CLOSE_PAR", "block" >>)
    BY <1>2, GrammarRules
  <2>2. /\ m = 5 /\ DOMAIN Grammar[r].rhs = 1 .. 5
        /\ Grammar[r].rhs[1] = "KEYWORD_FUN" /\ Grammar[r].rhs[2] = "IDENTIFIER" /\ Grammar[r].rhs[3] = "OPEN_PAR" /\ Grammar[r].rhs[4] = "CLOSE_PAR" /\ Grammar[r].rhs[5] = "block"
    BY <2>1 DEF rule
  <2>3. /\ c[0] = c[1]
        /\ c[1] = c[2]
        /\ c[2] = c[3]
        /\ c[3] = c[4]
        /\ Spans(first, v[5], c[4], c[5])
        /\ v[5] \in Seq(Nat)
    BY <1>0, <1>2, <2>2, SymbolKinds
  <2>4. v[5] \in Seq(Nat)
    BY <2>3
  <2>5. node_of(r, v) = function(v[2], << >>, UNDEF, v[5])
    BY <1>2 DEF node_of, BinaryToken
  <2>6. << >> \in Seq(Nat) /\ << >> \o v[5] = v[5]
    BY <2>4
  <2>7. Children(function(v[2], << >>, UNDEF, v[5])) = << >> \o v[5]
    BY <2>4, <2>6, FunctionChildren
  <2>. QED
    BY <2>2, <2>3, <2>5, <2>6, <2>7
<1>3. CASE r = "function_args"
  <2>1. Grammar[r] = rule("function", << "KEYWORD_FUN", "IDENTIFIER", "OPEN_PAR", "def_args", "CLOSE_PAR", "block" >>)
    BY <1>3, GrammarRules
  <2>2. /\ m = 6 /\ DOMAIN Grammar[r].rhs = 1 .. 6
        /\ Grammar[r].rhs[1] = "KEYWORD_FUN" /\ Grammar[r].rhs[2] = "IDENTIFIER" /\ Grammar[r].rhs[3] = "OPEN_PAR" /\ Grammar[r].rhs[4] = "def_args" /\ Grammar[r].rhs[5] = "CLOSE_PAR" /\ Grammar[r].rhs[6] = "block"
    BY <2>1 DEF rule
  <2>3. /\ c[0] = c[1]
        /\ c[1] = c[2]
        /\ c[2] = c[3]
        /\ Spans(first, v[4], c[3], c[4])
        /\ c[4] = c[5]
        /\ Spans(first, v[6], c[5], c[6])
        /\ v[4] \in Seq(Nat)
        /\ v[6] \in Seq(Nat)
    <3>1. c[0] = c[1] /\ c[1] = c[2] /\ c[2] = c[3] /\ c[4] = c[5]
      BY <1>0, <1>3, <2>2, SymbolKinds
    <3>2. Spans(first, v[4], c[3], c[4]) /\ v[4] \in Seq(Nat)
      BY <1>0, <2>2, SymbolKinds
    <3>3. Spans(first, v[6], c[5], c[6]) /\ v[6] \in Seq(Nat)
      BY <1>0, <2>2, SymbolKinds
    <3>. QED
      BY <3>1, <3>2, <3>3
  <2>4. v[4] \in Seq(Nat) /\ v[6] \in Seq(Nat)
    BY <2>3
  <2>5. node_of(r, v) = function(v[2], v[4], UNDEF, v[6])
    BY <1>3 DEF node_of, BinaryToken
  <2>6. Children(function(v[2], v[4], UNDEF, v[6])) = v[4] \o v[6]
    BY <2>4, FunctionChildren
  <2>. QED
    BY <2>2, <2>3, <2>4, <2>5, <2>6, SpansJoined
<1>4. CASE r = "function_type"
  <2>1. Grammar[r] = rule("function", << "KEYWORD_FUN", "IDENTIFIER", "OPEN_PAR", "CLOSE_PAR", "reftype", "block" >>)
    BY <1>4, GrammarRules
  <2>2. /\ m = 6 /\ DOMAIN Grammar[r].rhs = 1 .. 6
        /\ Grammar[r].rhs[1] = "KEYWORD_FUN" /\ Grammar[r].rhs[2] = "IDENTIFIER" /\ Grammar[r].rhs[3] = "OPEN_PAR" /\ Grammar[r].rhs[4] = "CLOSE_PAR" /\ Grammar[r].rhs[5] = "reftype" /\ Grammar[r].rhs[6] = "block"
    BY <2>1 DEF rule
  <2>3. /\ c[0] = c[1]
        /\ c[1] = c[2]
        /\ c[2] = c[3]
        /\ c[3] = c[4]
        /\ c[4] = c[5]
        /\ Spans(first, v[6], c[5], c[6])
        /\ v[6] \in Seq(Nat)
    BY <1>0, <1>4, <2>2, SymbolKinds
  <2>4. v[6] \in Seq(Nat)
    BY <2>3
  <2>5. node_of(r, v) = function(v[2], << >>, v[5], v[6])
    BY <1>4 DEF node_of, BinaryToken
  <2>6. << >> \in Seq(Nat) /\ << >> \o v[6] = v[6]
    BY <2>4
  <2>7. Children(function(v[2], << >>, v[5], v[6])) = << >> \o v[6]
    BY <2>4, <2>6, FunctionChildren
  <2>. QED
    BY <2>2, <2>3, <2>5, <2>6, <2>7
<1>5. CASE r = "function_args_type"
  <2>1. Grammar[r] = rule("function", << "KEYWORD_FUN", "IDENTIFIER", "OPEN_PAR", "def_args", "CLOSE_PAR", "reftype", "block" >>)
    BY <1>5, GrammarRules
  <2>2. /\ m = 7 /\ DOMAIN Grammar[r].rhs = 1 .. 7
        /\ Grammar[r].rhs[1] = "KEYWORD_FUN" /\ Grammar[r].rhs[2] = "IDENTIFIER" /\ Grammar[r].rhs[3] = "OPEN_PAR" /\ Grammar[r].rhs[4] = "def_args" /\ Grammar[r].rhs[5] = "CLOSE_PAR" /\ Grammar[r].rhs[6] = "reftype" /\ Grammar[r].rhs[7] = "block"
    BY <2>1 DEF rule
  <2>3. /\ c[0] = c[1]
        /\ c[1] = c[2]
        /\ c[2] = c[3]
        /\ Spans(first, v[4], c[3], c[4])
        /\ c[4] = c[5]
        /\ c[5] = c[6]
        /\ Spans(first, v[7], c[6], c[7])
        /\ v[4] \in Seq(Nat)
        /\ v[7] \in Seq(Nat)
    <3>1. \A j \in {1, 2, 3, 5, 6} :
            j \in DOMAIN Grammar[r].rhs /\ Grammar[r].rhs[j] \notin NodeSymbol \cup ListSymbol
      BY <2>2, SymbolKinds
    <3>2. \A j \in {4, 7} : j \in DOMAIN Grammar[r].rhs /\ Grammar[r].rhs[j] \in ListSymbol
      BY <2>2, SymbolKinds
    <3>3. \A j \in {1, 2, 3, 5, 6} : c[j - 1] = c[j]
      BY Zenon, <1>0, <3>1
    <3>4. \A j \in {4, 7} : Spans(first, v[j], c[j - 1], c[j]) /\ v[j] \in Seq(Nat)
      BY Zenon, <1>0, <3>2
    <3>5. c[0] = c[1] /\ c[1] = c[2] /\ c[2] = c[3] /\ c[4] = c[5] /\ c[5] = c[6]
      BY <3>3
    <3>6. Spans(first, v[4], c[3], c[4]) /\ v[4] \in Seq(Nat)
      BY <3>4
    <3>7. Spans(first, v[7], c[6], c[7]) /\ v[7] \in Seq(Nat)
      BY <3>4
    <3>. QED
      BY <3>5, <3>6, <3>7
  <2>4. v[4] \in Seq(Nat) /\ v[7] \in Seq(Nat)
    BY <2>3
  <2>5. node_of(r, v) = function(v[2], v[4], v[6], v[7])
    BY <1>5 DEF node_of, BinaryToken
  <2>6. Children(function(v[2], v[4], v[6], v[7])) = v[4] \o v[7]
    BY <2>4, FunctionChildren
  <2>. QED
    BY <2>2, <2>3, <2>4, <2>5, <2>6, SpansJoined
<1>6. CASE r = "arg"
  <2>1. Grammar[r] = rule("arg", << "IDENTIFIER", "reftype" >>)
    BY <1>6, GrammarRules
  <2>2. /\ m = 2 /\ DOMAIN Grammar[r].rhs = 1 .. 2
        /\ Grammar[r].rhs[1] = "IDENTIFIER" /\ Grammar[r].rhs[2] = "reftype"
    BY <2>1 DEF rule
  <2>3. /\ c[0] = c[1]
        /\ c[1] = c[2]
    BY <1>0, <1>6, <2>2, SymbolKinds
  <2>5. node_of(r, v) = arg(v[1], v[2])
    BY <1>6 DEF node_of, BinaryToken
  <2>6. /\ node_of(r, v).operands = << >>
        /\ node_of(r, v).params = << >> /\ node_of(r, v).body = << >> /\ node_of(r, v).orelse = << >>
    BY <2>5 DEF arg, declaration
  <2>7. << >> \in Seq(Nat)
    OBVIOUS
  <2>8. Children(node_of(r, v)) = << >>
    BY <2>6, <2>7, OperandsAlone
  <2>. QED
    BY <2>2, <2>3, <2>8, SpansNone
<1>7. CASE r = "var"
  <2>1. Grammar[r] = rule("statement", << "KEYWORD_VAR", "IDENTIFIER", "reftype" >>)
    BY <1>7, GrammarRules
  <2>2. /\ m = 3 /\ DOMAIN Grammar[r].rhs = 1 .. 3
        /\ Grammar[r].rhs[1] = "KEYWORD_VAR" /\ Grammar[r].rhs[2] = "IDENTIFIER" /\ Grammar[r].rhs[3] = "reftype"
    BY <2>1 DEF rule
  <2>3. /\ c[0] = c[1]
        /\ c[1] = c[2]
        /\ c[2] = c[3]
    BY <1>0, <1>7, <2>2, SymbolKinds
  <2>5. node_of(r, v) = variable_declaration(v[2], v[3], << >>)
    BY <1>7 DEF node_of, BinaryToken
  <2>6. /\ node_of(r, v).operands = << >>
        /\ node_of(r, v).params = << >> /\ node_of(r, v).body = << >> /\ node_of(r, v).orelse = << >>
    BY <2>5 DEF variable_declaration, declaration
  <2>7. << >> \in Seq(Nat)
    OBVIOUS
  <2>8. Children(node_of(r, v)) = << >>
    BY <2>6, <2>7, OperandsAlone
  <2>. QED
    BY <2>2, <2>3, <2>8, SpansNone
<1>8. CASE r = "var_value"
  <2>1. Grammar[r] = rule("statement", << "KEYWORD_VAR", "IDENTIFIER", "reftype", "EQUALS", "expr" >>)
    BY <1>8, GrammarRules
  <2>2. /\ m = 5 /\ DOMAIN Grammar[r].rhs = 1 .. 5
        /\ Grammar[r].rhs[1] = "KEYWORD_VAR" /\ Grammar[r].rhs[2] = "IDENTIFIER" /\ Grammar[r].rhs[3] = "reftype" /\ Grammar[r].rhs[4] = "EQUALS" /\ Grammar[r].rhs[5] = "expr"
    BY <2>1 DEF rule
  <2>3. /\ c[0] = c[1]
        /\ c[1] = c[2]
        /\ c[2] = c[3]
        /\ c[3] = c[4]
        /\ first[v[5]] = c[4] + 1 /\ v[5] = c[5]
        /\ v[5] \in Nat
    BY <1>0, <1>8, <2>2, SymbolKinds
  <2>4. v[5] \in Nat
    BY <2>3
  <2>5. node_of(r, v) = variable_declaration(v[2], v[3], << v[5] >>)
    BY <1>8 DEF node_of, BinaryToken
  <2>6. /\ node_of(r, v).operands = << v[5] >>
        /\ node_of(r, v).params = << >> /\ node_of(r, v).body = << >> /\ node_of(r, v).orelse = << >>
    BY <2>5 DEF variable_declaration, declaration
  <2>7. << v[5] >> \in Seq(Nat)
    BY <2>4
  <2>8. Children(node_of(r, v)) = << v[5] >>
    BY <2>6, <2>7, OperandsAlone
  <2>. QED
    BY <2>2, <2>3, <2>8, SpansOne
<1>9. CASE r = "assignment"
  <2>1. Grammar[r] = rule("statement", << "IDENTIFIER", "EQUALS", "expr" >>)
    BY <1>9, GrammarRules
  <2>2. /\ m = 3 /\ DOMAIN Grammar[r].rhs = 1 .. 3
        /\ Grammar[r].rhs[1] = "IDENTIFIER" /\ Grammar[r].rhs[2] = "EQUALS" /\ Grammar[r].rhs[3] = "expr"
    BY <2>1 DEF rule
  <2>3. /\ c[0] = c[1]
        /\ c[1] = c[2]
        /\ first[v[3]] = c[2] + 1 /\ v[3] = c[3]
        /\ v[3] \in Nat
    BY <1>0, <1>9, <2>2, SymbolKinds
  <2>4. v[3] \in Nat
    BY <2>3
  <2>5. node_of(r, v) = variable_assignment(v[1], v[3])
    BY <1>9 DEF node_of, BinaryToken
  <2>6. /\ node_of(r, v).operands = << v[3] >>
        /\ node_of(r, v).params = << >> /\ node_of(r, v).body = << >> /\ node_of(r, v).orelse = << >>
    BY <2>5 DEF variable_assignment, expression
  <2>7. << v[3] >> \in Seq(Nat)
    BY <2>4
  <2>8. Children(node_of(r, v)) = << v[3] >>
    BY <2>6, <2>7, OperandsAlone
  <2>. QED
    BY <2>2, <2>3, <2>8, SpansOne
<1>10. CASE r = "ret_value"
  <2>1. Grammar[r] = rule("statement", << "KEYWORD_RET", "expr" >>)
    BY <1>10, GrammarRules
  <2>2. /\ m = 2 /\ DOMAIN Grammar[r].rhs = 1 .. 2
        /\ Grammar[r].rhs[1] = "KEYWORD_RET" /\ Grammar[r].rhs[2] = "expr"
    BY <2>1 DEF rule
  <2>3. /\ c[0] = c[1]
        /\ first[v[2]] = c[1] + 1 /\ v[2] = c[2]
        /\ v[2] \in Nat
    BY <1>0, <1>10, <2>2, SymbolKinds
  <2>4. v[2] \in Nat
    BY <2>3
  <2>5. node_of(r, v) = function_return(<< v[2] >>)
    BY <1>10 DEF node_of, BinaryToken
  <2>6. /\ node_of(r, v).operands = << v[2] >>
        /\ node_of(r, v).params = << >> /\ node_of(r, v).body = << >> /\ node_of(r, v).orelse = << >>
    BY <2>5 DEF function_return, expression
  <2>7. << v[2] >> \in Seq(Nat)
    BY <2>4
  <2>8. Children(node_of(r, v)) = << v[2] >>
    BY <2>6, <2>7, OperandsAlone
  <2>. QED
    BY <2>2, <2>3, <2>8, SpansOne
<1>11. CASE r = "ret"
  <2>1. Grammar[r] = rule("statement", << "KEYWORD_RET" >>)
    BY <1>11, GrammarRules
  <2>2. /\ m = 1 /\ DOMAIN Grammar[r].rhs = 1 .. 1
        /\ Grammar[r].rhs[1] = "KEYWORD_RET"
    BY <2>1 DEF rule
  <2>3. /\ c[0] = c[1]
    BY <1>0, <1>11, <2>2, SymbolKinds
  <2>5. node_of(r, v) = function_return(<< >>)
    BY <1>11 DEF node_of, BinaryToken
  <2>6. /\ node_of(r, v).operands = << >>
        /\ node_of(r, v).params = << >> /\ node_of(r, v).body = << >> /\ node_of(r, v).orelse = << >>
    BY <2>5 DEF function_return, expression
  <2>7. << >> \in Seq(Nat)
    OBVIOUS
  <2>8. Children(node_of(r, v)) = << >>
    BY <2>6, <2>7, OperandsAlone
  <2>. QED
    BY <2>2, <2>3, <2>8, SpansNone
<1>12. CASE r = "if"
  <2>1. Grammar[r] = rule("statement", << "KEYWORD_IF", "expr", "block" >>)
    BY <1>12, GrammarRules
  <2>2. /\ m = 3 /\ DOMAIN Grammar[r].rhs = 1 .. 3
        /\ Grammar[r].rhs[1] = "KEYWORD_IF" /\ Grammar[r].rhs[2] = "expr" /\ Grammar[r].rhs[3] = "block"
    BY <2>1 DEF rule
  <2>3. /\ c[0] = c[1]
        /\ first[v[2]] = c[1] + 1 /\ v[2] = c[2]
        /\ Spans(first, v[3], c[2], c[3])
        /\ v[2] \in Nat
        /\ v[3] \in Seq(Nat)
    BY <1>0, <1>12, <2>2, SymbolKinds
  <2>4. v[2] \in Nat /\ v[3] \in Seq(Nat)
    BY <2>3
  <2>5. node_of(r, v) = if_statement(v[2], v[3], << >>)
    BY <1>12 DEF node_of, BinaryToken
  <2>6. << >> \in Seq(Nat) /\ << v[2] >> \o v[3] \in Seq(Nat) /\ (<< v[2] >> \o v[3]) \o << >> = << v[2] >> \o v[3]
    BY <2>4
  <2>7. Children(if_statement(v[2], v[3], << >>)) = (<< v[2] >> \o v[3]) \o << >>
    BY <2>4, <2>6, IfChildren
  <2>. QED
    BY <2>2, <2>3, <2>4, <2>5, <2>6, <2>7, SpansBehind
<1>13. CASE r = "if_else"
  <2>1. Grammar[r] = rule("statement", << "KEYWORD_IF", "expr", "block", "KEYWORD_ELSE", "block" >>)
    BY <1>13, GrammarRules
  <2>2. /\ m = 5 /\ DOMAIN Grammar[r].rhs = 1 .. 5
        /\ Grammar[r].rhs[1] = "KEYWORD_IF" /\ Grammar[r].rhs[2] = "expr" /\ Grammar[r].rhs[3] = "block" /\ Grammar[r].rhs[4] = "KEYWORD_ELSE" /\ Grammar[r].rhs[5] = "block"
    BY <2>1 DEF rule
  <2>3. /\ c[0] = c[1]
        /\ first[v[2]] = c[1] + 1 /\ v[2] = c[2]
        /\ Spans(first, v[3], c[2], c[3])
        /\ c[3] = c[4]
        /\ Spans(first, v[5], c[4], c[5])
        /\ v[2] \in Nat
        /\ v[3] \in Seq(Nat)
        /\ v[5] \in Seq(Nat)
    BY <1>0, <1>13, <2>2, SymbolKinds
  <2>4. v[2] \in Nat /\ v[3] \in Seq(Nat) /\ v[5] \in Seq(Nat)
    BY <2>3
  <2>5. node_of(r, v) = if_statement(v[2], v[3], v[5])
    BY <1>13 DEF node_of, BinaryToken
  <2>6. Children(if_statement(v[2], v[3], v[5])) = (<< v[2] >> \o v[3]) \o v[5]
    BY <2>4, IfChildren
  <2>7. << v[2] >> \o v[3] \in Seq(Nat)
    BY <2>4
  <2>8. Spans(first, << v[2] >> \o v[3], c[1], c[3])
    BY <2>3, <2>4, SpansBehind
  <2>. QED
    BY <2>2, <2>3, <2>4, <2>5, <2>6, <2>7, <2>8, SpansJoined
<1>14. CASE r = "lookup"
  <2>1. Grammar[r] = rule("expr", << "IDENTIFIER" >>)
    BY <1>14, GrammarRules
  <2>2. /\ m = 1 /\ DOMAIN Grammar[r].rhs = 1 .. 1
        /\ Grammar[r].rhs[1] = "IDENTIFIER"
    BY <2>1 DEF rule
  <2>3. /\ c[0] = c[1]
    BY <1>0, <1>14, <2>2, SymbolKinds
  <2>5. node_of(r, v) = variable_lookup(v[1])
    BY <1>14 DEF node_of, BinaryToken
  <2>6. /\ node_of(r, v).operands = << >>
        /\ node_of(r, v).params = << >> /\ node_of(r, v).body = << >> /\ node_of(r, v).orelse = << >>
    BY <2>5 DEF variable_lookup, expression
  <2>7. << >> \in Seq(Nat)
    OBVIOUS
  <2>8. Children(node_of(r, v)) = << >>
    BY <2>6, <2>7, OperandsAlone
  <2>. QED
    BY <2>2, <2>3, <2>8, SpansNone
<1>15. CASE r = "call"
  <2>1. Grammar[r] = rule("expr", << "IDENTIFIER", "OPEN_PAR", "CLOSE_PAR" >>)
    BY <1>15, GrammarRules
  <2>2. /\ m = 3 /\ DOMAIN Grammar[r].rhs = 1 .. 3
        /\ Grammar[r].rhs[1] = "IDENTIFIER" /\ Grammar[r].rhs[2] = "OPEN_PAR" /\ Grammar[r].rhs[3] = "CLOSE_PAR"
    BY <2>1 DEF rule
  <2>3. /\ c[0] = c[1]
        /\ c[1] = c[2]
        /\ c[2] = c[3]
    BY <1>0, <1>15, <2>2, SymbolKinds
  <2>5. node_of(r, v) = function_call(v[1], << >>)
    BY <1>15 DEF node_of, BinaryToken
  <2>6. /\ node_of(r, v).operands = << >>
        /\ node_of(r, v).params = << >> /\ node_of(r, v).body = << >> /\ node_of(r, v).orelse = << >>
    BY <2>5 DEF function_call, expression
  <2>7. << >> \in Seq(Nat)
    OBVIOUS
  <2>8. Children(node_of(r, v)) = << >>
    BY <2>6, <2>7, OperandsAlone
  <2>. QED
    BY <2>2, <2>3, <2>8, SpansNone
<1>16. CASE r = "call_with_args"
  <2>1. Grammar[r] = rule("expr", << "IDENTIFIER", "OPEN_PAR", "call_args", "CLOSE_PAR" >>)
    BY <1>16, GrammarRules
  <2>2. /\ m = 4 /\ DOMAIN Grammar[r].rhs = 1 .. 4
        /\ Grammar[r].rhs[1] = "IDENTIFIER" /\ Grammar[r].rhs[2] = "OPEN_PAR" /\ Grammar[r].rhs[3] = "call_args" /\ Grammar[r].rhs[4] = "CLOSE_PAR"
    BY <2>1 DEF rule
  <2>3. /\ c[0] = c[1]
        /\ c[1] = c[2]
        /\ Spans(first, v[3], c[2], c[3])
        /\ c[3] = c[4]
        /\ v[3] \in Seq(Nat)
    BY <1>0, <1>16, <2>2, SymbolKinds
  <2>4. v[3] \in Seq(Nat)
    BY <2>3
  <2>5. node_of(r, v) = function_call(v[1], v[3])
    BY <1>16 DEF node_of, BinaryToken
  <2>6. /\ node_of(r, v).operands = v[3]
        /\ node_of(r, v).params = << >> /\ node_of(r, v).body = << >> /\ node_of(r, v).orelse = << >>
    BY <2>5 DEF function_call, expression
  <2>7. v[3] \in Seq(Nat)
    BY <2>4
  <2>8. Children(node_of(r, v)) = v[3]
    BY <2>6, <2>7, OperandsAlone
  <2>. QED
    BY <2>2, <2>3, <2>8
<1>17. CASE r = "NOT"
  <2>1. Grammar[r] = rule("expr", << "EXCLAMATION", "expr" >>)
    BY <1>17, GrammarRules
  <2>2. /\ m = 2 /\ DOMAIN Grammar[r].rhs = 1 .. 2
        /\ Grammar[r].rhs[1] = "EXCLAMATION" /\ Grammar[r].rhs[2] = "expr"
    BY <2>1 DEF rule
  <2>3. /\ c[0] = c[1]
        /\ first[v[2]] = c[1] + 1 /\ v[2] = c[2]
        /\ v[2] \in Nat
    BY <1>0, <1>17, <2>2, SymbolKinds
  <2>4. v[2] \in Nat
    BY <2>3
  <2>5. node_of(r, v) = unary_op("NOT", v[2])
    BY <1>17 DEF node_of, BinaryToken
  <2>6. /\ node_of(r, v).operands = << v[2] >>
        /\ node_of(r, v).params = << >> /\ node_of(r, v).body = << >> /\ node_of(r, v).orelse = << >>
    BY <2>5 DEF unary_op, expression
  <2>7. << v[2] >> \in Seq(Nat)
    BY <2>4
  <2>8. Children(node_of(r, v)) = << v[2] >>
    BY <2>6, <2>7, OperandsAlone
  <2>. QED
    BY <2>2, <2>3, <2>8, SpansOne
<1>18. CASE r = "NEGATE"
  <2>1. Grammar[r] = rule("expr", << "MINUS", "expr" >>)
    BY <1>18, GrammarRules
  <2>2. /\ m = 2 /\ DOMAIN Grammar[r].rhs = 1 .. 2
        /\ Grammar[r].rhs[1] = "MINUS" /\ Grammar[r].rhs[2] = "expr"
    BY <2>1 DEF rule
  <2>3. /\ c[0] = c[1]
        /\ first[v[2]] = c[1] + 1 /\ v[2] = c[2]
        /\ v[2] \in Nat
    BY <1>0, <1>18, <2>2, SymbolKinds
  <2>4. v[2] \in Nat
    BY <2>3
  <2>5. node_of(r, v) = unary_op("NEGATE", v[2])
    BY <1>18 DEF node_of, BinaryToken
  <2>6. /\ node_of(r, v).operands = << v[2] >>
        /\ node_of(r, v).params = << >> /\ node_of(r, v).body = << >> /\ node_of(r, v).orelse = << >>
    BY <2>5 DEF unary_op, expression
  <2>7. << v[2] >> \in Seq(Nat)
    BY <2>4
  <2>8. Children(node_of(r, v)) = << v[2] >>
    BY <2>6, <2>7, OperandsAlone
  <2>. QED
    BY <2>2, <2>3, <2>8, SpansOne
<1>19. CASE r \in BinaryToken
  <2>1. Grammar[r] = rule("expr", << "expr", r, "expr" >>)
    BY <1>19, GrammarRules DEF BinaryToken, LiteralToken
  <2>2. /\ m = 3 /\ DOMAIN Grammar[r].rhs = 1 .. 3
        /\ Grammar[r].rhs[1] = "expr" /\ Grammar[r].rhs[2] = r /\ Grammar[r].rhs[3] = "expr"
    BY <2>1 DEF rule
  <2>3. /\ first[v[1]] = c[0] + 1 /\ v[1] = c[1]
        /\ c[1] = c[2]
        /\ first[v[3]] = c[2] + 1 /\ v[3] = c[3]
        /\ v[1] \in Nat
        /\ v[3] \in Nat
    BY <1>0, <1>19, <2>2, SymbolKinds
  <2>4. v[1] \in Nat /\ v[3] \in Nat
    BY <2>3
  <2>5. node_of(r, v) = binary_op(r, v[1], v[3])
    BY <1>19 DEF node_of, BinaryToken
  <2>6. /\ node_of(r, v).operands = << v[1], v[3] >>
        /\ node_of(r, v).params = << >> /\ node_of(r, v).body = << >> /\ node_of(r, v).orelse = << >>
    BY <2>5 DEF binary_op, expression
  <2>10. << v[1], v[3] >> \in Seq(Nat) /\ << v[3] >> \in Seq(Nat)
    BY <2>4
  <2>7. << v[1] >> \o << v[3] >> = << v[1], v[3] >>
    BY PairJoined
  <2>8. Children(node_of(r, v)) = << v[1] >> \o << v[3] >>
    BY <2>6, <2>7, <2>10, OperandsAlone
  <2>9. Spans(first, << v[3] >>, v[1], v[3])
    BY <2>3, SpansOne
  <2>. QED
    BY <2>2, <2>3, <2>4, <2>8, <2>9, <2>10, SpansBehind
<1>20. CASE r \in LiteralToken
  <2>1. Grammar[r] = rule("const_value", << r >>)
    BY <1>20, GrammarRules DEF BinaryToken, LiteralToken
  <2>2. /\ m = 1 /\ DOMAIN Grammar[r].rhs = 1 .. 1
        /\ Grammar[r].rhs[1] = r
    BY <2>1 DEF rule
  <2>3. /\ c[0] = c[1]
    BY <1>0, <1>20, <2>2, SymbolKinds
  <2>5. PICK kind : node_of(r, v) = const_value(kind)
    BY <1>20 DEF node_of, BinaryToken, LiteralToken
  <2>6. /\ node_of(r, v).operands = << >>
        /\ node_of(r, v).params = << >> /\ node_of(r, v).body = << >> /\ node_of(r, v).orelse = << >>
    BY <2>5 DEF const_value, expression
  <2>7. << >> \in Seq(Nat)
    OBVIOUS
  <2>8. Children(node_of(r, v)) = << >>
    BY <2>6, <2>7, OperandsAlone
  <2>. QED
    BY <2>2, <2>3, <2>8, SpansNone
<1>. QED
  BY <1>1, <1>2, <1>3, <1>4, <1>5, <1>6, <1>7, <1>8, <1>9, <1>10, <1>11, <1>12, <1>13, <1>14, <1>15, <1>16, <1>17, <1>18, <1>19, <1>20 DEF NodeRule

\* What an action passes on is where the values of its symbols are.
LEMMA ActionsPassOnTiles ==
    ASSUME NEW ns \in Seq(AstNode), NEW v, NEW r \in Rule \ NodeRule, r # "accept", NEW first, NEW c,
           \A j \in DOMAIN Grammar[r].rhs :
             Fits(Grammar[r].rhs[j], v[j], ns) /\ Carries(first, Grammar[r].rhs[j], v[j], c[j - 1], c[j])
    PROVE  Carries(first, Grammar[r].lhs, passed_on(r, v), c[0], c[Len(Grammar[r].rhs)])
<1>. DEFINE m == Len(Grammar[r].rhs)
<1>0. \A j \in DOMAIN Grammar[r].rhs :
        /\ Grammar[r].rhs[j] \in NodeSymbol => first[v[j]] = c[j - 1] + 1 /\ v[j] = c[j] /\ v[j] \in Nat
        /\ Grammar[r].rhs[j] \in ListSymbol => Spans(first, v[j], c[j - 1], c[j]) /\ v[j] \in Seq(Nat)
        /\ Grammar[r].rhs[j] \notin NodeSymbol \cup ListSymbol => c[j - 1] = c[j]
  BY FitsNumbers DEF Carries
<1>1. CASE r = "top_level"
  <2>1. Grammar[r] = rule("top_level", << "instruction" >>)
    BY <1>1, GrammarRules
  <2>2. /\ m = 1 /\ DOMAIN Grammar[r].rhs = 1 .. 1
        /\ Grammar[r].rhs[1] = "instruction"
    BY <2>1 DEF rule
  <2>3. /\ first[v[1]] = c[0] + 1 /\ v[1] = c[1]
        /\ v[1] \in Nat
    BY <1>0, <1>1, <2>2, SymbolKinds
  <2>4. v[1] \in Nat
    BY <2>3
  <2>5. passed_on(r, v) = << v[1] >> /\ Grammar[r].lhs = "top_level"
    BY <1>1, <2>1 DEF passed_on, rule
  <2>6. Spans(first, passed_on(r, v), c[0], c[1])
    BY <2>3, <2>5, SpansOne
  <2>. QED
    BY <2>2, <2>5, <2>6 DEF Carries, NodeSymbol, ListSymbol
<1>2. CASE r = "statements"
  <2>1. Grammar[r] = rule("statements", << "statement" >>)
    BY <1>2, GrammarRules
  <2>2. /\ m = 1 /\ DOMAIN Grammar[r].rhs = 1 .. 1
        /\ Grammar[r].rhs[1] = "statement"
    BY <2>1 DEF rule
  <2>3. /\ first[v[1]] = c[0] + 1 /\ v[1] = c[1]
        /\ v[1] \in Nat
    BY <1>0, <1>2, <2>2, SymbolKinds
  <2>4. v[1] \in Nat
    BY <2>3
  <2>5. passed_on(r, v) = << v[1] >> /\ Grammar[r].lhs = "statements"
    BY <1>2, <2>1 DEF passed_on, rule
  <2>6. Spans(first, passed_on(r, v), c[0], c[1])
    BY <2>3, <2>5, SpansOne
  <2>. QED
    BY <2>2, <2>5, <2>6 DEF Carries, NodeSymbol, ListSymbol
<1>3. CASE r = "def_args"
  <2>1. Grammar[r] = rule("def_args", << "arg" >>)
    BY <1>3, GrammarRules
  <2>2. /\ m = 1 /\ DOMAIN Grammar[r].rhs = 1 .. 1
        /\ Grammar[r].rhs[1] = "arg"
    BY <2>1 DEF rule
  <2>3. /\ first[v[1]] = c[0] + 1 /\ v[1] = c[1]
        /\ v[1] \in Nat
    BY <1>0, <1>3, <2>2, SymbolKinds
  <2>4. v[1] \in Nat
    BY <2>3
  <2>5. passed_on(r, v) = << v[1] >> /\ Grammar[r].lhs = "def_args"
    BY <1>3, <2>1 DEF passed_on, rule
  <2>6. Spans(first, passed_on(r, v), c[0], c[1])
    BY <2>3, <2>5, SpansOne
  <2>. QED
    BY <2>2, <2>5, <2>6 DEF Carries, NodeSymbol, ListSymbol
<1>4. CASE r = "call_args"
  <2>1. Grammar[r] = rule("call_args", << "expr" >>)
    BY <1>4, GrammarRules
  <2>2. /\ m = 1 /\ DOMAIN Grammar[r].rhs = 1 .. 1
        /\ Grammar[r].rhs[1] = "expr"
    BY <2>1 DEF rule
  <2>3. /\ first[v[1]] = c[0] + 1 /\ v[1] = c[1]
        /\ v[1] \in Nat
    BY <1>0, <1>4, <2>2, SymbolKinds
  <2>4. v[1] \in Nat
    BY <2>3
  <2>5. passed_on(r, v) = << v[1] >> /\ Grammar[r].lhs = "call_args"
    BY <1>4, <2>1 DEF passed_on, rule
  <2>6. Spans(first, passed_on(r, v), c[0], c[1])
    BY <2>3, <2>5, SpansOne
  <2>. QED
    BY <2>2, <2>5, <2>6 DEF Carries, NodeSymbol, ListSymbol
<1>5. CASE r = "def_args_more"
  <2>1. Grammar[r] = rule("def_args", << "def_args", "COMMA", "arg" >>)
    BY <1>5, GrammarRules
  <2>2. /\ m = 3 /\ DOMAIN Grammar[r].rhs = 1 .. 3
        /\ Grammar[r].rhs[1] = "def_args" /\ Grammar[r].rhs[2] = "COMMA" /\ Grammar[r].rhs[3] = "arg"
    BY <2>1 DEF rule
  <2>3. /\ Spans(first, v[1], c[0], c[1])
        /\ c[1] = c[2]
        /\ first[v[3]] = c[2] + 1 /\ v[3] = c[3]
        /\ v[1] \in Seq(Nat)
        /\ v[3] \in Nat
    BY <1>0, <1>5, <2>2, SymbolKinds
  <2>4. v[1] \in Seq(Nat) /\ v[3] \in Nat
    BY <2>3
  <2>5. passed_on(r, v) = Append(v[1], v[3]) /\ Grammar[r].lhs = "def_args"
    BY <1>5, <2>1 DEF passed_on, rule
  <2>6. Spans(first, passed_on(r, v), c[0], c[3])
    BY <2>3, <2>5, <2>4, SpansAppend
  <2>. QED
    BY <2>2, <2>5, <2>6 DEF Carries, NodeSymbol, ListSymbol
<1>6. CASE r = "call_args_more"
  <2>1. Grammar[r] = rule("call_args", << "call_args", "COMMA", "expr" >>)
    BY <1>6, GrammarRules
  <2>2. /\ m = 3 /\ DOMAIN Grammar[r].rhs = 1 .. 3
        /\ Grammar[r].rhs[1] = "call_args" /\ Grammar[r].rhs[2] = "COMMA" /\ Grammar[r].rhs[3] = "expr"
    BY <2>1 DEF rule
  <2>3. /\ Spans(first, v[1], c[0], c[1])
        /\ c[1] = c[2]
        /\ first[v[3]] = c[2] + 1 /\ v[3] = c[3]
        /\ v[1] \in Seq(Nat)
        /\ v[3] \in Nat
    BY <1>0, <1>6, <2>2, SymbolKinds
  <2>4. v[1] \in Seq(Nat) /\ v[3] \in Nat
    BY <2>3
  <2>5. passed_on(r, v) = Append(v[1], v[3]) /\ Grammar[r].lhs = "call_args"
    BY <1>6, <2>1 DEF passed_on, rule
  <2>6. Spans(first, passed_on(r, v), c[0], c[3])
    BY <2>3, <2>5, <2>4, SpansAppend
  <2>. QED
    BY <2>2, <2>5, <2>6 DEF Carries, NodeSymbol, ListSymbol
<1>7. CASE r = "top_level_more"
  <2>1. Grammar[r] = rule("top_level", << "top_level", "instruction" >>)
    BY <1>7, GrammarRules
  <2>2. /\ m = 2 /\ DOMAIN Grammar[r].rhs = 1 .. 2
        /\ Grammar[r].rhs[1] = "top_level" /\ Grammar[r].rhs[2] = "instruction"
    BY <2>1 DEF rule
  <2>3. /\ Spans(first, v[1], c[0], c[1])
        /\ first[v[2]] = c[1] + 1 /\ v[2] = c[2]
        /\ v[1] \in Seq(Nat)
        /\ v[2] \in Nat
    BY <1>0, <1>7, <2>2, SymbolKinds
  <2>4. v[1] \in Seq(Nat) /\ v[2] \in Nat
    BY <2>3
  <2>5. passed_on(r, v) = Append(v[1], v[2]) /\ Grammar[r].lhs = "top_level"
    BY <1>7, <2>1 DEF passed_on, rule
  <2>6. Spans(first, passed_on(r, v), c[0], c[2])
    BY <2>3, <2>5, <2>4, SpansAppend
  <2>. QED
    BY <2>2, <2>5, <2>6 DEF Carries, NodeSymbol, ListSymbol
<1>8. CASE r = "statements_more"
  <2>1. Grammar[r] = rule("statements", << "statements", "statement" >>)
    BY <1>8, GrammarRules
  <2>2. /\ m = 2 /\ DOMAIN Grammar[r].rhs = 1 .. 2
        /\ Grammar[r].rhs[1] = "statements" /\ Grammar[r].rhs[2] = "statement"
    BY <2>1 DEF rule
  <2>3. /\ Spans(first, v[1], c[0], c[1])
        /\ first[v[2]] = c[1] + 1 /\ v[2] = c[2]
        /\ v[1] \in Seq(Nat)
        /\ v[2] \in Nat
    BY <1>0, <1>8, <2>2, SymbolKinds
  <2>4. v[1] \in Seq(Nat) /\ v[2] \in Nat
    BY <2>3
  <2>5. passed_on(r, v) = Append(v[1], v[2]) /\ Grammar[r].lhs = "statements"
    BY <1>8, <2>1 DEF passed_on, rule
  <2>6. Spans(first, passed_on(r, v), c[0], c[2])
    BY <2>3, <2>5, <2>4, SpansAppend
  <2>. QED
    BY <2>2, <2>5, <2>6 DEF Carries, NodeSymbol, ListSymbol
<1>9. CASE r = "block_empty"
  <2>1. Grammar[r] = rule("block", << "OPEN_CUR", "CLOSE_CUR" >>)
    BY <1>9, GrammarRules
  <2>2. /\ m = 2 /\ DOMAIN Grammar[r].rhs = 1 .. 2
        /\ Grammar[r].rhs[1] = "OPEN_CUR" /\ Grammar[r].rhs[2] = "CLOSE_CUR"
    BY <2>1 DEF rule
  <2>3. /\ c[0] = c[1]
        /\ c[1] = c[2]
    BY <1>0, <1>9, <2>2, SymbolKinds
  <2>5. passed_on(r, v) = << >> /\ Grammar[r].lhs = "block"
    BY <1>9, <2>1 DEF passed_on, rule
  <2>6. Spans(first, passed_on(r, v), c[0], c[2])
    BY <2>3, <2>5, SpansNone
  <2>. QED
    BY <2>2, <2>5, <2>6 DEF Carries, NodeSymbol, ListSymbol
<1>10. CASE r = "block"
  <2>1. Grammar[r] = rule("block", << "OPEN_CUR", "statements", "CLOSE_CUR" >>)
    BY <1>10, GrammarRules
  <2>2. /\ m = 3 /\ DOMAIN Grammar[r].rhs = 1 .. 3
        /\ Grammar[r].rhs[1] = "OPEN_CUR" /\ Grammar[r].rhs[2] = "statements" /\ Grammar[r].rhs[3] = "CLOSE_CUR"
    BY <2>1 DEF rule
  <2>3. /\ c[0] = c[1]
        /\ Spans(first, v[2], c[1], c[2])
        /\ c[2] = c[3]
        /\ v[2] \in Seq(Nat)
    BY <1>0, <1>10, <2>2, SymbolKinds
  <2>4. v[2] \in Seq(Nat)
    BY <2>3
  <2>5. passed_on(r, v) = v[2] /\ Grammar[r].lhs = "block"
    BY <1>10, <2>1 DEF passed_on, rule
  <2>6. Spans(first, passed_on(r, v), c[0], c[3])
    BY <2>3, <2>5
  <2>. QED
    BY <2>2, <2>5, <2>6 DEF Carries, NodeSymbol, ListSymbol
<1>11. CASE r = "parentheses"
  <2>1. Grammar[r] = rule("expr", << "OPEN_PAR", "expr", "CLOSE_PAR" >>)
    BY <1>11, GrammarRules
  <2>2. /\ m = 3 /\ DOMAIN Grammar[r].rhs = 1 .. 3
        /\ Grammar[r].rhs[1] = "OPEN_PAR" /\ Grammar[r].rhs[2] = "expr" /\ Grammar[r].rhs[3] = "CLOSE_PAR"
    BY <2>1 DEF rule
  <2>3. /\ c[0] = c[1]
        /\ first[v[2]] = c[1] + 1 /\ v[2] = c[2]
        /\ c[2] = c[3]
        /\ v[2] \in Nat
    BY <1>0, <1>11, <2>2, SymbolKinds
  <2>4. v[2] \in Nat
    BY <2>3
  <2>5. passed_on(r, v) = v[2] /\ Grammar[r].lhs = "expr"
    BY <1>11, <2>1 DEF passed_on, rule
  <2>. QED
    BY <2>2, <2>3, <2>5 DEF Carries, NodeSymbol, ListSymbol
<1>12. CASE r = "parse"
  <2>1. Grammar[r] = rule("parse", << "top_level" >>)
    BY <1>12, GrammarRules
  <2>2. /\ m = 1 /\ DOMAIN Grammar[r].rhs = 1 .. 1
        /\ Grammar[r].rhs[1] = "top_level"
    BY <2>1 DEF rule
  <2>3. /\ Spans(first, v[1], c[0], c[1])
        /\ v[1] \in Seq(Nat)
    BY <1>0, <1>12, <2>2, SymbolKinds
  <2>4. v[1] \in Seq(Nat)
    BY <2>3
  <2>5. passed_on(r, v) = v[1] /\ Grammar[r].lhs = "parse"
    BY <1>12, <2>1 DEF passed_on, rule
  <2>6. Spans(first, passed_on(r, v), c[0], c[1])
    BY <2>3, <2>5
  <2>. QED
    BY <2>2, <2>5, <2>6 DEF Carries, NodeSymbol, ListSymbol
<1>13. CASE r = "instruction_const"
  <2>1. Grammar[r] = rule("instruction", << "const_definition" >>)
    BY <1>13, GrammarRules
  <2>2. /\ m = 1 /\ DOMAIN Grammar[r].rhs = 1 .. 1
        /\ Grammar[r].rhs[1] = "const_definition"
    BY <2>1 DEF rule
  <2>3. /\ first[v[1]] = c[0] + 1 /\ v[1] = c[1]
        /\ v[1] \in Nat
    BY <1>0, <1>13, <2>2, SymbolKinds
  <2>4. v[1] \in Nat
    BY <2>3
  <2>5. passed_on(r, v) = v[1] /\ Grammar[r].lhs = "instruction"
    BY <1>13, <2>1 DEF passed_on, rule
  <2>. QED
    BY <2>2, <2>3, <2>5 DEF Carries, NodeSymbol, ListSymbol
<1>14. CASE r = "instruction_fun"
  <2>1. Grammar[r] = rule("instruction", << "function" >>)
    BY <1>14, GrammarRules
  <2>2. /\ m = 1 /\ DOMAIN Grammar[r].rhs = 1 .. 1
        /\ Grammar[r].rhs[1] = "function"
    BY <2>1 DEF rule
  <2>3. /\ first[v[1]] = c[0] + 1 /\ v[1] = c[1]
        /\ v[1] \in Nat
    BY <1>0, <1>14, <2>2, SymbolKinds
  <2>4. v[1] \in Nat
    BY <2>3
  <2>5. passed_on(r, v) = v[1] /\ Grammar[r].lhs = "instruction"
    BY <1>14, <2>1 DEF passed_on, rule
  <2>. QED
    BY <2>2, <2>3, <2>5 DEF Carries, NodeSymbol, ListSymbol
<1>15. CASE r = "expression"
  <2>1. Grammar[r] = rule("statement", << "expr" >>)
    BY <1>15, GrammarRules
  <2>2. /\ m = 1 /\ DOMAIN Grammar[r].rhs = 1 .. 1
        /\ Grammar[r].rhs[1] = "expr"
    BY <2>1 DEF rule
  <2>3. /\ first[v[1]] = c[0] + 1 /\ v[1] = c[1]
        /\ v[1] \in Nat
    BY <1>0, <1>15, <2>2, SymbolKinds
  <2>4. v[1] \in Nat
    BY <2>3
  <2>5. passed_on(r, v) = v[1] /\ Grammar[r].lhs = "statement"
    BY <1>15, <2>1 DEF passed_on, rule
  <2>. QED
    BY <2>2, <2>3, <2>5 DEF Carries, NodeSymbol, ListSymbol
<1>16. CASE r = "literal"
  <2>1. Grammar[r] = rule("expr", << "const_value" >>)
    BY <1>16, GrammarRules
  <2>2. /\ m = 1 /\ DOMAIN Grammar[r].rhs = 1 .. 1
        /\ Grammar[r].rhs[1] = "const_value"
    BY <2>1 DEF rule
  <2>3. /\ first[v[1]] = c[0] + 1 /\ v[1] = c[1]
        /\ v[1] \in Nat
    BY <1>0, <1>16, <2>2, SymbolKinds
  <2>4. v[1] \in Nat
    BY <2>3
  <2>5. passed_on(r, v) = v[1] /\ Grammar[r].lhs = "expr"
    BY <1>16, <2>1 DEF passed_on, rule
  <2>. QED
    BY <2>2, <2>3, <2>5 DEF Carries, NodeSymbol, ListSymbol
<1>17. CASE r = "reftype"
  <2>1. Grammar[r] = rule("reftype", << "TYPE" >>)
    BY <1>17, GrammarRules
  <2>2. /\ m = 1 /\ DOMAIN Grammar[r].rhs = 1 .. 1
        /\ Grammar[r].rhs[1] = "TYPE"
    BY <2>1 DEF rule
  <2>3. /\ c[0] = c[1]
    BY <1>0, <1>17, <2>2, SymbolKinds
  <2>5. passed_on(r, v) = v[1] /\ Grammar[r].lhs = "reftype"
    BY <1>17, <2>1 DEF passed_on, rule
  <2>. QED
    BY <2>2, <2>3, <2>5 DEF Carries, NodeSymbol, ListSymbol
<1>18. r \in {"accept", "parse", "top_level", "top_level_more", "instruction_const", "instruction_fun",
             "block", "block_empty", "def_args", "def_args_more", "call_args", "call_args_more",
             "statements", "statements_more", "expression", "literal", "parentheses", "reftype"}
  BY DEF Rule, Grammar, Alternative, NodeRule
<1>. QED
  BY <1>1, <1>2, <1>3, <1>4, <1>5, <1>6, <1>7, <1>8, <1>9, <1>10, <1>11, <1>12, <1>13, <1>14, <1>15, <1>16, <1>17, <1>18

\* The nodes are in tree order; first says where the subtree of each starts.
Tiled(first, ns) ==
    \A n \in 1 .. Len(ns) : first[n] \in 1 .. n /\ Spans(first, Children(ns[n]), first[n] - 1, n - 1)

\* The values of the entries of s are one behind the other in ns; b says where
\* that of each ends.
Cut(first, b, s, ns) ==
    /\ b[0] = 0
    /\ b[Len(s)] = Len(ns)
    /\ \A k \in 0 .. Len(s) : b[k] \in 0 .. Len(ns)
    /\ \A k \in 1 .. Len(s) : Carries(first, s[k].symbol, s[k].value, b[k - 1], b[k])

LEMMA JoinedIsSeq ==
    ASSUME NEW S, NEW s \in Seq(S), NEW t \in Seq(S)
    PROVE  s \o t \in Seq(S)
  OBVIOUS

LEMMA ChildrenAreSeq ==
    ASSUME NEW node, NEW S, node.operands \in Seq(S), node.params \in Seq(S), node.body \in Seq(S), node.orelse \in Seq(S)
    PROVE  Children(node) \in Seq(S)
<1>1. node.operands \o node.params \in Seq(S)
  BY JoinedIsSeq
<1>2. node.operands \o node.params \o node.body \in Seq(S)
  BY <1>1, JoinedIsSeq
<1>. QED
  BY <1>2, JoinedIsSeq DEF Children

LEMMA LegalChildren ==
    ASSUME NEW node, NEW ns, Legal(node, ns)
    PROVE  Children(node) \in Seq(1 .. Len(ns))
<1>1. \A kinds : Of(ns, kinds) \subseteq 1 .. Len(ns)
  BY DEF Of
<1>2. \A kinds : Seq(Of(ns, kinds)) \subseteq Seq(1 .. Len(ns))
  <2>. HIDE DEF Of
  <2>. QED
    BY <1>1, SeqGrows
<1>. QED
  BY <1>2, ChildrenAreSeq DEF Legal

LEMMA SoundChildren ==
    ASSUME NEW ns, Sound(ns), NEW n \in 1 .. Len(ns)
    PROVE  Children(ns[n]) \in Seq(1 .. n - 1)
<1>. DEFINE Before(kinds) == {k \in 1 .. n - 1 : ns[k].kind \in kinds}
<1>1. \A kinds : Before(kinds) \subseteq 1 .. n - 1
  OBVIOUS
<1>2. /\ ns[n].operands \in Seq(Before(Expression)) /\ ns[n].params \in Seq(Before({"Argument"}))
      /\ ns[n].body \in Seq(Before(Statement)) /\ ns[n].orelse \in Seq(Before(Statement))
  BY DEF Sound
<1>. HIDE DEF Before
<1>3. \A kinds : Seq(Before(kinds)) \subseteq Seq(1 .. n - 1)
  BY <1>1, SeqGrows
<1>. QED
  BY <1>2, <1>3, ChildrenAreSeq

LEMMA SpansStays ==
    ASSUME NEW first, NEW later, NEW N \in Nat, \A n \in 1 .. N : later[n] = first[n],
           NEW s \in Seq(1 .. N), NEW a, NEW b, Spans(first, s, a, b)
    PROVE  Spans(later, s, a, b)
<1>1. Len(s) \in Nat /\ \A i \in 1 .. Len(s) : s[i] \in 1 .. N /\ later[s[i]] = first[s[i]]
  OBVIOUS
<1>2. s # << >> => 1 \in 1 .. Len(s)
  BY <1>1
<1>3. \A i \in 1 .. Len(s) - 1 : i + 1 \in 1 .. Len(s)
  BY <1>1
<1>. QED
  BY <1>1, <1>2, <1>3 DEF Spans

LEMMA CarriesStays ==
    ASSUME NEW first, NEW later, NEW ns \in Seq(AstNode), \A n \in 1 .. Len(ns) : later[n] = first[n],
           NEW X, NEW v, Fits(X, v, ns), NEW a, NEW b, Carries(first, X, v, a, b)
    PROVE  Carries(later, X, v, a, b)
<1>1. \A kinds : Of(ns, kinds) \subseteq 1 .. Len(ns)
  BY DEF Of
<1>2. \A kinds : Seq(Of(ns, kinds)) \subseteq Seq(1 .. Len(ns))
  <2>. HIDE DEF Of
  <2>. QED
    BY <1>1, SeqGrows
<1>3. CASE X \in NodeSymbol
  BY <1>1, <1>3 DEF Fits, Carries, NodeSymbol, ListSymbol
<1>4. CASE X \in ListSymbol
  <2>1. v \in Seq(1 .. Len(ns))
    BY <1>2, <1>4 DEF Fits, ListSymbol
  <2>3. Len(ns) \in Nat /\ Spans(first, v, a, b)
    BY <1>4 DEF Carries
  <2>2. Spans(later, v, a, b)
    BY <2>1, <2>3, SpansStays
  <2>. QED
    BY <1>4, <2>2 DEF Carries, NodeSymbol, ListSymbol
<1>. QED
  BY <1>3, <1>4 DEF Carries

\* A node is made of what is behind a.
LEMMA TiledGrows ==
    ASSUME NEW first, NEW ns, Sound(ns), Tiled(first, ns), NEW a \in 0 .. Len(ns),
           NEW node, Legal(node, ns), Spans(first, Children(node), a, Len(ns))
    PROVE  \E later : /\ Tiled(later, Append(ns, node))
                      /\ later[Len(ns) + 1] = a + 1
                      /\ \A n \in 1 .. Len(ns) : later[n] = first[n]
<1>. DEFINE N == Len(ns)
            all == Append(ns, node)
            later == [n \in 1 .. N + 1 |-> IF n = N + 1 THEN a + 1 ELSE first[n]]
<1>1. ns \in Seq(AstNode) /\ N \in Nat /\ Len(all) = N + 1 /\ all[N + 1] = node /\ \A n \in 1 .. N : all[n] = ns[n]
  BY AppendFacts DEF Sound
<1>. HIDE DEF all
<1>2. later[N + 1] = a + 1 /\ \A n \in 1 .. N : later[n] = first[n]
  BY <1>1
<1>. HIDE DEF later
<1>3. ASSUME NEW n \in 1 .. N
      PROVE  later[n] \in 1 .. n /\ Spans(later, Children(all[n]), later[n] - 1, n - 1)
  <2>1. first[n] \in 1 .. n /\ Spans(first, Children(ns[n]), first[n] - 1, n - 1)
    BY DEF Tiled
  <2>2. Children(ns[n]) \in Seq(1 .. N)
    <3>1. 1 .. n - 1 \subseteq 1 .. N
      BY <1>1
    <3>. QED
      BY <3>1, SoundChildren, SeqGrows
  <2>3. Spans(later, Children(ns[n]), first[n] - 1, n - 1)
    BY <1>1, <1>2, <2>1, <2>2, SpansStays
  <2>. QED
    BY <1>1, <1>2, <2>1, <2>3
<1>4. later[N + 1] \in 1 .. N + 1 /\ Spans(later, Children(all[N + 1]), later[N + 1] - 1, N + 1 - 1)
  <2>1. Spans(later, Children(node), a, N)
    BY <1>1, <1>2, LegalChildren, SpansStays
  <2>2. a + 1 \in 1 .. N + 1 /\ a + 1 - 1 = a /\ N + 1 - 1 = N
    BY <1>1
  <2>. QED
    BY <1>1, <1>2, <2>1, <2>2
<1>5. ASSUME NEW n \in 1 .. N + 1
      PROVE  n \in 1 .. N \/ n = N + 1
  BY <1>1
<1>6. Tiled(later, all)
  BY <1>1, <1>3, <1>4, <1>5 DEF Tiled
<1>. QED
  BY <1>2, <1>6 DEF all

\* What replaces the entries behind d ends where they did.
LEMMA CutGrows ==
    ASSUME NEW first, NEW later, NEW b, NEW S, NEW s \in Seq(S), NEW T, NEW t \in Seq(T), NEW ns, NEW all,
           Len(ns) \in Nat, Len(all) \in Nat, Len(ns) <= Len(all),
           Cut(first, b, s, ns),
           NEW d \in 0 .. Len(s), Len(t) = d + 1,
           \A k \in 1 .. d : t[k] = s[k],
           \A k \in 1 .. d : \A a, e : Carries(first, s[k].symbol, s[k].value, a, e)
                                         => Carries(later, s[k].symbol, s[k].value, a, e),
           Carries(later, t[d + 1].symbol, t[d + 1].value, b[d], Len(all))
    PROVE  \E e : Cut(later, e, t, all)
<1>. DEFINE e == [k \in 0 .. d + 1 |-> IF k = d + 1 THEN Len(all) ELSE b[k]]
<1>1. d \in Nat /\ Len(s) \in Nat /\ d <= Len(s)
  OBVIOUS
<1>2. e[d + 1] = Len(all) /\ \A k \in 0 .. d : e[k] = b[k]
  BY <1>1
<1>. HIDE DEF e
<1>3. e[0] = 0
  BY <1>1, <1>2 DEF Cut
<1>4. ASSUME NEW k \in 0 .. d + 1
      PROVE  e[k] \in 0 .. Len(all)
  <2>1. CASE k = d + 1
    BY <1>2, <2>1
  <2>2. CASE k # d + 1
    <3>1. k \in 0 .. d /\ k \in 0 .. Len(s)
      BY <1>1, <2>2
    <3>2. b[k] \in 0 .. Len(ns)
      BY <3>1 DEF Cut
    <3>. QED
      BY <1>2, <3>1, <3>2
  <2>. QED
    BY <2>1, <2>2
<1>5. ASSUME NEW k \in 1 .. d + 1
      PROVE  Carries(later, t[k].symbol, t[k].value, e[k - 1], e[k])
  <2>1. CASE k = d + 1
    <3>1. k - 1 = d /\ d \in 0 .. d
      BY <1>1, <2>1
    <3>. QED
      BY <1>2, <2>1, <3>1
  <2>2. CASE k # d + 1
    <3>1. k \in 1 .. d /\ k \in 1 .. Len(s) /\ k \in 0 .. d /\ k - 1 \in 0 .. d
      BY <1>1, <2>2
    <3>2. Carries(first, s[k].symbol, s[k].value, b[k - 1], b[k])
      BY <3>1 DEF Cut
    <3>. QED
      BY <1>2, <3>1, <3>2
  <2>. QED
    BY <2>1, <2>2
<1>. QED
  BY <1>2, <1>3, <1>4, <1>5 DEF Cut

\* A set of numbers has a least one.
LEMMA Least ==
    ASSUME NEW T, T \subseteq Nat, T # {}
    PROVE  \E x \in T : \A y \in T : x <= y
<1>1. PICK x \in T : \A y \in T : ~ (<< y, x >> \in OpToRel(<, Nat))
  BY NatLessThanWellFounded, WFMin
<1>2. \A y \in T : ~ (y < x)
  BY <1>1 DEF OpToRel
<1>. QED
  BY <1>2

\* FirstOf is the only way to say where the subtrees start.
LEMMA TiledIsInPostOrder ==
    ASSUME NEW ns, Sound(ns), NEW first, Tiled(first, ns), NEW top \in Seq(1 .. Len(ns)), Spans(first, top, 0, Len(ns))
    PROVE  InPostOrder([nodes |-> ns, top |-> top])
<1>. DEFINE D == 1 .. Len(ns)
            tree == [nodes |-> ns, top |-> top]
            Body(f) == [n \in D |-> IF Children(ns[n]) = << >> THEN n ELSE f[Children(ns[n])[1]]]
            F == [n \in D |-> first[n]]
            G == FirstOf(tree)
<1>1. /\ Len(ns) \in Nat /\ DOMAIN ns = D /\ tree.nodes = ns /\ tree.top = top
  BY DEF Sound
<1>2. ASSUME NEW n \in D
      PROVE  /\ Children(ns[n]) = << >> => first[n] = n
             /\ Children(ns[n]) # << >> => /\ Children(ns[n])[1] \in D
                                           /\ Children(ns[n])[1] < n
                                           /\ first[Children(ns[n])[1]] = first[n]
  <2>1. first[n] \in 1 .. n /\ Spans(first, Children(ns[n]), first[n] - 1, n - 1)
    BY DEF Tiled
  <2>2. Children(ns[n]) \in Seq(1 .. n - 1)
    BY SoundChildren
  <2>3. Children(ns[n]) # << >> => Children(ns[n])[1] \in 1 .. n - 1
    BY <2>2
  <2>. QED
    BY <1>1, <2>1, <2>3 DEF Spans
<1>3. F = Body(F)
  BY <1>2
<1>4. G = CHOOSE f : f = Body(f)
  BY <1>1 DEF FirstOf
<1>5. G = Body(G)
  <2>. HIDE DEF F, Body, G
  <2>. QED
    BY Zenon, <1>3, <1>4
<1>6. \A n \in D : G[n] = first[n]
  <2>. DEFINE T == {n \in D : G[n] # first[n]}
  <2>1. SUFFICES ASSUME T # {}
        PROVE  FALSE
    OBVIOUS
  <2>. HIDE DEF G
  <2>2. PICK n \in T : \A y \in T : n <= y
    <3>1. T \subseteq Nat
      OBVIOUS
    <3>. HIDE DEF T
    <3>. QED
      BY <2>1, <3>1, Least
  <2>3. G[n] = IF Children(ns[n]) = << >> THEN n ELSE G[Children(ns[n])[1]]
    BY <1>5
  <2>4. Children(ns[n]) # << >> => Children(ns[n])[1] \notin T
    BY <1>1, <1>2, <2>2
  <2>. QED
    BY <1>2, <2>2, <2>3, <2>4
<1>. HIDE DEF G, F, Body
<1>7. ASSUME NEW n \in D
      PROVE  G[n] \in 1 .. n /\ Spans(G, Children(ns[n]), G[n] - 1, n - 1)
  <2>1. first[n] \in 1 .. n /\ Spans(first, Children(ns[n]), first[n] - 1, n - 1)
    BY DEF Tiled
  <2>2. Children(ns[n]) \in Seq(1 .. Len(ns))
    <3>1. 1 .. n - 1 \subseteq 1 .. Len(ns)
      BY <1>1
    <3>. QED
      BY <3>1, SoundChildren, SeqGrows
  <2>. QED
    BY <1>1, <1>6, <2>1, <2>2, SpansStays
<1>8. Spans(G, top, 0, Len(ns))
  BY <1>1, <1>6, SpansStays
<1>. QED
  BY <1>1, <1>7, <1>8 DEF InPostOrder, G

-------------------------------------------------------------------------------
(***************************************************************************)
(* The rules that may begin where a symbol is expected.  corners is a      *)
(* function on the numbers: what is known of it is known by the least      *)
(* number for which it would fail.                                         *)
(***************************************************************************)

Nearest == {<< X, X >> : X \in Nonterminal}

Further(nearer) ==
    nearer \cup UNION {{<< c[1], Grammar[r].rhs[1] >> : r \in {q \in Rule : Grammar[q].lhs = c[2]}} : c \in nearer}

\* f is corners up to k.
Corners(f, k) == \A n \in 0 .. k : f[n] = IF n = 0 THEN Nearest ELSE Further(f[n - 1])

LEMMA CornersExist ==
    ASSUME NEW k \in Nat
    PROVE  \E f : Corners(f, k)
<1>. DEFINE T == {n \in Nat : ~ \E f : Corners(f, n)}
<1>1. SUFFICES ASSUME T # {}
      PROVE  FALSE
  OBVIOUS
<1>2. PICK n \in T : \A y \in T : n <= y
  <2>1. T \subseteq Nat
    OBVIOUS
  <2>. HIDE DEF T
  <2>. QED
    BY <1>1, <2>1, Least
<1>3. CASE n = 0
  <2>. DEFINE f == [m \in {0} |-> Nearest]
  <2>1. Corners(f, 0)
    BY DEF Corners
  <2>. QED
    BY <1>2, <1>3, <2>1
<1>4. CASE n # 0
  <2>1. n - 1 \in Nat /\ n \in Nat /\ n - 1 \notin T
    BY <1>2, <1>4
  <2>2. PICK g : Corners(g, n - 1)
    BY <2>1
  <2>. DEFINE f == [m \in 0 .. n |-> IF m = n THEN Further(g[n - 1]) ELSE g[m]]
  <2>3. ASSUME NEW m \in 0 .. n
        PROVE  f[m] = IF m = 0 THEN Nearest ELSE Further(f[m - 1])
    <3>1. CASE m = n
      <4>1. f[m] = Further(g[n - 1]) /\ f[m - 1] = g[n - 1] /\ m # 0
        BY <2>1, <3>1, <1>4
      <4>. QED
        BY <4>1
    <3>2. CASE m # n
      <4>1. m \in 0 .. n - 1 /\ f[m] = g[m] /\ (m # 0 => f[m - 1] = g[m - 1])
        BY <2>1, <3>2
      <4>. QED
        BY <4>1, <2>2 DEF Corners
    <3>. QED
      BY <3>1, <3>2
  <2>4. Corners(f, n)
    <3>. HIDE DEF f
    <3>. QED
      BY <2>3 DEF Corners
  <2>. QED
    BY <1>2, <2>4
<1>. QED
  BY <1>3, <1>4

LEMMA CornersAgree ==
    ASSUME NEW k \in Nat, NEW m \in Nat, NEW f, NEW g, Corners(f, k), Corners(g, m)
    PROVE  \A n \in Nat : n <= k /\ n <= m => f[n] = g[n]
<1>. DEFINE T == {n \in Nat : n <= k /\ n <= m /\ f[n] # g[n]}
<1>1. SUFFICES ASSUME T # {}
      PROVE  FALSE
  OBVIOUS
<1>2. PICK n \in T : \A y \in T : n <= y
  <2>1. T \subseteq Nat
    OBVIOUS
  <2>. HIDE DEF T
  <2>. QED
    BY <1>1, <2>1, Least
<1>3. n \in 0 .. k /\ n \in 0 .. m /\ f[n] # g[n]
  BY <1>2
<1>4. n # 0
  BY <1>3 DEF Corners
<1>5. n - 1 \in Nat /\ n - 1 \notin T /\ n - 1 <= k /\ n - 1 <= m
  BY <1>2, <1>3, <1>4
<1>6. f[n - 1] = g[n - 1]
  BY <1>5
<1>. QED
  BY <1>3, <1>4, <1>6 DEF Corners

LEMMA CornersUnfold ==
    ASSUME NEW k \in Nat
    PROVE  corners[k] = IF k = 0 THEN Nearest ELSE Further(corners[k - 1])
<1>. DEFINE pick(n) == CHOOSE f : Corners(f, n)
            F == [n \in Nat |-> pick(n)[n]]
            Body(f) == [n \in Nat |-> IF n = 0 THEN Nearest ELSE Further(f[n - 1])]
<1>1. \A n \in Nat : Corners(pick(n), n)
  BY CornersExist
<1>2. ASSUME NEW n \in Nat
      PROVE  F[n] = IF n = 0 THEN Nearest ELSE Further(F[n - 1])
  <2>1. pick(n)[n] = IF n = 0 THEN Nearest ELSE Further(pick(n)[n - 1])
    <3>. HIDE DEF pick
    <3>. QED
      BY <1>1 DEF Corners
  <2>2. n # 0 => n - 1 \in Nat /\ pick(n)[n - 1] = pick(n - 1)[n - 1]
    <3>1. n # 0 => n - 1 \in Nat /\ n - 1 <= n
      OBVIOUS
    <3>. HIDE DEF pick
    <3>. QED
      BY <3>1, <1>1, CornersAgree
  <2>. HIDE DEF pick
  <2>. QED
    BY <2>1, <2>2
<1>3. F = Body(F)
  <2>. HIDE DEF pick
  <2>. QED
    BY <1>2
<1>4. corners = CHOOSE f : f = Body(f)
  BY DEF corners, Nearest, Further
<1>5. corners = Body(corners)
  <2>. HIDE DEF F, Body
  <2>. QED
    BY Zenon, <1>3, <1>4
<1>. QED
  BY <1>5

LEMMA NonterminalsAreFinite == Cardinality(Nonterminal) \in Nat
<1>. DEFINE symbols == << "const_value", "expr", "arg", "statement", "instruction", "const_definition", "function",
                          "block", "statements", "def_args", "call_args", "top_level", "parse", "accept", "reftype" >>
            S == NodeSymbol \cup ListSymbol \cup {"accept", "reftype"}
<1>1. symbols \in Seq(S) /\ Len(symbols) = 15
  BY DEF NodeSymbol, ListSymbol
<1>2. \A X \in S : \E n \in 1 .. 15 : symbols[n] = X
  BY DEF NodeSymbol, ListSymbol
<1>3. IsFiniteSet(S)
  BY <1>1, <1>2 DEF IsFiniteSet
<1>4. Nonterminal \subseteq S
  BY OutermostRules DEF Nonterminal
<1>. QED
  BY <1>3, <1>4, FS_Subset, FS_CardinalityType

\* No other text than the whole begins with the whole.
LEMMA OutermostCorners ==
    ASSUME NEW k \in Nat, NEW c \in corners[k], c[2] \in {"accept", "parse"}
    PROVE  c[1] \in {"accept", "parse"} /\ (c[2] = "accept" => c[1] = "accept")
<1>. DEFINE Fails(d) == d[2] \in {"accept", "parse"}
                        /\ ~ (d[1] \in {"accept", "parse"} /\ (d[2] = "accept" => d[1] = "accept"))
            T == {n \in Nat : \E d \in corners[n] : Fails(d)}
<1>1. SUFFICES ASSUME T # {}
      PROVE  FALSE
  OBVIOUS
<1>2. PICK n \in T : \A y \in T : n <= y
  <2>1. T \subseteq Nat
    OBVIOUS
  <2>. HIDE DEF T
  <2>. QED
    BY <1>1, <2>1, Least
<1>3. PICK d \in corners[n] : Fails(d)
  OBVIOUS
<1>4. n # 0
  <2>1. SUFFICES ASSUME n = 0
        PROVE  FALSE
    OBVIOUS
  <2>2. d \in Nearest
    BY <1>2, <1>3, <2>1, CornersUnfold
  <2>. QED
    BY <1>3, <2>2 DEF Nearest
<1>5. n - 1 \in Nat /\ n - 1 \notin T
  BY <1>2, <1>4
<1>6. d \in Further(corners[n - 1])
  BY <1>2, <1>3, <1>4, CornersUnfold
<1>7. d \notin corners[n - 1]
  BY <1>3, <1>5
<1>8. PICK e \in corners[n - 1], r \in Rule : Grammar[r].lhs = e[2] /\ d = << e[1], Grammar[r].rhs[1] >>
  BY <1>6, <1>7 DEF Further
<1>9. d[1] = e[1] /\ d[2] = Grammar[r].rhs[1]
  BY <1>8
<1>10. r = "accept" /\ d[2] = "parse"
  BY <1>3, <1>9, OutermostRules
<1>11. e[2] = "accept"
  BY <1>8, <1>10, GrammarRules DEF rule
<1>12. ~ Fails(e)
  BY <1>5, <1>8
<1>. QED
  BY <1>3, <1>9, <1>10, <1>11, <1>12

-------------------------------------------------------------------------------
(***************************************************************************)
(* The tree is whole when it is returned: its list is all that is on the   *)
(* stack, right above the bottom.                                          *)
(***************************************************************************)

Outermost(s, k) ==
    /\ s[k].symbol # "EOF"
    /\ \A i \in s[k].kernel :
         /\ i.dot = 0 => k = 1
         /\ i.rule \in {"accept", "parse"} /\ i.dot = 1 => k = 2

LEMMA PushOutermost ==
    ASSUME NEW S, NEW s \in Seq(S), s # << >>, \A k \in 1 .. Len(s) : Agrees(s, k) /\ Outermost(s, k),
           NEW X, X # "EOF", NEW e, e.symbol = X, e.kernel = goto(s[Len(s)].kernel, X),
           NEW t, Len(t) = Len(s) + 1, t[Len(s) + 1] = e
    PROVE  Outermost(t, Len(s) + 1)
<1>. DEFINE m == Len(s)
            kernel == s[m].kernel
<1>1. m \in Nat \ {0} /\ Agrees(s, m) /\ Outermost(s, m)
  OBVIOUS
<1>2. ASSUME NEW i \in goto(kernel, X)
      PROVE  (i.dot = 0 => m + 1 = 1) /\ (i.rule \in {"accept", "parse"} /\ i.dot = 1 => m + 1 = 2)
  <2>1. PICK j \in closure(kernel) : i = item(j.rule, j.dot + 1)
    BY DEF goto
  <2>2. CASE j \in kernel
    <3>2. j.rule \in Rule /\ j.dot \in 0 .. Len(Grammar[j.rule].rhs)
      BY <1>1, <2>2 DEF Agrees
    <3>1. j.dot \in Nat /\ (j.dot = 0 => m = 1)
      BY <1>1, <2>2, <3>2, RulesHaveSymbols DEF Outermost
    <3>. QED
      BY <2>1, <3>1 DEF item
  <2>3. CASE j \notin kernel
    <3>1. PICK p \in kernel : /\ ~ Complete(p)
                              /\ Expected(p) \in Nonterminal
                              /\ \E r \in Begins[Expected(p)] : j = item(r, 0)
      BY <2>1, <2>3 DEF closure
    <3>2. PICK r \in Begins[Expected(p)] : j = item(r, 0)
      BY <3>1
    <3>3. r \in Rule /\ << Expected(p), Grammar[r].lhs >> \in corners[Cardinality(Nonterminal)]
      BY <3>1, <3>2 DEF Begins
    <3>4. i.rule = r /\ i.dot = 1
      BY <2>1, <3>2 DEF item
    <3>5. ASSUME r \in {"accept", "parse"}
          PROVE  m = 1
      <4>1. Grammar[r].lhs = r
        <5>1. r = "accept" => Grammar[r] = rule("accept", << "parse", "EOF" >>)
          BY GrammarRules
        <5>2. r = "parse" => Grammar[r] = rule("parse", << "top_level" >>)
          BY GrammarRules
        <5>. QED
          BY <3>5, <5>1, <5>2 DEF rule
      <4>2. Expected(p) \in {"accept", "parse"}
        BY <3>3, <3>5, <4>1, NonterminalsAreFinite, OutermostCorners
      <4>3. p.rule \in Rule /\ p.dot \in 0 .. Len(Grammar[p.rule].rhs) /\ Len(Grammar[p.rule].rhs) \in Nat
        BY <1>1, <3>1, RulesHaveSymbols DEF Agrees
      <4>4. p.dot = 0
        <5>1. p.dot # 0 => p.dot + 1 \in 2 .. Len(Grammar[p.rule].rhs)
          BY <3>1, <4>3 DEF Complete
        <5>. QED
          BY <4>2, <4>3, <5>1, OutermostRules DEF Expected
      <4>. QED
        BY <1>1, <3>1, <4>4 DEF Outermost
    <3>. QED
      BY <3>4, <3>5
  <2>. QED
    BY <2>2, <2>3
<1>. QED
  BY <1>2 DEF Outermost

\* bison accepts when nothing else is left.
LEMMA AcceptsTheWhole ==
    ASSUME NEW S, NEW s \in Seq(S), s # << >>, \A k \in 1 .. Len(s) : Agrees(s, k) /\ Outermost(s, k),
           goto(s[Len(s)].kernel, "EOF") # {}
    PROVE  Len(s) = 2 /\ s[2].symbol = "parse"
<1>. DEFINE m == Len(s)
            kernel == s[m].kernel
<1>1. m \in Nat \ {0} /\ Agrees(s, m) /\ Outermost(s, m)
  OBVIOUS
<1>2. PICK j \in closure(kernel) : ~ Complete(j) /\ Expected(j) = "EOF"
  BY DEF goto
<1>3. j \in kernel \/ \E r \in Rule : j = item(r, 0)
  BY DEF closure, Begins
<1>4. j.rule \in Rule /\ j.dot \in 0 .. Len(Grammar[j.rule].rhs) /\ Len(Grammar[j.rule].rhs) \in Nat
  BY <1>1, <1>3, RulesHaveSymbols DEF Agrees, item
<1>5. j.rule = "accept" /\ j.dot = 1
  <2>1. j.dot + 1 \in 1 .. Len(Grammar[j.rule].rhs)
    BY <1>2, <1>4 DEF Complete
  <2>2. j.dot = 0 => FALSE
    BY <1>2, <1>4, OutermostRules DEF Expected
  <2>. QED
    BY <1>2, <1>4, <2>1, <2>2, OutermostRules DEF Expected
<1>6. j \in kernel
  BY <1>3, <1>5 DEF item
<1>7. m = 2
  BY <1>1, <1>5, <1>6 DEF Outermost
<1>8. s[m - 1 + 1].symbol = Grammar["accept"].rhs[1]
  BY <1>1, <1>5, <1>6 DEF Agrees
<1>9. Grammar["accept"].rhs[1] = "parse"
  BY GrammarRules DEF rule
<1>. QED
  BY <1>7, <1>8, <1>9

-------------------------------------------------------------------------------
(* The inductive invariant. *)

\* What the calls count and keep apart.
CallsInv ==
    /\ phase \in {"idle", "parsing", "exited"}
    /\ FilesClosedOnce
    /\ session \in Seq(File)
    /\ current_file = NoFile \/ \E i \in DOMAIN session : current_file = << session[i] >>
    /\ Len(returned) <= Len(session)
    /\ phase = "parsing" => Len(returned) < Len(session)

TokenInv ==
    /\ lookahead.kind \in Terminal \cup {"none", "EOF"}
    /\ lookahead.kind = "none" => lookahead = NoToken
    /\ lookahead.kind = "IDENTIFIER" => lookahead.name \in Name
    /\ lookahead.kind = "TYPE" => lookahead.type \in RefType

NodesInv ==
    /\ Sound(nodes)
    /\ parsed_ast \in Seq(Of(nodes, TopLevel))
    /\ \E S : lines \in Seq(S)
    /\ Len(lines) = Len(nodes)

StackInv ==
    /\ \E S : stack \in Seq(S)
    /\ stack # << >>
    /\ \A k \in 1 .. Len(stack) : Agrees(stack, k) /\ Fits(stack[k].symbol, stack[k].value, nodes)

ResultsInv ==
    /\ \E S : returned \in Seq(S)
    /\ ParsedIsAst

\* The end of a file leaves nothing behind it.
BufferInv ==
    /\ pending \in BOOLEAN
    /\ lookahead.kind = "EOF" => buffer = << >> /\ ~ pending
    /\ LeftoversOnlyAfterFailure

\* Nothing that was made is lost, or used twice.
TreeInv ==
    /\ \E first, b : Tiled(first, nodes) /\ Cut(first, b, stack, nodes)
    /\ \A k \in 1 .. Len(stack) : Outermost(stack, k)
    /\ stack[1].symbol = "accept"
    /\ Len(stack) > 1 /\ stack[2].symbol = "parse" => parsed_ast = stack[2].value

IInv == CallsInv /\ TokenInv /\ NodesInv /\ StackInv /\ TreeInv /\ ResultsInv /\ BufferInv

LEMMA BottomIsSound ==
    ASSUME NEW ns
    PROVE  Agrees(<< Bottom >>, 1) /\ Fits(Bottom.symbol, Bottom.value, ns)
<1>1. "accept" \in Rule /\ Len(Grammar["accept"].rhs) \in Nat
  <2>1. "accept" \in Rule
    BY DEF Rule, Grammar, Alternative
  <2>. QED
    BY <2>1, RulesHaveSymbols
<1>2. Agrees(<< Bottom >>, 1)
  BY <1>1 DEF Agrees, Bottom, Entry, item
<1>. QED
  BY <1>2 DEF Fits, Bottom, Entry, NodeSymbol

LEMMA NothingIsSound == Sound(<< >>)
  BY DEF Sound

LEMMA BottomIsOutermost ==
    /\ Outermost(<< Bottom >>, 1)
    /\ << Bottom >>[1].symbol = "accept"
    /\ \E first, b : Tiled(first, << >>) /\ Cut(first, b, << Bottom >>, << >>)
<1>1. Bottom.symbol = "accept" /\ Bottom.kernel = {item("accept", 0)} /\ << Bottom >>[1] = Bottom /\ Len(<< Bottom >>) = 1
  BY DEF Bottom, Entry
<1>2. Outermost(<< Bottom >>, 1)
  BY <1>1 DEF Outermost, item
<1>. DEFINE b == [k \in 0 .. 1 |-> 0]
<1>3. b[0] = 0 /\ b[1] = 0 /\ Len(<< >>) = 0
  OBVIOUS
<1>. HIDE DEF b
<1>4. Cut(<< >>, b, << Bottom >>, << >>)
  BY <1>1, <1>3 DEF Cut, Carries, NodeSymbol, ListSymbol
<1>5. Tiled(<< >>, << >>)
  BY <1>3 DEF Tiled
<1>. QED
  BY <1>1, <1>2, <1>4, <1>5

\* Sound nodes and a list of top-level nodes are an Ast.
LEMMA SoundIsAst ==
    ASSUME NEW tree, Sound(tree.nodes), tree.top \in Seq(Of(tree.nodes, TopLevel)), InPostOrder(tree)
    PROVE  IsAst(tree)
<1>1. DOMAIN tree.nodes = 1 .. Len(tree.nodes)
  BY DEF Sound
<1>2. tree.top \in Seq({n \in 1 .. Len(tree.nodes) : tree.nodes[n].kind \in TopLevel})
  BY DEF Of
<1>. QED
  BY Zenon, <1>1, <1>2 DEF IsAst, Sound

\* A call that ends adds its result; only the last one can be a tree that is not an Ast.
LEMMA EndKeepsResults ==
    ASSUME ResultsInv, NEW outcome, NEW file, NEW line, ends(outcome, file, line),
           outcome = "tree" => /\ Sound(nodes)
                               /\ parsed_ast \in Seq(Of(nodes, TopLevel))
                               /\ InPostOrder([nodes |-> nodes, top |-> parsed_ast])
    PROVE  ResultsInv' /\ Len(returned') = Len(returned) + 1
<1>. DEFINE result == [outcome |-> outcome, file |-> file, line |-> line,
                       ast |-> [nodes |-> nodes, top |-> parsed_ast], lines |-> lines]
<1>1. PICK S : returned \in Seq(S)
  BY DEF ResultsInv
<1>2. returned' = Append(returned, result)
  BY DEF ends
<1>. HIDE DEF result
<1>3. returned' \in Seq(S \cup {result})
  BY <1>1, <1>2
<1>4. result.outcome = "tree" => IsAst(result.ast)
  <2>1. result.outcome = outcome /\ result.ast = [nodes |-> nodes, top |-> parsed_ast]
    BY DEF result
  <2>2. result.ast.nodes = nodes /\ result.ast.top = parsed_ast
    BY <2>1
  <2>. QED
    BY <2>1, <2>2, SoundIsAst
<1>5. /\ Len(returned') = Len(returned) + 1
      /\ DOMAIN returned' = DOMAIN returned \cup {Len(returned) + 1}
      /\ returned'[Len(returned) + 1] = result
      /\ \A i \in DOMAIN returned : returned'[i] = returned[i]
  BY <1>1, <1>2
<1>6. ParsedIsAst'
  BY <1>4, <1>5 DEF ParsedIsAst, ResultsInv
<1>. QED
  BY <1>3, <1>5, <1>6 DEF ResultsInv

\* No exception before the next call, if none was thrown by this one either.
LEMMA EndKeepsClean ==
    ASSUME ResultsInv, NEW outcome, NEW file, NEW line, ends(outcome, file, line),
           Clean(Len(returned) + 1)'
    PROVE  Clean(Len(returned) + 1) /\ outcome # "exception"
<1>. DEFINE result == [outcome |-> outcome, file |-> file, line |-> line,
                       ast |-> [nodes |-> nodes, top |-> parsed_ast], lines |-> lines]
<1>1. PICK S : returned \in Seq(S)
  BY DEF ResultsInv
<1>2. returned' = Append(returned, result)
  BY DEF ends
<1>3. result.outcome = outcome
  OBVIOUS
<1>. HIDE DEF result
<1>4. /\ Len(returned') = Len(returned) + 1 /\ Len(returned) \in Nat
      /\ returned'[Len(returned) + 1] = result
      /\ \A i \in 1 .. Len(returned) : returned'[i] = returned[i]
  BY <1>1, <1>2
<1>5. \A j \in 1 .. Len(returned) + 1 : returned'[j].outcome # "exception"
  BY <1>4 DEF Clean
<1>. QED
  BY <1>3, <1>4, <1>5 DEF Clean

LEMMA InitEstablishes == Init => IInv
<1>. SUFFICES ASSUME Init PROVE IInv
  OBVIOUS
<1>1. CallsInv
  BY ContentIsContent DEF Init, CallsInv, FilesClosedOnce, NoFile
<1>2. TokenInv
  BY DEF Init, TokenInv, NoToken
<1>3. NodesInv
  <2>1. << >> \in Seq(Of(<< >>, TopLevel)) /\ << >> \in Seq({}) /\ Len(<< >>) = 0
    OBVIOUS
  <2>. QED
    BY <2>1, NothingIsSound DEF Init, NodesInv
<1>4. StackInv
  <2>1. << Bottom >> \in Seq({Bottom}) /\ Len(<< Bottom >>) = 1 /\ << Bottom >>[1] = Bottom
    OBVIOUS
  <2>2. stack = << Bottom >> /\ stack # << >>
    BY DEF Init
  <2>3. \A k \in 1 .. Len(stack) : Agrees(stack, k) /\ Fits(stack[k].symbol, stack[k].value, nodes)
    BY <2>1, <2>2, BottomIsSound
  <2>. QED
    BY <2>1, <2>2, <2>3 DEF StackInv
<1>5. ResultsInv
  <2>1. << >> \in Seq({})
    OBVIOUS
  <2>. QED
    BY <2>1 DEF Init, ResultsInv, ParsedIsAst
<1>6. BufferInv
  BY DEF Init, BufferInv, LeftoversOnlyAfterFailure, NoToken
<1>7. TreeInv
  <2>1. Len(<< Bottom >>) = 1 /\ stack = << Bottom >> /\ nodes = << >>
    BY DEF Init
  <2>. QED
    BY <2>1, BottomIsOutermost DEF TreeInv
<1>. QED
  BY <1>1, <1>2, <1>3, <1>4, <1>5, <1>6, <1>7 DEF IInv

\* How many entries a reduction leaves, and the values of those it takes.
Depth(r) == Len(stack) - Len(Grammar[r].rhs)

Values(r) == [j \in DOMAIN Grammar[r].rhs |-> stack[Depth(r) + j].value]

LEMMA ReduceFacts ==
    ASSUME IInv, NEW r \in Reducible, reduce(r)
    PROVE  /\ r \in Rule
           /\ Len(Grammar[r].rhs) \in Nat /\ DOMAIN Grammar[r].rhs = 1 .. Len(Grammar[r].rhs)
           /\ Depth(r) \in 1 .. Len(stack)
           /\ \A j \in DOMAIN Grammar[r].rhs : /\ stack[Depth(r) + j].symbol = Grammar[r].rhs[j]
                                               /\ Fits(Grammar[r].rhs[j], Values(r)[j], nodes)
           /\ \E S : SubSeq(stack, 1, Depth(r)) \in Seq(S)
           /\ SubSeq(stack, 1, Depth(r)) # << >>
           /\ Len(SubSeq(stack, 1, Depth(r))) = Depth(r)
           /\ \A k \in 1 .. Depth(r) : /\ SubSeq(stack, 1, Depth(r))[k] = stack[k]
                                       /\ Agrees(SubSeq(stack, 1, Depth(r)), k)
           /\ \E S : stack' \in Seq(S)
           /\ stack' # << >>
           /\ Len(stack') = Depth(r) + 1
           /\ stack'[Depth(r) + 1].symbol = Grammar[r].lhs
           /\ stack'[Depth(r) + 1].value = yyval(r, Values(r))
           /\ stack'[Depth(r) + 1].kernel = goto(stack[Depth(r)].kernel, Grammar[r].lhs)
           /\ \A k \in 1 .. Depth(r) : stack'[k] = stack[k]
           /\ \A k \in 1 .. Len(stack') : Agrees(stack', k)
<1>. DEFINE rhs   == Grammar[r].rhs
            lhs   == Grammar[r].lhs
            depth == Depth(r)
            v     == Values(r)
            line  == stack[depth + 1].line
            base  == SubSeq(stack, 1, depth)
            top   == Entry(lhs, goto(stack[depth].kernel, lhs), yyval(r, v), line)
<1>1. PICK S : stack \in Seq(S)
  BY DEF IInv, StackInv
<1>2. /\ r \in Rule
      /\ Len(rhs) \in Nat /\ DOMAIN rhs = 1 .. Len(rhs)
      /\ depth \in 1 .. Len(stack)
      /\ \A j \in DOMAIN rhs : stack[depth + j].symbol = rhs[j]
  <2>1. PICK i \in Top.kernel : i.rule = r /\ i.dot = Len(rhs)
    BY DEF Reducible, Complete
  <2>2. Agrees(stack, Len(stack)) /\ Len(stack) \in Nat \ {0}
    BY <1>1 DEF IInv, StackInv
  <2>3. r \in Rule /\ Len(rhs) < Len(stack)
        /\ \A j \in 1 .. Len(rhs) : stack[Len(stack) - Len(rhs) + j].symbol = rhs[j]
    BY <2>1, <2>2 DEF Agrees, Top
  <2>4. Len(rhs) \in Nat /\ DOMAIN rhs = 1 .. Len(rhs)
    BY <2>3, RulesHaveSymbols
  <2>5. depth \in 1 .. Len(stack)
    BY <2>2, <2>3, <2>4 DEF Depth
  <2>. QED
    BY <2>3, <2>4, <2>5 DEF Depth
<1>3. \A j \in DOMAIN rhs : Fits(rhs[j], v[j], nodes)
  <2>1. ASSUME NEW j \in DOMAIN rhs
        PROVE  Fits(rhs[j], v[j], nodes)
    <3>1. depth + j \in 1 .. Len(stack) /\ v[j] = stack[depth + j].value
      BY <1>1, <1>2 DEF Depth, Values
    <3>. QED
      BY <3>1, <1>2 DEF IInv, StackInv
  <2>. QED
    BY <2>1
<1>4. /\ base \in Seq(S) /\ base # << >> /\ Len(base) = depth
      /\ \A k \in 1 .. depth : base[k] = stack[k]
  BY <1>1, <1>2, PrefixFacts
<1>5. stack' = Append(base, top)
  BY DEF reduce, Depth, Values
<1>. HIDE DEF v, base, line
<1>9. \A k \in 1 .. Len(base) : Agrees(base, k)
  <2>1. ASSUME NEW k \in 1 .. depth, NEW i \in stack[k].kernel, NEW j \in 1 .. i.dot, i.dot \in Nat, i.dot < k
        PROVE  base[k - i.dot + j] = stack[k - i.dot + j]
    <3>2. depth \in Nat
      BY <1>1, <1>2
    <3>1. k - i.dot + j \in 1 .. depth
      <4>. HIDE DEF depth
      <4>. QED
        BY <3>2, <2>1, BelowTheDot
    <3>. QED
      BY <3>1, <1>4
  <2>2. \A k \in 1 .. depth : Agrees(stack, k) /\ base[k] = stack[k]
    BY <1>1, <1>2, <1>4 DEF IInv, StackInv
  <2>3. ASSUME NEW k \in 1 .. depth
        PROVE  Agrees(base, k)
    <3>1. ASSUME NEW i \in base[k].kernel
          PROVE  /\ i.rule \in Rule
                 /\ i.dot \in 0 .. Len(Grammar[i.rule].rhs)
                 /\ i.dot < k
                 /\ \A j \in 1 .. i.dot : base[k - i.dot + j].symbol = Grammar[i.rule].rhs[j]
      <4>1. i \in stack[k].kernel
        BY <2>2, <3>1
      <4>2. /\ i.rule \in Rule
            /\ i.dot \in 0 .. Len(Grammar[i.rule].rhs)
            /\ i.dot < k
            /\ \A j \in 1 .. i.dot : stack[k - i.dot + j].symbol = Grammar[i.rule].rhs[j]
        BY <2>2, <4>1 DEF Agrees
      <4>3. i.dot \in Nat
        BY <4>2, RulesHaveSymbols
      <4>. QED
        BY <2>1, <4>1, <4>2, <4>3
    <3>. QED
      BY <3>1 DEF Agrees
  <2>. QED
    BY <2>3, <1>4
<1>6. \A k \in 1 .. Len(stack') : Agrees(stack', k)
  <2>2. top = Entry(lhs, goto(base[Len(base)].kernel, lhs), yyval(r, v), line)
    <3>1. base[Len(base)] = stack[depth]
      <4>. HIDE DEF depth
      <4>. QED
        BY <1>2, <1>4
    <3>. QED
      BY <3>1
  <2>. HIDE DEF top
  <2>. QED
    BY <1>9, <2>2, <1>4, <1>5, PushAgrees
<1>7. /\ Len(stack') = depth + 1
      /\ stack'[depth + 1] = top
      /\ \A k \in 1 .. depth : stack'[k] = stack[k]
      /\ stack' \in Seq(S \cup {top})
      /\ stack' # << >>
  <2>. HIDE DEF top, depth
  <2>1. /\ Append(base, top) \in Seq(S \cup {top})
        /\ Append(base, top) # << >>
        /\ Len(Append(base, top)) = Len(base) + 1
        /\ Append(base, top)[Len(base) + 1] = top
        /\ \A k \in 1 .. Len(base) : Append(base, top)[k] = base[k]
    BY <1>4, AppendFacts
  <2>. QED
    BY <2>1, <1>4, <1>5
<1>8. top.symbol = lhs /\ top.value = yyval(r, v) /\ top.kernel = goto(stack[depth].kernel, lhs)
  BY DEF Entry
<1>. HIDE DEF top
<1>10. \A j \in DOMAIN rhs : stack[depth + j].symbol = rhs[j] /\ Fits(rhs[j], v[j], nodes)
  BY <1>2, <1>3
<1>11. \A k \in 1 .. depth : base[k] = stack[k] /\ Agrees(base, k)
  BY <1>4, <1>9
<1>12. stack'[depth + 1].symbol = lhs /\ stack'[depth + 1].value = yyval(r, v)
       /\ stack'[depth + 1].kernel = goto(stack[depth].kernel, lhs)
  BY <1>7, <1>8
<1>. QED
  BY <1>2, <1>4, <1>6, <1>7, <1>10, <1>11, <1>12 DEF base, v

LEMMA ReduceKeeps ==
    ASSUME IInv, NEW r \in Reducible, reduce(r)
    PROVE  NodesInv' /\ StackInv'
<1>. DEFINE lhs   == Grammar[r].lhs
            depth == Depth(r)
            v     == Values(r)
            line  == stack[depth + 1].line
<1>1. /\ r \in Rule
      /\ depth \in 1 .. Len(stack) /\ Len(stack) \in Nat
      /\ \A j \in DOMAIN Grammar[r].rhs : Fits(Grammar[r].rhs[j], v[j], nodes)
      /\ \E S : stack' \in Seq(S)
      /\ stack' # << >>
      /\ Len(stack') = depth + 1
      /\ stack'[depth + 1].symbol = lhs
      /\ stack'[depth + 1].value = yyval(r, v)
      /\ \A k \in 1 .. depth : stack'[k] = stack[k]
      /\ \A k \in 1 .. Len(stack') : Agrees(stack', k)
  <2>1. Len(stack) \in Nat
    BY DEF IInv, StackInv
  <2>. QED
    BY <2>1, ReduceFacts
<1>. HIDE DEF lhs, depth, v, line
<1>2. ASSUME Fits(lhs, yyval(r, v), nodes'),
             \A X, w : Fits(X, w, nodes) => Fits(X, w, nodes')
      PROVE  StackInv'
  <2>1. ASSUME NEW k \in 1 .. Len(stack')
        PROVE  Fits(stack'[k].symbol, stack'[k].value, nodes')
    <3>1. CASE k = depth + 1
      BY <3>1, <1>1, <1>2
    <3>2. CASE k # depth + 1
      <4>1. k \in 1 .. depth /\ k \in 1 .. Len(stack)
        BY <3>2, <2>1, <1>1
      <4>. QED
        BY <4>1, <1>1, <1>2 DEF IInv, StackInv
    <3>. QED
      BY <3>1, <3>2
  <2>. QED
    BY <1>1, <2>1 DEF StackInv
<1>3. CASE r \in NodeRule
  <2>. DEFINE node == node_of(r, v)
  <2>1. nodes' = Append(nodes, node) /\ lines' = Append(lines, line) /\ parsed_ast' = parsed_ast
    <3>1. r # "parse"
      BY <1>3 DEF NodeRule, BinaryToken, LiteralToken
    <3>. QED
      BY <1>3, <3>1 DEF reduce, v, line, depth, Depth, Values
  <2>2. Made(node, lhs, nodes)
    BY <1>1, <1>3, ActionsMakeLegalNodes DEF lhs
  <2>. HIDE DEF node
  <2>3. Sound(nodes') /\ nodes \in Seq(AstNode)
    <3>1. Sound(nodes) /\ nodes \in Seq(AstNode)
      BY DEF IInv, NodesInv, Sound
    <3>. QED
      BY <2>1, <2>2, <3>1, SoundStays DEF Made
  <2>4. Fits(lhs, yyval(r, v), nodes')
    <3>1. Len(nodes) + 1 \in Of(nodes', Makes(lhs))
      BY <2>1, <2>2, <2>3, OfGrows DEF Made
    <3>. QED
      BY <3>1, <2>2, <1>3 DEF Made, Fits, NodeSymbol, yyval
  <2>5. \A X, w : Fits(X, w, nodes) => Fits(X, w, nodes')
    BY <2>1, <2>3, FitsStays
  <2>6. parsed_ast' \in Seq(Of(nodes', TopLevel))
    BY <2>1, <2>3, OfGrows, SeqGrows DEF IInv, NodesInv
  <2>7. PICK L : lines \in Seq(L)
    BY DEF IInv, NodesInv
  <2>8. lines' \in Seq(L \cup {line}) /\ Len(lines') = Len(nodes')
    BY <2>1, <2>3, <2>7 DEF IInv, NodesInv
  <2>. QED
    BY <1>2, <2>3, <2>4, <2>5, <2>6, <2>8 DEF NodesInv
<1>4. CASE r \notin NodeRule
  <2>1. nodes' = nodes /\ lines' = lines
    BY <1>4 DEF reduce
  <2>2. Fits(lhs, passed_on(r, v), nodes)
    BY <1>1, <1>4, ActionsPassOn DEF IInv, NodesInv, Sound, lhs
  <2>3. parsed_ast' \in Seq(Of(nodes, TopLevel))
    <3>1. CASE r = "parse"
      <4>1. lhs = "parse" /\ passed_on(r, v) = v[1] /\ parsed_ast' = v[1]
        BY <3>1, GrammarRules DEF reduce, v, Values, Depth, lhs, passed_on, rule
      <4>. QED
        BY <4>1, <2>2 DEF Fits
    <3>2. CASE r # "parse"
      BY <3>2 DEF reduce, IInv, NodesInv
    <3>. QED
      BY <3>1, <3>2
  <2>. QED
    BY <1>2, <1>4, <2>1, <2>2, <2>3 DEF NodesInv, IInv, yyval
<1>. QED
  BY <1>3, <1>4

\* A reduction keeps the tree whole.
LEMMA ReduceKeepsTree ==
    ASSUME IInv, NEW r \in Reducible, reduce(r)
    PROVE  TreeInv'
<1>. DEFINE lhs   == Grammar[r].lhs
            rhs   == Grammar[r].rhs
            depth == Depth(r)
            v     == Values(r)
<1>1. /\ r \in Rule
      /\ Len(rhs) \in Nat /\ DOMAIN rhs = 1 .. Len(rhs)
      /\ depth \in 1 .. Len(stack) /\ Len(stack) \in Nat /\ depth + Len(rhs) = Len(stack)
      /\ \A j \in DOMAIN rhs : stack[depth + j].symbol = rhs[j] /\ Fits(rhs[j], v[j], nodes)
  <2>1. Len(stack) \in Nat
    BY DEF IInv, StackInv
  <2>2. Len(rhs) \in Nat
    BY ReduceFacts
  <2>3. depth + Len(rhs) = Len(stack)
    BY <2>1, <2>2 DEF Depth
  <2>. QED
    BY <2>1, <2>3, ReduceFacts
<1>2. /\ \E S : stack' \in Seq(S)
      /\ Len(stack') = depth + 1
      /\ stack'[depth + 1].symbol = lhs
      /\ stack'[depth + 1].value = yyval(r, v)
      /\ stack'[depth + 1].kernel = goto(stack[depth].kernel, lhs)
      /\ \A k \in 1 .. depth : stack'[k] = stack[k]
  BY ReduceFacts
<1>3. \A j \in DOMAIN rhs : v[j] = stack[depth + j].value
  BY DEF Values
<1>. HIDE DEF depth, v
<1>4. r # "accept"
  <2>1. SUFFICES ASSUME r = "accept"
        PROVE  FALSE
    OBVIOUS
  <2>2. 2 \in DOMAIN rhs /\ rhs[2] = "EOF"
    BY <2>1, GrammarRules DEF rule
  <2>3. depth + 2 \in 1 .. Len(stack) /\ stack[depth + 2].symbol = "EOF"
    BY <1>1, <2>2
  <2>. QED
    BY <2>3 DEF IInv, TreeInv, Outermost
<1>5. PICK first, b : Tiled(first, nodes) /\ Cut(first, b, stack, nodes)
  BY DEF IInv, TreeInv
<1>. DEFINE c == [j \in 0 .. Len(rhs) |-> b[depth + j]]
<1>6. c[0] = b[depth] /\ c[Len(rhs)] = Len(nodes) /\ b[depth] \in 0 .. Len(nodes)
  <2>1. depth \in 0 .. Len(stack) /\ c[0] = b[depth + 0] /\ c[Len(rhs)] = b[depth + Len(rhs)] /\ depth + 0 = depth
    BY <1>1
  <2>. HIDE DEF c
  <2>2. b[Len(stack)] = Len(nodes) /\ b[depth] \in 0 .. Len(nodes)
    BY <1>5, <2>1 DEF Cut
  <2>. QED
    BY <1>1, <2>1, <2>2
<1>7. \A j \in DOMAIN rhs : Fits(rhs[j], v[j], nodes) /\ Carries(first, rhs[j], v[j], c[j - 1], c[j])
  <2>1. ASSUME NEW j \in DOMAIN rhs
        PROVE  Carries(first, rhs[j], v[j], c[j - 1], c[j])
    <3>1. depth + j \in 1 .. Len(stack) /\ c[j] = b[depth + j] /\ c[j - 1] = b[depth + j - 1]
      BY <1>1
    <3>. HIDE DEF c
    <3>4. (depth + j) - 1 = depth + (j - 1)
      BY <1>1
    <3>2. Carries(first, stack[depth + j].symbol, stack[depth + j].value, b[(depth + j) - 1], b[depth + j])
      BY <1>5, <3>1 DEF Cut
    <3>. QED
      BY <1>1, <1>3, <3>1, <3>2, <3>4
  <2>. QED
    BY <1>1, <2>1
<1>. HIDE DEF c
<1>8. Sound(nodes) /\ nodes \in Seq(AstNode) /\ Len(nodes) \in Nat
  <2>1. Sound(nodes)
    BY DEF IInv, NodesInv
  <2>2. nodes \in Seq(AstNode)
    BY <2>1 DEF Sound
  <2>. QED
    BY <2>1, <2>2
<1>9. /\ depth \in 0 .. Len(stack)
      /\ \E S : stack \in Seq(S)
      /\ \A k \in 1 .. depth : Fits(stack[k].symbol, stack[k].value, nodes)
  BY <1>1 DEF IInv, StackInv
<1>10. \E later, e : Tiled(later, nodes') /\ Cut(later, e, stack', nodes')
  <2>1. CASE r \in NodeRule
    <3>. DEFINE node == node_of(r, v)
    <3>1. nodes' = Append(nodes, node)
      BY <2>1 DEF reduce, v, depth, Depth, Values
    <3>2. Made(node, lhs, nodes)
      BY <1>7, <2>1, ActionsMakeLegalNodes
    <3>3. Spans(first, Children(node), b[depth], Len(nodes))
      BY <1>6, <1>7, <1>8, <2>1, ActionsMakeTiledNodes
    <3>. HIDE DEF node
    <3>4. PICK later : /\ Tiled(later, nodes')
                       /\ later[Len(nodes) + 1] = b[depth] + 1
                       /\ \A n \in 1 .. Len(nodes) : later[n] = first[n]
      <4>1. Legal(node, nodes)
        BY <3>2 DEF Made
      <4>2. /\ Sound(nodes) /\ Tiled(first, nodes)
            /\ b[depth] \in 0 .. Len(nodes)
            /\ Spans(first, Children(node), b[depth], Len(nodes))
        BY <1>5, <1>6, <1>8, <3>3
      <4>3. \E later : /\ Tiled(later, Append(nodes, node))
                       /\ later[Len(nodes) + 1] = b[depth] + 1
                       /\ \A n \in 1 .. Len(nodes) : later[n] = first[n]
        BY <4>1, <4>2, TiledGrows
      <4>. QED
        BY <3>1, <4>3
    <3>5. Len(nodes') = Len(nodes) + 1 /\ Len(nodes') \in Nat /\ Len(nodes) <= Len(nodes')
      BY <1>8, <3>1
    <3>6. \A k \in 1 .. depth : \A a, e : Carries(first, stack[k].symbol, stack[k].value, a, e)
                                           => Carries(later, stack[k].symbol, stack[k].value, a, e)
      BY <1>8, <1>9, <3>4, CarriesStays
    <3>7. Carries(later, stack'[depth + 1].symbol, stack'[depth + 1].value, b[depth], Len(nodes'))
      BY <1>2, <2>1, <3>2, <3>4, <3>5 DEF Carries, Made, NodeSymbol, ListSymbol, yyval
    <3>. QED
      BY <1>2, <1>5, <1>8, <1>9, <3>4, <3>5, <3>6, <3>7, CutGrows
  <2>2. CASE r \notin NodeRule
    <3>1. nodes' = nodes
      BY <2>2 DEF reduce
    <3>2. Carries(first, lhs, passed_on(r, v), b[depth], Len(nodes))
      BY <1>1, <1>4, <1>6, <1>7, <1>8, <2>2, ActionsPassOnTiles
    <3>3. Carries(first, stack'[depth + 1].symbol, stack'[depth + 1].value, b[depth], Len(nodes'))
      BY <1>2, <2>2, <3>1, <3>2 DEF yyval
    <3>4. Len(nodes) <= Len(nodes')
      BY <1>8, <3>1
    <3>. QED
      BY <1>2, <1>5, <1>8, <1>9, <3>1, <3>3, <3>4, CutGrows
  <2>. QED
    BY <2>1, <2>2
<1>11. \A k \in 1 .. Len(stack') : Outermost(stack', k)
  <2>. DEFINE base == SubSeq(stack, 1, depth)
  <2>1. /\ \E S : base \in Seq(S)
        /\ base # << >> /\ Len(base) = depth
        /\ \A k \in 1 .. depth : base[k] = stack[k] /\ Agrees(base, k)
    BY ReduceFacts DEF depth
  <2>. HIDE DEF base
  <2>2. \A k \in 1 .. depth : Outermost(stack, k)
    BY <1>1 DEF IInv, TreeInv
  <2>3. \A k \in 1 .. depth : Outermost(base, k) /\ Outermost(stack', k)
    BY <1>2, <2>1, <2>2 DEF Outermost
  <2>4. lhs # "EOF"
    BY <1>1, OutermostRules DEF NodeSymbol, ListSymbol
  <2>5. stack'[depth + 1].kernel = goto(base[Len(base)].kernel, lhs)
    BY <1>1, <1>2, <2>1
  <2>6. Outermost(stack', depth + 1)
    BY <1>2, <2>1, <2>3, <2>4, <2>5, PushOutermost
  <2>7. \A k \in 1 .. Len(stack') : k \in 1 .. depth \/ k = depth + 1
    BY <1>1, <1>2
  <2>. QED
    BY <2>3, <2>6, <2>7
<1>12. stack'[1].symbol = "accept"
  BY <1>1, <1>2 DEF IInv, TreeInv
<1>13. ASSUME Len(stack') > 1, stack'[2].symbol = "parse"
       PROVE  parsed_ast' = stack'[2].value
  <2>1. CASE r = "parse"
    <3>1. rhs = << "top_level" >> /\ passed_on(r, v) = v[1] /\ r \notin NodeRule
      <4>1. Grammar[r] = rule("parse", << "top_level" >>)
        BY <2>1, GrammarRules
      <4>2. passed_on(r, v) = v[1]
        BY <2>1 DEF passed_on
      <4>3. r \notin NodeRule
        BY <2>1 DEF NodeRule, BinaryToken, LiteralToken
      <4>. QED
        BY <4>1, <4>2, <4>3 DEF rule
    <3>6. PICK i \in Top.kernel : i.rule = r /\ Complete(i)
      BY DEF Reducible
    <3>2. i.rule = r /\ i.dot = 1
      BY <3>1, <3>6 DEF Complete
    <3>7. Outermost(stack, Len(stack))
      BY <1>1 DEF IInv, TreeInv
    <3>3. Len(stack) = 2
      BY <2>1, <3>2, <3>6, <3>7 DEF Outermost, Top
    <3>4. depth = 1
      BY <1>1, <3>1, <3>3
    <3>5. parsed_ast' = v[1]
      BY <2>1 DEF reduce, v, depth, Depth, Values
    <3>. QED
      BY <1>2, <3>1, <3>4, <3>5 DEF yyval
  <2>2. CASE r # "parse"
    <3>1. parsed_ast' = parsed_ast
      BY <2>2 DEF reduce
    <3>2. lhs # "parse"
      BY <1>1, <2>2, OutermostRules
    <3>3. depth # 1
      BY <1>2, <1>13, <3>2
    <3>4. 2 \in 1 .. depth /\ Len(stack) > 1
      BY <1>1, <3>3
    <3>. QED
      BY <1>2, <1>13, <3>1, <3>4 DEF IInv, TreeInv
  <2>. QED
    BY <2>1, <2>2
<1>. QED
  BY <1>10, <1>11, <1>12, <1>13 DEF TreeInv

LEMMA ShiftKeeps ==
    ASSUME IInv, shift
    PROVE  StackInv'
<1>. DEFINE top == Entry(lookahead.kind, goto(stack[Len(stack)].kernel, lookahead.kind),
                         yylval(lookahead), lookahead.line)
<1>1. PICK S : stack \in Seq(S)
  BY DEF IInv, StackInv
<1>2. stack' = Append(stack, top) /\ nodes' = nodes
  BY DEF shift, Top
<1>3. Fits(top.symbol, top.value, nodes)
  <2>1. lookahead.kind \in Terminal
    BY DEF shift, IInv, TokenInv
  <2>. QED
    BY <2>1 DEF Entry, Fits, NodeSymbol, Terminal, yylval, IInv, TokenInv
<1>4. \A k \in 1 .. Len(stack') : Agrees(stack', k)
  BY <1>1, <1>2, PushAgrees DEF IInv, StackInv
<1>. HIDE DEF top
<1>5. /\ Len(stack') = Len(stack) + 1 /\ Len(stack) \in Nat
      /\ stack'[Len(stack) + 1] = top
      /\ \A k \in 1 .. Len(stack) : stack'[k] = stack[k]
      /\ stack' \in Seq(S \cup {top})
      /\ stack' # << >>
  BY <1>1, <1>2
<1>6. ASSUME NEW k \in 1 .. Len(stack')
      PROVE  Fits(stack'[k].symbol, stack'[k].value, nodes')
  <2>1. CASE k = Len(stack) + 1
    BY <2>1, <1>2, <1>3, <1>5
  <2>2. CASE k # Len(stack) + 1
    <3>1. k \in 1 .. Len(stack)
      BY <2>2, <1>5
    <3>. QED
      BY <3>1, <1>2, <1>5 DEF IInv, StackInv
  <2>. QED
    BY <2>1, <2>2
<1>. QED
  BY <1>4, <1>5, <1>6 DEF StackInv

LEMMA ShiftKeepsTree ==
    ASSUME IInv, shift
    PROVE  TreeInv'
<1>. DEFINE m   == Len(stack)
            top == Entry(lookahead.kind, goto(stack[m].kernel, lookahead.kind), yylval(lookahead), lookahead.line)
<1>1. PICK S : stack \in Seq(S)
  BY DEF IInv, StackInv
<1>2. stack' = Append(stack, top) /\ nodes' = nodes /\ parsed_ast' = parsed_ast
  BY DEF shift, Top
<1>3. lookahead.kind \in Terminal
  BY DEF shift, IInv, TokenInv
<1>4. top.symbol = lookahead.kind /\ top.kernel = goto(stack[m].kernel, lookahead.kind)
  BY DEF Entry
<1>5. top.symbol \notin NodeSymbol \cup ListSymbol \cup {"EOF", "parse"}
  BY <1>3, <1>4 DEF Terminal, NodeSymbol, ListSymbol
<1>. HIDE DEF top
<1>6. /\ m \in Nat \ {0} /\ Len(stack') = m + 1
      /\ stack'[m + 1] = top
      /\ \A k \in 1 .. m : stack'[k] = stack[k]
      /\ stack' \in Seq(S \cup {top})
  BY <1>1, <1>2 DEF IInv, StackInv
<1>7. \E first, e : Tiled(first, nodes') /\ Cut(first, e, stack', nodes')
  <2>1. PICK first, b : Tiled(first, nodes) /\ Cut(first, b, stack, nodes)
    BY DEF IInv, TreeInv
  <2>2. Carries(first, stack'[m + 1].symbol, stack'[m + 1].value, b[m], Len(nodes))
    BY <1>5, <1>6, <2>1 DEF Carries, Cut
  <2>3. m \in 0 .. Len(stack) /\ Len(nodes) \in Nat /\ Len(nodes) <= Len(nodes)
    BY <1>6 DEF IInv, NodesInv, Sound
  <2>. QED
    BY <1>1, <1>2, <1>6, <2>1, <2>2, <2>3, CutGrows
<1>8. \A k \in 1 .. Len(stack') : Outermost(stack', k)
  <2>1. \A k \in 1 .. m : Agrees(stack, k) /\ Outermost(stack, k)
    BY DEF IInv, StackInv, TreeInv
  <2>2. \A k \in 1 .. m : Outermost(stack', k)
    BY <1>6, <2>1 DEF Outermost
  <2>3. stack # << >>
    BY DEF IInv, StackInv
  <2>4. Outermost(stack', m + 1)
    BY <1>1, <1>4, <1>5, <1>6, <2>1, <2>3, PushOutermost
  <2>5. \A k \in 1 .. Len(stack') : k \in 1 .. m \/ k = m + 1
    BY <1>6
  <2>. QED
    BY <2>2, <2>4, <2>5
<1>9. stack'[1].symbol = "accept"
  BY <1>6 DEF IInv, TreeInv
<1>10. Len(stack') > 1 /\ stack'[2].symbol = "parse" => parsed_ast' = stack'[2].value
  <2>1. CASE m = 1
    BY <1>5, <1>6, <2>1
  <2>2. CASE m # 1
    <3>1. 2 \in 1 .. m /\ m > 1
      <4>. HIDE DEF m
      <4>. QED
        BY <1>6, <2>2
    <3>. QED
      BY <1>2, <1>6, <3>1 DEF IInv, TreeInv
  <2>. QED
    BY <2>1, <2>2
<1>. QED
  BY <1>7, <1>8, <1>9, <1>10 DEF TreeInv

\* What parse returns is all that was made.
LEMMA AcceptedInOrder ==
    ASSUME IInv, accept
    PROVE  InPostOrder([nodes |-> nodes, top |-> parsed_ast])
<1>1. PICK S : stack \in Seq(S)
  BY DEF IInv, StackInv
<1>2. goto(stack[Len(stack)].kernel, "EOF") # {}
  BY DEF accept, Shiftable, Top
<1>3. /\ stack # << >>
      /\ \A k \in 1 .. Len(stack) : Agrees(stack, k) /\ Outermost(stack, k)
  BY DEF IInv, StackInv, TreeInv
<1>4. Len(stack) = 2 /\ stack[2].symbol = "parse"
  BY <1>1, <1>2, <1>3, AcceptsTheWhole
<1>5. parsed_ast = stack[2].value /\ stack[1].symbol = "accept"
  BY <1>4 DEF IInv, TreeInv
<1>6. PICK first, b : Tiled(first, nodes) /\ Cut(first, b, stack, nodes)
  BY DEF IInv, TreeInv
<1>7. /\ b[0] = 0 /\ b[2] = Len(nodes)
      /\ Carries(first, "accept", stack[1].value, b[1 - 1], b[1])
      /\ Carries(first, "parse", stack[2].value, b[2 - 1], b[2])
  BY <1>4, <1>5, <1>6 DEF Cut
<1>8. Spans(first, parsed_ast, 0, Len(nodes))
  BY <1>5, <1>7 DEF Carries, NodeSymbol, ListSymbol
<1>9. Sound(nodes) /\ parsed_ast \in Seq(1 .. Len(nodes))
  <2>1. Of(nodes, TopLevel) \subseteq 1 .. Len(nodes)
    BY DEF Of
  <2>. QED
    BY <2>1, SeqGrows DEF IInv, NodesInv
<1>. QED
  BY <1>6, <1>8, <1>9, TiledIsInPostOrder

\* The scanner's steps change nothing but flex's state and the lookahead.
LEMMA ScanKeeps ==
    ASSUME IInv, yylex
    PROVE  IInv'
<1>1. /\ UNCHANGED << session, phase, current_file, open_files, stack, nodes, lines, parsed_ast, returned >>
      /\ lookahead = NoToken /\ phase = "parsing"
  BY DEF yylex, parser, Parsing
<1>2. CallsInv' /\ NodesInv' /\ StackInv' /\ TreeInv' /\ ResultsInv'
  <2>1. CallsInv'
    BY <1>1 DEF IInv, CallsInv, FilesClosedOnce
  <2>2. NodesInv'
    BY <1>1 DEF IInv, NodesInv
  <2>3. StackInv'
    BY <1>1 DEF IInv, StackInv, Agrees
  <2>4. ResultsInv'
    BY <1>1 DEF IInv, ResultsInv, ParsedIsAst
  <2>5. TreeInv'
    BY <1>1 DEF IInv, TreeInv, Outermost
  <2>. QED
    BY <2>1, <2>2, <2>3, <2>4, <2>5
<1>3. CASE read_file
  BY <1>1, <1>2, <1>3 DEF read_file, IInv, TokenInv, BufferInv, LeftoversOnlyAfterFailure, NoToken
<1>4. CASE skip
  BY <1>1, <1>2, <1>4 DEF skip, IInv, TokenInv, BufferInv, LeftoversOnlyAfterFailure, NoToken
<1>5. CASE end_of_file
  <2>1. pending' \in BOOLEAN /\ buffer' = buffer
    BY <1>5 DEF end_of_file
  <2>2. CASE buffer = << >>
    <3>1. pending' = FALSE /\ lookahead' = token("EOF", << >>)
      BY <1>5, <2>2 DEF end_of_file
    <3>2. lookahead'.kind = "EOF"
      BY <3>1 DEF token
    <3>3. TokenInv'
      BY <3>2 DEF TokenInv
    <3>. QED
      BY <1>1, <1>2, <2>1, <2>2, <3>1, <3>3 DEF IInv, BufferInv, LeftoversOnlyAfterFailure
  <2>3. CASE buffer # << >>
    <3>1. UNCHANGED lookahead
      BY <1>5, <2>3 DEF end_of_file
    <3>2. TokenInv'
      BY <3>1 DEF IInv, TokenInv
    <3>. QED
      BY <1>1, <1>2, <2>1, <3>1, <3>2 DEF IInv, BufferInv, LeftoversOnlyAfterFailure, NoToken
  <2>. QED
    BY <2>2, <2>3
<1>6. CASE match
  <2>1. PICK k \in Longest(buffer) :
          /\ lexeme(SubSeq(buffer, 1, k)) \notin {"comment", "blank", "newline"}
          /\ lookahead' = token(lexeme(SubSeq(buffer, 1, k)), SubSeq(buffer, 1, k))
    BY <1>6 DEF match
  <2>. DEFINE s == SubSeq(buffer, 1, k)
  <2>2. lexeme(s) # "none"
    BY <2>1 DEF Longest, Matches
  <2>. HIDE DEF s
  <2>3. lexeme(s) \in Terminal
    BY <2>1, <2>2, LexemeIsTerminal DEF s
  <2>4. /\ lookahead'.kind = lexeme(s)
        /\ lexeme(s) = "IDENTIFIER" => lookahead'.name = name_of(s)
        /\ lexeme(s) = "TYPE" => lookahead'.type = type_named[s[1]]
    BY <2>1 DEF token, s
  <2>5. TokenInv'
    BY <2>3, <2>4, NamesAreNames, TypeKeywords DEF TokenInv, Terminal
  <2>6. BufferInv'
    BY <1>1, <1>6, <2>3, <2>4 DEF match, IInv, BufferInv, LeftoversOnlyAfterFailure, Terminal
  <2>. QED
    BY <1>2, <2>5, <2>6 DEF IInv
<1>. QED
  BY <1>3, <1>4, <1>5, <1>6 DEF yylex

LEMMA NextPreserves == IInv /\ [Next]_vars => IInv'
<1>. SUFFICES ASSUME IInv, [Next]_vars PROVE IInv'
  OBVIOUS
<1>1. CASE cannot_open
  <2>1. UNCHANGED << lookahead, buffer, pending, session, phase, open_files, stack, nodes, lines, parsed_ast >>
        /\ phase = "idle"
    BY <1>1 DEF cannot_open, flex, parser, CallsLeft
  <2>2. ends("missing", << InTurn >>, 1)
    BY <1>1 DEF cannot_open
  <2>3. ResultsInv' /\ Len(returned') = Len(returned) + 1
    BY <2>2, EndKeepsResults DEF IInv
  <2>4. CallsInv'
    BY <1>1, <2>1, <2>3 DEF cannot_open, CallsLeft, InTurn, IInv, CallsInv, FilesClosedOnce, ResultsInv
  <2>5. BufferInv'
    BY <2>1, <2>2, EndKeepsClean DEF IInv, BufferInv, LeftoversOnlyAfterFailure
  <2>6. TokenInv' /\ NodesInv'
    BY <2>1 DEF IInv, TokenInv, NodesInv
  <2>7. StackInv'
    BY <2>1 DEF IInv, StackInv, Agrees
  <2>8. TreeInv'
    BY <2>1 DEF IInv, TreeInv, Outermost
  <2>. QED
    BY <2>3, <2>4, <2>5, <2>6, <2>7, <2>8 DEF IInv
<1>2. CASE parse
  <2>1. CallsInv'
    BY <1>2 DEF parse, CallsLeft, InTurn, IInv, CallsInv, FilesClosedOnce, ResultsInv
  <2>2. TokenInv'
    BY <1>2 DEF parse, TokenInv, NoToken
  <2>3. NodesInv'
    <3>1. << >> \in Seq(Of(<< >>, TopLevel)) /\ << >> \in Seq({}) /\ Len(<< >>) = 0
      OBVIOUS
    <3>. QED
      BY <1>2, <3>1, NothingIsSound DEF parse, NodesInv
  <2>4. StackInv'
    <3>1. << Bottom >> \in Seq({Bottom}) /\ Len(<< Bottom >>) = 1 /\ << Bottom >>[1] = Bottom
      OBVIOUS
    <3>2. stack' = << Bottom >> /\ stack' # << >>
      BY <1>2 DEF parse
    <3>3. \A k \in 1 .. Len(stack') : Agrees(stack', k) /\ Fits(stack'[k].symbol, stack'[k].value, nodes')
      BY <3>1, <3>2, BottomIsSound
    <3>. QED
      BY <3>1, <3>2, <3>3 DEF StackInv
  <2>5. ResultsInv'
    BY <1>2 DEF parse, IInv, ResultsInv, ParsedIsAst
  <2>6. BufferInv'
    BY <1>2 DEF parse, IInv, BufferInv, LeftoversOnlyAfterFailure, NoToken
  <2>7. TreeInv'
    <3>1. stack' = << Bottom >> /\ nodes' = << >> /\ Len(<< Bottom >>) = 1
      BY <1>2 DEF parse
    <3>. QED
      BY <3>1, BottomIsOutermost DEF TreeInv
  <2>. QED
    BY <2>1, <2>2, <2>3, <2>4, <2>5, <2>6, <2>7 DEF IInv
<1>3. CASE yylex
  BY <1>3, ScanKeeps
<1>4. CASE exit
  <2>1. UNCHANGED << flex, lookahead, session, current_file, open_files, parser, returned >>
        /\ phase = "parsing" /\ phase' = "exited"
    BY <1>4 DEF exit, Parsing
  <2>2. CallsInv'
    BY <2>1 DEF IInv, CallsInv, FilesClosedOnce
  <2>3. StackInv'
    BY <2>1 DEF IInv, StackInv, Agrees, parser
  <2>4. TreeInv'
    BY <2>1 DEF IInv, TreeInv, Outermost, parser
  <2>. QED
    BY <2>1, <2>2, <2>3, <2>4 DEF IInv, TokenInv, NodesInv, ResultsInv, ParsedIsAst, BufferInv,
                            LeftoversOnlyAfterFailure, flex, parser
<1>5. CASE shift
  <2>1. StackInv' /\ TreeInv'
    BY <1>5, ShiftKeeps, ShiftKeepsTree
  <2>2. UNCHANGED << flex, session, phase, current_file, open_files, nodes, lines, parsed_ast, returned >>
        /\ lookahead' = NoToken /\ phase = "parsing"
    BY <1>5 DEF shift, Parsing
  <2>3. CallsInv'
    BY <2>2 DEF IInv, CallsInv, FilesClosedOnce
  <2>. QED
    BY <2>1, <2>2, <2>3 DEF IInv, TokenInv, NoToken, NodesInv, ResultsInv, ParsedIsAst, BufferInv,
                            LeftoversOnlyAfterFailure, flex
<1>6. ASSUME NEW r \in Reducible, reduce(r)
      PROVE  IInv'
  <2>1. NodesInv' /\ StackInv' /\ TreeInv'
    BY <1>6, ReduceKeeps, ReduceKeepsTree
  <2>2. UNCHANGED << flex, lookahead, session, phase, current_file, open_files, returned >>
        /\ phase = "parsing"
    BY <1>6 DEF reduce, Parsing
  <2>3. CallsInv'
    BY <2>2 DEF IInv, CallsInv, FilesClosedOnce
  <2>. QED
    BY <2>1, <2>2, <2>3 DEF IInv, TokenInv, ResultsInv, ParsedIsAst, BufferInv,
                            LeftoversOnlyAfterFailure, flex
<1>7. CASE accept \/ yyerror
  <2>1. /\ UNCHANGED << lookahead, buffer, pending, session, stack, nodes, lines, parsed_ast >>
        /\ phase = "parsing" /\ phase' = "idle"
        /\ open_files' = open_files - 1 /\ current_file' = NoFile
    BY <1>7 DEF accept, yyerror, Parsing, flex, parser
  <2>2. PICK outcome, file, line :
          /\ ends(outcome, file, line)
          /\ outcome # "exception" => lookahead.kind = "EOF" /\ InPostOrder([nodes |-> nodes, top |-> parsed_ast])
    BY <1>7, AcceptedInOrder DEF accept, yyerror
  <2>3. ResultsInv' /\ Len(returned') = Len(returned) + 1
    BY <2>2, EndKeepsResults DEF IInv, NodesInv
  <2>4. CallsInv'
    BY <2>1, <2>3 DEF IInv, CallsInv, FilesClosedOnce, ResultsInv
  <2>5. BufferInv'
    BY <2>1, <2>2, EndKeepsClean DEF IInv, BufferInv, LeftoversOnlyAfterFailure
  <2>6. TokenInv' /\ NodesInv'
    BY <2>1 DEF IInv, TokenInv, NodesInv
  <2>7. StackInv'
    BY <2>1 DEF IInv, StackInv, Agrees
  <2>8. TreeInv'
    BY <2>1 DEF IInv, TreeInv, Outermost
  <2>. QED
    BY <2>3, <2>4, <2>5, <2>6, <2>7, <2>8 DEF IInv
<1>8. CASE UNCHANGED vars
  <2>1. UNCHANGED << flex, lookahead, session, phase, current_file, open_files, parser, returned >>
    BY <1>8 DEF vars
  <2>2. CallsInv' /\ StackInv' /\ TreeInv'
    BY <2>1 DEF IInv, CallsInv, FilesClosedOnce, StackInv, Agrees, TreeInv, Outermost, parser
  <2>3. TokenInv' /\ NodesInv'
    BY <2>1 DEF IInv, TokenInv, NodesInv, parser
  <2>4. ResultsInv'
    BY <2>1 DEF IInv, ResultsInv, ParsedIsAst
  <2>5. BufferInv'
    BY <2>1 DEF IInv, BufferInv, LeftoversOnlyAfterFailure, Clean, flex
  <2>. QED
    BY <2>2, <2>3, <2>4, <2>5 DEF IInv
<1>. QED
  BY <1>1, <1>2, <1>3, <1>4, <1>5, <1>6, <1>7, <1>8 DEF Next

LEMMA Invariance == Spec => []IInv
  BY InitEstablishes, NextPreserves, PTL DEF Spec

-------------------------------------------------------------------------------

\* The variables of parse, bison and flex keep their types.
THEOREM TypesAreKept == Spec => []TypeOK
<1>1. IInv => TypeOK
  BY DEF IInv, CallsInv, FilesClosedOnce, NodesInv, Sound, StackInv, BufferInv, TypeOK
<1>. QED
  BY <1>1, Invariance, PTL

\* Whatever the files contain, a list that parse returns is a tree the
\* validator may be given.
THEOREM TreesAreAsts == Spec => []ParsedIsAst
<1>1. IInv => ParsedIsAst
  BY DEF IInv, ResultsInv
<1>. QED
  BY <1>1, Invariance, PTL

\* No sequence of calls leaves a file open, or closes one twice.
THEOREM FilesAreClosedOnce == Spec => []FilesClosedOnce
<1>1. IInv => FilesClosedOnce
  BY DEF IInv, CallsInv
<1>. QED
  BY <1>1, Invariance, PTL

\* Until a call has thrown, every file is read from its own beginning.
THEOREM BufferIsCarriedOverOnlyAfterFailure == Spec => []LeftoversOnlyAfterFailure
<1>1. IInv => LeftoversOnlyAfterFailure
  BY DEF IInv, BufferInv
<1>. QED
  BY <1>1, Invariance, PTL
================================================================================
